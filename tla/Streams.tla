------------------------------- MODULE Streams -------------------------------
(***************************************************************************)
(* The streams that the transfer loop of IoOp is run over: what read_some  *)
(* and write_some of each answer when they are given a chunk.              *)
(*                                                                         *)
(*   fd       posix_fd_stream_base: one ::read or ::write                  *)
(*   handle   win32_handle_stream_base: one ReadFile or WriteFile, of a    *)
(*            32-bit size, and the last error of the system                *)
(*   wsa      wsa_socket_stream: one WSARecv or WSASend, and likewise      *)
(*   dynbuf   dynbuf_stream and string_stream: a dynamic buffer, whose     *)
(*            owner may take out or put in bytes between two calls         *)
(*   other    any other stream, such as a TLS stream                       *)
(***************************************************************************)
EXTENDS IoOp

CONSTANTS Dwords,   \* how many values a DWORD or ULONG has
          Capacity  \* what a dynamic buffer can hold

ASSUME StreamsAssumption == Dwords \in Nat \ {0} /\ Capacity \in Nat

VARIABLES kind,  \* which of the streams this is
          left,  \* what a dynbuf can still take, or give
          dried  \* history: why the last operation moved nothing, if without an error

streamVars == <<vars, kind, left, dried>>

Kinds == {"fd", "handle", "wsa", "dynbuf", "other"}

StreamsInit == /\ Init
               /\ kind \in Kinds
               /\ left \in 0..Capacity
               /\ dried = "no"

-----------------------------------------------------------------------------
(* native_transfer_result; its error is an errn that is not zero. *)
Native(n, errn) == [bytes_transferred |-> n, error |-> errn # 0]

(* mutant: a system call that failed is taken for one that moved nothing *)
MkResultUnchecked(n, errno) == IF n = -1 THEN Native(0, 0) ELSE Native(n, 0)

(* _mk_result: errno means something only after a failure. *)
MkResult(n, errno) == IF n = -1 THEN Native(0, errno) ELSE Native(n, 0)

(* ::read and ::write: asked for bytes, they give some, fail, or, at the   *)
(* end, give none; errno is whatever it was unless they fail.              *)
FdOperates ==
    \E n \in {-1} \union (0..next_out), errno \in {0, 5} :
        /\ n = -1 => errno # 0
        /\ Transfer(MkResult(n, errno))
        /\ dried' = IF n = 0 THEN "at the end" ELSE "no"
        /\ UNCHANGED left

(* static_cast<DWORD>(size) *)
Dword(size) == size % Dwords

(* ReadFile and WriteFile may fail and have moved bytes.                   *)
HandleOperates ==
    \E n \in 0..Dword(next_out), errn \in {0, 5} :
        /\ Transfer(Native(n, errn))
        /\ dried' = IF errn # 0 \/ n > 0 THEN "no"
                    ELSE IF Dword(next_out) = 0 THEN "asked for none" ELSE "at the end"
        /\ UNCHANGED left

(* The one WSABUF is made and answered in the same way. *)
WsaOperates == HandleOperates

(* grow() and buffer_copy, or the copy and consume(). *)
DynbufOperates ==
    LET n == IF next_out <= left THEN next_out ELSE left IN
    /\ Transfer([bytes_transferred |-> n, error |-> FALSE])
    /\ left' = left - n
    /\ dried' = IF n = 0 THEN "at the end" ELSE "no"

StreamOperates ==
    /\ pc = "op" /\ next_out > 0
    /\ CASE kind = "fd"     -> FdOperates
         [] kind = "handle" -> HandleOperates
         [] kind = "wsa"    -> WsaOperates
         [] kind = "dynbuf" -> DynbufOperates
         [] OTHER           -> Operate /\ UNCHANGED <<left, dried>>
    /\ UNCHANGED kind

StreamLoop == \/ (CheckCondition \/ Exhausted) /\ UNCHANGED <<kind, left, dried>>
              \/ StreamOperates

(* Between calls the owner of a dynamic buffer makes room, or puts bytes in. *)
StreamNextCall == /\ NextCall
                  /\ left' \in left..Capacity
                  /\ dried' = "no"
                  /\ UNCHANGED kind

StreamsNext == StreamLoop \/ StreamNextCall

StreamsSpec == StreamsInit /\ [][StreamsNext]_streamVars /\ WF_streamVars(StreamLoop)

-----------------------------------------------------------------------------
(* A call under transfer_all or transfer_exactly that returns short and    *)
(* without an error has met the end of its stream: a descriptor at its     *)
(* end, or a dynamic buffer that really is empty or full.  On Windows      *)
(* alone there is one more way to end it: a chunk whose size is a multiple *)
(* of 2^32 is cast to no bytes at all.                                     *)
ShortOnlyAtEnd ==
    /\ pc = "done" /\ cond.kind # "custom" /\ kind # "other" /\ ~res_acc.error
    /\ base + res_acc.bytes_transferred < total
    /\ cond.kind = "exactly" => res_acc.bytes_transferred < cond.size
    => \/ dried = "at the end" /\ (kind = "dynbuf" => left = 0)
       \/ dried = "asked for none" /\ kind \in {"handle", "wsa"}

(* What makes that inductive: why an operation that moved nothing, and did *)
(* not fail, moved nothing.                                                *)
DriedOK == /\ kind \in Kinds
           /\ left \in 0..Capacity
           /\ stalled /\ ~failed /\ kind # "other"
                => \/ dried = "at the end" /\ (kind = "dynbuf" => left = 0)
                   \/ dried = "asked for none" /\ kind \in {"handle", "wsa"}
=============================================================================
