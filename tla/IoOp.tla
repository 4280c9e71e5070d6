-------------------------------- MODULE IoOp --------------------------------
(***************************************************************************)
(* detail::do_io_op, the loop under neo::read and neo::write: it carries a *)
(* caller's buffer through repeated read_some/write_some operations, as    *)
(* much as the completion condition asks for, until the condition, an      *)
(* error, an operation of no bytes or the end of the buffer stops it.      *)
(*                                                                         *)
(* The direction makes no difference to the loop, so bytes are the         *)
(* positions of the caller's buffer, and "stream" is the order in which    *)
(* the operations met them.  The caller may continue a short transfer with *)
(* a further call on the rest of its buffer (NextCall).                    *)
(***************************************************************************)
EXTENDS Integers, SequencesExt

CONSTANTS MaxLen,   \* bound: the longest buffer a caller passes
          SizeMax   \* the largest std::size_t

ASSUME BoundsAssumption == MaxLen \in Nat /\ SizeMax \in Nat /\ MaxLen < SizeMax

VARIABLES pc,         \* "check", "op", or "done" when the call has returned
          total,      \* length of the caller's buffer
          base,       \* bytes earlier calls transferred
          cond,       \* the completion condition of this call
          consumed,   \* how far this call's buffer consumer has advanced
          next_out,   \* length of the chunk the consumer offered
          res_acc,    \* the accumulated transfer result of this call
          stream,     \* history: buffer positions in the order transferred
          stalled,    \* history: an operation of this call moved no bytes
          failed      \* history: an operation of this call reported an error

vars == <<pc, total, base, cond, consumed, next_out, res_acc, stream,
          stalled, failed>>

Size == 0..SizeMax

(* size_t subtraction: wraps below zero. *)
SizeSub(a, b) == IF a >= b THEN a - b ELSE a - b + SizeMax + 1

(* The first n positions of a buffer, in order. *)
Positions(n) == [i \in 1..n |-> i]

(* transfer_all, transfer_exactly{size}, or a condition of the user's own. *)
Conditions == [kind : {"all", "exactly", "custom"}, size : 0..MaxLen]

(* mutant: transfer_exactly forgets what was already transferred *)
RequestWhole(c, res) == CASE c.kind = "all"     -> {SizeMax}
                          [] c.kind = "exactly" -> {c.size}
                          [] OTHER              -> Size

(* The sizes the condition may answer when it is shown the result so far. *)
Request(c, res) == CASE c.kind = "all"     -> {SizeMax}
                     [] c.kind = "exactly" -> {SizeSub(c.size, res.bytes_transferred)}
                     [] OTHER              -> Size

Remaining == total - base - consumed

(* mutant: the consumer may offer one byte past the end *)
ChunksPastEnd(req) == 1..(IF req <= Remaining + 1 THEN req ELSE Remaining + 1)

(* The lengths of chunk that buffers_consumer::next(req) may return: never *)
(* more than req, and none only when the buffer is used up.                *)
Chunks(req) == IF Remaining = 0
               THEN {0}
               ELSE 1..(IF req <= Remaining THEN req ELSE Remaining)

(* mutant: all but the count is taken from the left-hand result *)
SumKeepingLeft(left, right) ==
    [left EXCEPT !.bytes_transferred = @ + right.bytes_transferred]

SumTransferResult(left, right) ==
    [right EXCEPT !.bytes_transferred = @ + left.bytes_transferred]

(* How far the consumer advances: by what the last operation added. *)
Growth(after, before) == SizeSub(after.bytes_transferred, before.bytes_transferred)

StartOfCall == /\ pc = "check"
               /\ consumed = 0
               /\ next_out = 0
               /\ res_acc = [bytes_transferred |-> 0, error |-> FALSE]
               /\ stalled = FALSE
               /\ failed = FALSE

Init == /\ StartOfCall
        /\ total \in 0..MaxLen
        /\ base = 0
        /\ cond \in Conditions
        /\ stream = <<>>

(* Ask the completion condition, and take the next chunk unless it says 0. *)
CheckCondition ==
    /\ pc = "check"
    /\ \E req \in Request(cond, res_acc) :
         IF req = 0
         THEN pc' = "done" /\ UNCHANGED next_out
         ELSE pc' = "op" /\ next_out' \in Chunks(req)
    /\ UNCHANGED <<total, base, cond, consumed, res_acc, stream, stalled, failed>>

(* Where the loop goes after an operation of n bytes left it with res. *)
AfterOp(res, n) == IF res.error \/ n = 0 THEN "done" ELSE "check"

(* An operation answers with op: the consumer advances by the growth of    *)
(* the accumulated count.                                                  *)
Transfer(op) ==
    LET sum == SumTransferResult(res_acc, op)
        n_transferred == Growth(sum, res_acc)
    IN  /\ res_acc' = sum
        /\ stream' = stream \o [i \in 1..op.bytes_transferred |-> base + consumed + i]
        /\ consumed' = consumed + n_transferred
        /\ pc' = AfterOp(sum, n_transferred)
        /\ failed' = (failed \/ op.error)
        /\ stalled' = (op.bytes_transferred = 0)
        /\ next_out' = 0
        /\ UNCHANGED <<total, base, cond>>

(* One read_some/write_some on the chunk, of whatever stream: any part of  *)
(* it is transferred, and an error may come with bytes.                    *)
Operate ==
    /\ pc = "op" /\ next_out > 0
    /\ \E n \in 0..next_out, error \in BOOLEAN :
          Transfer([bytes_transferred |-> n, error |-> error])

(* mutant: the loop does not stop when nothing was transferred *)
RoundAgain == "check"

(* Where the loop goes when the buffer had nothing left to offer. *)
AfterNothing == "done"

(* The buffer is used up: no operation, nothing transferred, the loop ends. *)
Exhausted ==
    /\ pc = "op" /\ next_out = 0
    /\ pc' = AfterNothing
    /\ UNCHANGED <<total, base, cond, consumed, next_out, res_acc, stream,
                   stalled, failed>>

(* The caller continues behind the bytes the call reported. *)
NextCall ==
    /\ pc = "done"
    /\ base + res_acc.bytes_transferred < total
    /\ pc' = "check"
    /\ base' = base + res_acc.bytes_transferred
    /\ cond' \in Conditions
    /\ consumed' = 0
    /\ next_out' = 0
    /\ res_acc' = [bytes_transferred |-> 0, error |-> FALSE]
    /\ stalled' = FALSE
    /\ failed' = FALSE
    /\ UNCHANGED <<total, stream>>

Loop == CheckCondition \/ Operate \/ Exhausted

Next == Loop \/ NextCall

(* The operations of the stream return (they may block, not hang), so the  *)
(* loop keeps going; nothing obliges a caller to continue.                 *)
Spec == Init /\ [][Next]_vars /\ WF_vars(Loop)

-----------------------------------------------------------------------------
(* Every variable has the type the code gives it. *)
TypeOK ==
    /\ pc \in {"check", "op", "done"}
    /\ total \in 0..MaxLen
    /\ base \in 0..MaxLen
    /\ cond \in Conditions
    /\ consumed \in 0..MaxLen
    /\ next_out \in 0..MaxLen
    /\ res_acc \in [bytes_transferred : 0..MaxLen, error : BOOLEAN]
    /\ stream \in Seq(1..MaxLen)
    /\ stalled \in BOOLEAN /\ failed \in BOOLEAN

(* The count a call reports is what its operations moved: the stream has   *)
(* met exactly the first base + bytes_transferred bytes of the buffer, in  *)
(* order, so a caller that continues behind the reported count neither     *)
(* repeats nor skips a byte, whatever short counts and errors came before. *)
CountMatchesStream ==
    /\ stream = Positions(base + res_acc.bytes_transferred)
    /\ base + res_acc.bytes_transferred <= total

(* transfer_exactly never transfers more than it was asked for, and so its *)
(* size_t difference never wraps round to a huge request.                  *)
ExactlyNeverOvershoots ==
    cond.kind = "exactly" => res_acc.bytes_transferred <= cond.size

(* A call under transfer_all or transfer_exactly that returns without an   *)
(* error has moved all that was asked for, or met an operation of no       *)
(* bytes; an error any of its operations reported is in the result.        *)
ReturnsForAReason ==
    pc = "done" =>
        /\ res_acc.error = failed
        /\ cond.kind # "custom" /\ ~failed /\ ~stalled
             => \/ base + res_acc.bytes_transferred = total
                \/ cond.kind = "exactly" /\ res_acc.bytes_transferred = cond.size

(* Every call returns. *)
CallReturns == pc # "done" ~> pc = "done"

(* Over all the calls on one buffer the loop is a byte pipe: the stream    *)
(* meets the buffer's bytes in order, each once.                           *)
Pipe == INSTANCE BytePipe WITH
            put <- Positions(total),
            got <- stream
ImplementsPipe == Pipe!Spec

(* The inductive invariant behind the safety properties above: the         *)
(* consumer and the accumulated count agree, a chunk never reaches past    *)
(* the buffer or the exact size, and an operation that failed or moved     *)
(* nothing is the last one of its call.                                    *)
ConsumerInStep ==
    /\ consumed = res_acc.bytes_transferred
    /\ failed = res_acc.error
    /\ stalled \/ failed => pc = "done"

ChunkInBounds ==
    IF pc = "op"
    THEN /\ next_out <= Remaining
         /\ next_out = 0 => Remaining = 0
         /\ cond.kind = "exactly" => next_out <= cond.size - res_acc.bytes_transferred
    ELSE next_out = 0

Inv == /\ TypeOK
       /\ ConsumerInStep
       /\ ChunkInBounds
       /\ CountMatchesStream
       /\ ExactlyNeverOvershoots
       /\ ReturnsForAReason
=============================================================================
