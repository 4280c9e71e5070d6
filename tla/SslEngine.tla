----------------------------- MODULE SslEngine -----------------------------
(***************************************************************************)
(* ssl::engine over two stream_io_buffers, as ssl::stream puts it          *)
(* together: connect, read_some, write_some and shutdown all run the same  *)
(* loop, which calls OpenSSL, moves what OpenSSL wants to send into the    *)
(* sink, and feeds it once from the source when it wants to read.          *)
(***************************************************************************)
EXTENDS Integers, SequencesExt

CONSTANTS BioSize,      \* room for outgoing bytes in the BIO pair
          OutCapacity,  \* capacity of the sink's buffer
          MayFall,      \* whether writes to the stream may fail or fall short
          InChunk,      \* bytes asked of the source at a time (1024)
          MaxOut,       \* bound: bytes OpenSSL ever emits
          MaxIn,        \* bound: bytes the peer ever sends
          MaxCall       \* bound: length of a plaintext buffer

ASSUME EngineAssumption ==
    /\ {BioSize, OutCapacity, InChunk, MaxOut} \subseteq Nat \ {0}
    /\ {MaxIn, MaxCall} \subseteq Nat
    /\ MayFall \in BOOLEAN

VARIABLES pc,     \* "idle" between calls, else where the running call stands
          call,   \* the running or last call: operation and buffer size
          state,  \* what one_step answered: "ok" (go on) or "stop"
          ec,     \* the error code of the running or last call
          bytes   \* plaintext bytes the running or last call reports

VARIABLES hs, sentClose, recvClose, want_read, outgoing, incoming, produced, rc, errno
VARIABLES outArea, outRoom, accepted, sent, outEnd, outFell
VARIABLES inArea, inView, inEnd, fetched, fed

SSL == INSTANCE OpenSSL
Sink == INSTANCE StreamSink WITH
            Capacity <- OutCapacity, MaxBytes <- MaxOut, area <- outArea,
            prepared <- outRoom, outcome <- outEnd, fell <- outFell
Source == INSTANCE StreamSource WITH
            Capacity <- InChunk, MaxBytes <- MaxIn, area <- inArea,
            view <- inView, outcome <- inEnd, taken <- fed

local == <<pc, call, state, ec, bytes>>
peer == <<hs, sentClose, recvClose>>
sslVars == <<peer, want_read, outgoing, incoming, produced, rc, errno>>
sinkVars == <<outArea, outRoom, accepted, sent, outEnd, outFell>>
sourceVars == <<inArea, inView, inEnd, fetched, fed>>
vars == <<local, sslVars, sinkVars, sourceVars>>

Calls == [op : {"connect", "shutdown"}, size : {0}]
            \union [op : {"read", "write"}, size : 0..MaxCall]

Init == /\ pc = "idle"
        /\ call = [op |-> "connect", size |-> 0]
        /\ state = "stop" /\ ec = "none" /\ bytes = 0
        /\ SSL!Init /\ Sink!Init /\ Source!Init

(* A caller starts an operation, with errno as it happens to be.           *)
(* read_some on an empty buffer returns without running the loop.          *)
Begin(c) ==
    /\ pc = "idle"
    /\ call' = c
    /\ ec' = "none" /\ bytes' = 0
    /\ pc' = IF c.op = "read" /\ c.size = 0 THEN "idle" ELSE "step"
    /\ errno' \in BOOLEAN
    /\ UNCHANGED <<state, peer, want_read, outgoing, incoming, produced, rc,
                   sinkVars, sourceVars>>

(* mutant: the end of the peer's data is no error *)
EcOfEnd(code, err) == CASE code = "syscall" -> IF err THEN "system" ELSE "none"
                        [] code = "ssl"     -> "ssl"
                        [] OTHER            -> "none"

(* mutant: the error queue is emptied before SSL_get_error looks at it,    *)
(* which then takes every SSL error for one of the system                  *)
EcOfEmptyQueue(code, err) ==
    CASE code \in {"syscall", "ssl"} -> IF err THEN "system" ELSE "none"
      [] code = "zero_return"        -> "io_error"
      [] OTHER                       -> "none"

(* The error code one_step makes of a result; SSL_ERROR_SYSCALL becomes    *)
(* whatever errno holds, which may be no error at all.                     *)
EcOf(code, err) ==
    CASE code \in {"none", "want_read", "want_write"} -> "none"
      [] code = "syscall"     -> IF err THEN "system" ELSE "none"
      [] code = "ssl"         -> "ssl"
      [] code = "zero_return" -> "io_error"
      [] OTHER                -> "protocol_error"

(* mutant: a finished operation is not flushed *)
AfterStepNoFlush(err, st) == IF err # "none" \/ st = "stop" THEN "idle" ELSE "drain"

(* Where run goes after one_step: out with an error, else to flush_io. *)
AfterStep(err, st) == IF err # "none" THEN "idle" ELSE "drain"

(* one_step: call OpenSSL once; the loop ends at an error. *)
OneStep ==
    /\ pc = "step"
    /\ SSL!Call(call.op, call.size)
    /\ state' = IF rc'.code \in {"want_read", "want_write"} THEN "ok" ELSE "stop"
    /\ ec' = EcOf(rc'.code, errno')
    /\ bytes' = bytes + rc'.n
    /\ pc' = AfterStep(ec', state')
    /\ UNCHANGED <<call, sinkVars, sourceVars>>

(* mutant: one round of output before every input *)
AfterCommitOnce == "input"

(* Where flush_io goes after a commit: round again for more output. *)
AfterCommit == "drain"

(* flush_io asks the sink for room for all that is pending, and gives up   *)
(* on output when there is none.                                           *)
PrepareOutput ==
    /\ pc = "drain"
    /\ IF outgoing = <<>>
       THEN pc' = "input" /\ UNCHANGED sinkVars
       ELSE /\ Sink!Prepare(Len(outgoing))
            /\ pc' = IF outRoom' = 0 THEN "input" ELSE "commit"
    /\ UNCHANGED <<call, state, ec, bytes, sslVars, sourceVars>>

(* mutant: the region is committed, however little BIO_read put there *)
CommittedRegion(n) == [i \in 1..outRoom |-> IF i <= n THEN outgoing[i] ELSE 0]

(* What is committed after BIO_read put n bytes into the region. *)
Committed(n) == SubSeq(outgoing, 1, n)

(* It fills the first part of that room from the BIO and commits it; the   *)
(* system_error of a failed commit becomes the error of the call.          *)
CommitOutput ==
    /\ pc = "commit"
    /\ \E n \in 1..outRoom :
         /\ n <= Len(outgoing)
         /\ Sink!Commit(Committed(n))
         /\ outgoing' = SubSeq(outgoing, n + 1, Len(outgoing))
    /\ IF outEnd' = "threw"
       THEN pc' = "idle" /\ ec' = "transport"
       ELSE pc' = AfterCommit /\ UNCHANGED ec
    /\ UNCHANGED <<call, state, bytes, peer, want_read, incoming, produced, rc,
                   errno, sourceVars>>

(* mutant: the loop goes on although the operation is finished *)
AfterFlushAgain == "step"

(* Where the loop goes once flush_io returned without an error. *)
AfterFlush == IF state = "stop" THEN "idle" ELSE "step"

(* mutant: an empty view of the input sends the loop round again *)
AfterAskSpinning(end) == CASE end = "bytes" -> "feed"
                           [] end = "threw" -> "idle"
                           [] OTHER         -> "step"

(* Where flush_io goes after asking the source. *)
AfterAsk(end) == IF end = "bytes" THEN "feed" ELSE "idle"

(* Output is as far out as it gets.  If OpenSSL wants to read, the source  *)
(* is asked once; a failed read or an empty view ends the call.            *)
AskInput ==
    /\ pc = "input"
    /\ IF want_read
       THEN /\ Source!NextBytes(InChunk)
            /\ ec' = CASE inEnd' = "threw" -> "transport"
                       [] inEnd' = "empty" -> "no_message"
                       [] OTHER            -> ec
            /\ pc' = AfterAsk(inEnd')
       ELSE pc' = AfterFlush /\ UNCHANGED <<ec, sourceVars>>
    /\ UNCHANGED <<call, state, bytes, sslVars, sinkVars>>

(* mutant: the whole view counts as consumed, however much the BIO took *)
ConsumedView(n) == inView

(* How much of the view is consumed after BIO_write took n bytes. *)
Consumed(n) == n

(* BIO_write takes the first part of the view, which is then consumed. *)
FeedInput ==
    /\ pc = "feed"
    /\ \E n \in 1..inView :
         /\ incoming' = incoming \o SubSeq(inArea, 1, n)
         /\ Source!Consume(Consumed(n))
    /\ pc' = AfterFlush
    /\ UNCHANGED <<call, state, ec, bytes, peer, want_read, outgoing, produced, rc,
                   errno, sinkVars>>

Run == OneStep \/ PrepareOutput \/ CommitOutput \/ AskInput \/ FeedInput

Next == (\E c \in Calls : Begin(c)) \/ Run

(* A running call takes its steps: the calls it makes return. *)
Spec == Init /\ [][Next]_vars /\ WF_vars(Run)

-----------------------------------------------------------------------------
TypeOK == /\ pc \in {"idle", "step", "drain", "commit", "input", "feed"}
          /\ call \in Calls
          /\ state \in {"ok", "stop"}
          /\ ec \in {"none", "system", "ssl", "io_error", "protocol_error",
                     "no_message", "transport"}
          /\ bytes \in 0..MaxCall
          /\ SSL!TypeOK /\ Sink!TypeOK /\ Source!TypeOK

(* Every byte OpenSSL emits is on its way to the peer once and in order:   *)
(* taken by the stream, waiting in the sink, or waiting in the BIO pair.   *)
OutputInOrder == sent \o outArea \o outgoing = [i \in 1..produced |-> i]

(* OpenSSL is fed exactly the bytes consumed from the source, so no byte   *)
(* of the peer is skipped or fed twice; what waits in the pair is the end  *)
(* of what was fed.                                                        *)
InputInOrder == /\ fed \o inArea = fetched
                /\ \E n \in 0..Len(fed) : incoming = SubSeq(fed, n + 1, Len(fed))

(* The engine never waits for the peer while the peer waits for it: when   *)
(* it asks the source for more, everything OpenSSL had to say has left,    *)
(* unless a write to the stream fell short.                                *)
NoWaitWhileOutputUnsent ==
    pc = "input" /\ ~outFell => outgoing = <<>> /\ outArea = <<>>

(* A call that ran and reports success has left nothing for a later call   *)
(* to send (the last handshake flight, a record, a close_notify).          *)
SuccessIsSent ==
    pc = "idle" /\ ec = "none" /\ ~outFell
        => \/ call.op = "read" /\ call.size = 0
           \/ outgoing = <<>> /\ outArea = <<>>

(* A shutdown that reports success has sent close_notify. *)
ShutdownSendsClose ==
    pc = "idle" /\ call.op = "shutdown" /\ ec = "none" => sentClose

(* On a connection that has not failed, a read or write of a nonempty      *)
(* buffer that reports no error has moved bytes: neo::read and neo::write  *)
(* take a transfer of no bytes for the end and stop without an error.      *)
NoSilentStall ==
    pc = "idle" /\ call.size > 0 /\ ec = "none" /\ hs # "failed" => bytes > 0

(* What makes these inductive: while input is asked for and fed, all       *)
(* output has left; a finished step has done what the operation promises;  *)
(* plaintext is reported by the step that ends the call, and no other; a   *)
(* call that returns without an error was finished by one_step, or never   *)
(* got there.  The close_notify fits the bound on output.                  *)
Drained == pc \in {"input", "feed"} /\ ~outFell => outgoing = <<>> /\ outArea = <<>>

StepKeepsPromise ==
    pc # "step" /\ state = "stop" /\ ec = "none"
        => /\ call.op = "shutdown" => sentClose
           /\ call.size > 0 /\ hs # "failed" => bytes > 0

NothingReportedYet == pc = "step" \/ (state = "ok" /\ pc # "idle") => bytes = 0

ReturnsFinished ==
    pc = "idle" /\ ec = "none" => state = "stop" \/ (call.op = "read" /\ call.size = 0)

CloseFits == sentClose \/ produced < MaxOut

(* The inductive invariant: these and the invariants of the two buffers.   *)
EngineInv == /\ TypeOK /\ OutputInOrder /\ InputInOrder
             /\ Sink!Inv /\ Source!Inv
             /\ Drained /\ SuccessIsSent
             /\ StepKeepsPromise /\ NothingReportedYet /\ ReturnsFinished /\ CloseFits

(* The engine drives its buffers only in the ways their own modules allow, *)
(* so that what holds of each alone holds in the engine: it commits the    *)
(* next bytes and no more than it was given room for, and consumes no more *)
(* than it was shown, however calls fail and are repeated.                 *)
DrivesItsBuffers == Sink!Spec /\ Source!Spec

(* Every call returns, or has filled the sink for good: then flush_io      *)
(* leaves the output in the pair without an error, and the loop may go     *)
(* round for ever.                                                         *)
CallReturns == pc # "idle" ~> pc = "idle" \/ Len(outArea) = OutCapacity

(* A read or write that reports no error was completed by OpenSSL, which   *)
(* is how the comment on run() describes it.                               *)
SuccessIsCompletion ==
    pc = "idle" /\ call.size > 0 /\ ec = "none" => rc.code = "none"
=============================================================================
