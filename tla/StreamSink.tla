----------------------------- MODULE StreamSink -----------------------------
(***************************************************************************)
(* stream_io_buffers used as a buffer sink: prepare(n) offers room in a    *)
(* dynamic buffer, commit(n) appends what was put there and writes to the  *)
(* stream.  Bytes are numbered in the order they are produced.             *)
(***************************************************************************)
EXTENDS Integers, SequencesExt

CONSTANTS Capacity,  \* max_size() of the dynamic buffer
          MaxBytes,  \* bound: bytes committed over the life of the sink
          MayFall    \* whether the stream's writes may fail or stop short

ASSUME SinkAssumption == Capacity \in Nat /\ MaxBytes \in Nat /\ MayFall \in BOOLEAN

VARIABLES area,      \* the buffer's read area: committed, not yet written
          prepared,  \* size of the region the last prepare() handed out
          accepted,  \* history: every byte committed, in order
          sent,      \* history: every byte the stream has taken, in order
          outcome,   \* "none", or how the last commit of any bytes ended
          fell       \* history: some write took less than it was offered

vars == <<area, prepared, accepted, sent, outcome, fell>>

(* mutant: room is promised beyond the capacity *)
RoomUnbounded(size) == size

(* The region prepare(size) hands out: as much as fits behind the area. *)
Room(size) == IF size <= Capacity - Len(area) THEN size ELSE Capacity - Len(area)

(* What neo::write may report for a buffer of this size (IoOp proves which *)
(* results it can have): all of it, or less with an error or after a write *)
(* of no bytes; an error may also come with the last byte, and an empty    *)
(* buffer reaches no operation at all.                                     *)
WriteResults(size) ==
    {res \in [bytes_transferred : 0..size, error : BOOLEAN] :
        res.bytes_transferred < size \/ res.error => MayFall /\ size > 0}

Init == /\ area = <<>> /\ accepted = <<>> /\ sent = <<>>
        /\ prepared = 0
        /\ outcome = "none"
        /\ fell = FALSE

Prepare(size) ==
    /\ prepared' = Room(size)
    /\ UNCHANGED <<area, accepted, sent, outcome, fell>>

(* What commit(size) offers to the stream: the first size bytes of the     *)
(* area, which are not the committed ones if older bytes wait before them. *)
Offer(whole, size) == SubSeq(whole, 1, size)

(* mutant: bytes are consumed only when the write did not fail *)
LeftUnlessError(whole, res) ==
    IF res.error THEN whole ELSE SubSeq(whole, res.bytes_transferred + 1, Len(whole))

(* What the write leaves in the area, whether or not it failed. *)
Left(whole, res) == SubSeq(whole, res.bytes_transferred + 1, Len(whole))

(* commit: data joins the area, the front of the area is written, what the *)
(* stream took is consumed, and only then is an error thrown.              *)
Commit(data) ==
    LET whole == area \o data
        offer == Offer(whole, Len(data))
    IN  \E res \in WriteResults(Len(offer)) :
          /\ sent' = sent \o SubSeq(offer, 1, res.bytes_transferred)
          /\ area' = Left(whole, res)
          /\ accepted' = accepted \o data
          /\ prepared' = 0
          /\ fell' = (fell \/ res.bytes_transferred < Len(offer))
          /\ outcome' = IF data = <<>> THEN outcome
                        ELSE IF res.error THEN "threw"
                        ELSE IF res.bytes_transferred < Len(data) THEN "short" ELSE "ok"

(* The next k bytes of the producer. *)
Fresh(k) == [i \in 1..k |-> Len(accepted) + i]

Next == \/ \E size \in 1..MaxBytes : Prepare(size)
        \/ \E size \in 0..prepared :
             /\ Len(accepted) + size <= MaxBytes
             /\ Commit(Fresh(size))

Spec == Init /\ [][Next]_vars

-----------------------------------------------------------------------------
TypeOK == /\ area \in Seq(Nat) /\ accepted \in Seq(Nat) /\ sent \in Seq(Nat)
          /\ prepared \in 0..Capacity
          /\ outcome \in {"none", "ok", "short", "threw"}
          /\ fell \in BOOLEAN

(* Writes that fail half way, are cut short or are followed by others      *)
(* never lose, repeat or reorder a committed byte.                         *)
SinkInOrder == sent \o area = accepted

(* The buffer never holds more than its maximum, and whatever prepare()    *)
(* handed out still fits when it is committed.                             *)
FitsCapacity == Len(area) + prepared <= Capacity

(* Bytes stay behind in the buffer only after a write that fell short, and *)
(* after one some always do: later commits write as many as they add, so   *)
(* that none makes good what it left.                                      *)
BehindOnceFell == area # <<>> <=> fell

(* The inductive invariant: the parts above together.                      *)
Inv == TypeOK /\ SinkInOrder /\ FitsCapacity /\ BehindOnceFell

(* A commit whose write took all it was offered, and that returns without  *)
(* throwing, has delivered everything committed: the test of               *)
(* stream_io_buffers expects that of each commit.                          *)
CommitDelivers == outcome = "ok" => area = <<>>

(* The sink is a byte pipe from the producer to the stream. *)
Pipe == INSTANCE BytePipe WITH put <- accepted, got <- sent
ImplementsPipe == Pipe!Spec
=============================================================================
