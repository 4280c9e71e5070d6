---------------------------- MODULE StreamSource ----------------------------
(***************************************************************************)
(* stream_io_buffers used as a buffer source: next(n) shows the bytes that *)
(* wait in a dynamic buffer and reads from the stream when there are none, *)
(* consume(n) drops bytes that were shown.  Bytes are numbered in the      *)
(* order the stream delivers them.                                         *)
(***************************************************************************)
EXTENDS Integers, SequencesExt

CONSTANTS Capacity,  \* max_size() of the dynamic buffer
          MaxBytes   \* bound: bytes the stream ever delivers

ASSUME SourceAssumption == Capacity \in Nat \ {0} /\ MaxBytes \in Nat

VARIABLES area,      \* the buffer's read area: fetched, not yet consumed
          view,      \* how much of the area the last next() showed
          outcome,   \* "none", or how the last next() ended
          fetched,   \* history: every byte the stream has delivered
          taken      \* history: every byte the client has consumed, in order

vars == <<area, view, outcome, fetched, taken>>

Init == /\ area = <<>> /\ fetched = <<>> /\ taken = <<>>
        /\ view = 0
        /\ outcome = "none"

(* mutant: read on while the buffer holds less than was asked for *)
NeedsReadOn(size) == Len(area) < size

(* next(size) reads from the stream only when nothing waits. *)
NeedsRead(size) == area = <<>>

(* mutant: bytes that came with an error are not committed *)
DropOnError(in, error) == IF error THEN <<>> ELSE in

(* The bytes of one read that are committed to the buffer. *)
Keep(in, error) == in

(* mutant: room is promised beyond the capacity *)
RoomUnbounded(size) == size

(* The region prepare(size) hands out. *)
Room(size) == IF size <= Capacity - Len(area) THEN size ELSE Capacity - Len(area)

ShowBuffered(size) ==
    /\ ~NeedsRead(size)
    /\ view' = IF Len(area) > size THEN size ELSE Len(area)
    /\ outcome' = "bytes"
    /\ UNCHANGED <<area, fetched, taken>>

(* One read into the room that fits; an error is thrown after its bytes    *)
(* have been committed.                                                    *)
ReadMore(size) ==
    /\ NeedsRead(size)
    /\ \E n \in 0..Room(size), error \in BOOLEAN :
         LET in == [i \in 1..n |-> Len(fetched) + i]
         IN  /\ Len(fetched) + n <= MaxBytes
             /\ fetched' = fetched \o in
             /\ area' = area \o Keep(in, error)
             /\ IF error THEN outcome' = "threw" /\ view' = 0
                ELSE /\ outcome' = IF n = 0 THEN "empty" ELSE "bytes"
                     /\ view' = n
    /\ UNCHANGED taken

NextBytes(size) == ShowBuffered(size) \/ ReadMore(size)

(* mutant: the whole view is dropped whatever size was given *)
DropView(size) == SubSeq(area, view + 1, Len(area))

(* mutant: what was consumed stays in the buffer *)
DropNothing(size) == area

(* What consume(size) leaves in the buffer. *)
Drop(size) == SubSeq(area, size + 1, Len(area))

Consume(size) ==
    /\ taken' = taken \o SubSeq(area, 1, size)
    /\ area' = Drop(size)
    /\ view' = view - size
    /\ UNCHANGED <<outcome, fetched>>

(* Callers ask for less than the buffer can hold, for just that, and more. *)
Next == \/ \E size \in 1..(2 * Capacity) : NextBytes(size)
        \/ \E size \in 0..view : Consume(size)

Spec == Init /\ [][Next]_vars

-----------------------------------------------------------------------------
TypeOK == /\ area \in Seq(Nat) /\ fetched \in Seq(Nat) /\ taken \in Seq(Nat)
          /\ view \in 0..Capacity
          /\ outcome \in {"none", "bytes", "empty", "threw"}

(* Every byte the stream delivered reaches the client once and in order,   *)
(* those that came together with an error included.                        *)
SourceInOrder == taken \o area = fetched

(* next() answers with an empty view only when the stream had nothing to   *)
(* give and nothing waits in the buffer: a client that takes an empty view *)
(* for the end of the stream loses no byte.                                *)
EmptyMeansDry == outcome = "empty" => view = 0 /\ taken = fetched

(* The inductive invariant: the parts above, and that what a client may    *)
(* still consume is in the buffer.                                         *)
ViewInArea == view <= Len(area) /\ Len(area) <= Capacity
Inv == TypeOK /\ SourceInOrder /\ ViewInArea /\ EmptyMeansDry

(* The source is a byte pipe from the stream to its client. *)
Pipe == INSTANCE BytePipe WITH put <- fetched, got <- taken
ImplementsPipe == Pipe!Spec
=============================================================================
