---------------------------- MODULE SourceViews ----------------------------
(***************************************************************************)
(* A buffer source and a client that keeps the views it was shown.  A view *)
(* is addresses, and the bytes live in the storage of a dynamic buffer     *)
(* (shifting_dynamic_buffer over a string, unless told otherwise).         *)
(* consume() leaves them where they are and only moves the start of the    *)
(* read area; prepare() may leave them, shift them to the front, or move   *)
(* them to other storage, whatever the read that follows it delivers.      *)
(***************************************************************************)
EXTENDS StreamSource

CONSTANT Places  \* the addresses at which storage begins

ASSUME PlacesAssumption == Places \subseteq Nat

VARIABLES start,  \* the address of the first byte of the read area
          held    \* the longest view the client holds: the address of the
                  \* next byte it has not consumed, and how many there are

viewVars == <<vars, start, held>>

NoView == [at |-> 0, size |-> 0]
View(at, size) == IF size = 0 THEN NoView ELSE [at |-> at, size |-> size]

(* The client is shown n bytes; a longer view it has is still good for it. *)
Holds(n) == held' = IF n > held.size THEN View(start', n) ELSE held

ViewsInit == Init /\ start \in Places /\ held = NoView

ShowsView(size) ==
    /\ ShowBuffered(size)
    /\ UNCHANGED start
    /\ Holds(view')

ReadsView(size) ==
    /\ ReadMore(size)
    /\ start' \in Places \union {start}
    /\ Holds(view')

ConsumesView(size) ==
    /\ Consume(size)
    /\ start' = start + size
    /\ held' = View(held.at + size, held.size - size)

ViewsNext == \/ \E size \in 1..(2 * Capacity) : ShowsView(size) \/ ReadsView(size)
             \/ \E size \in 0..view : ConsumesView(size)

ViewsSpec == ViewsInit /\ [][ViewsNext]_viewVars

-----------------------------------------------------------------------------
(* A view stays readable until its bytes are consumed, also when it was    *)
(* consumed in part, when next() was called again, for more or for less,   *)
(* and when a read failed or brought nothing: the bytes it has left are    *)
(* where it says, at the front of the read area.                           *)
ViewsStayValid == held.size > 0 => held.at = start /\ held.size <= Len(area)

(* What makes that inductive: the last view is among those held.           *)
ViewsInv == /\ start \in Nat /\ held \in [at : Nat, size : Nat]
            /\ view <= held.size
            /\ ViewsStayValid
=============================================================================
