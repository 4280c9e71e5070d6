---------------------------- MODULE NativeStream ----------------------------
(***************************************************************************)
(* native_stream: objects that own an operating-system handle, hand it on  *)
(* by moves, and close it.  The system gives a number out again as soon as *)
(* it is closed, to any thread, so a close is two steps: the system call,  *)
(* and the store that makes the object forget the number.                  *)
(***************************************************************************)
EXTENDS Integers, FiniteSets

CONSTANTS Streams,  \* the native_stream objects
          Handles   \* the numbers the system may give out

ASSUME HandlesAssumption == Handles \subseteq Nat

VARIABLES alive,   \* the objects within their lifetime
          handle,  \* each object's _native_handle
          doing,   \* what each object is in the middle of: see Idle
          opened,  \* the handles open in the system
          held     \* the open handles the program holds outside any stream

vars == <<alive, handle, doing, opened, held>>

(* invalid_native_handle_value *)
Invalid == -1

(* An object between two operations; otherwise op names the operation that *)
(* is closing it, and next the handle it is to own afterwards.             *)
Idle == [op |-> "none", next |-> Invalid]

Init == /\ alive = {}
        /\ handle = [s \in Streams |-> Invalid]
        /\ doing = [s \in Streams |-> Idle]
        /\ opened = {} /\ held = {}

Ready(s) == s \in alive /\ doing[s] = Idle

(* ::open, ::socket or another part of the program opens a handle. *)
SystemOpen(h) ==
    /\ h \notin opened
    /\ opened' = opened \union {h}
    /\ held' = held \union {h}
    /\ UNCHANGED <<alive, handle, doing>>

(* The program closes a handle it holds itself. *)
SystemClose(h) ==
    /\ h \in held
    /\ opened' = opened \ {h}
    /\ held' = held \ {h}
    /\ UNCHANGED <<alive, handle, doing>>

DefaultConstruct(s) ==
    /\ s \notin alive
    /\ alive' = alive \union {s}
    /\ handle' = [handle EXCEPT ![s] = Invalid]
    /\ UNCHANGED <<doing, opened, held>>

(* native_stream(handle&&): the caller's handle becomes invalid. *)
ConstructFrom(s, h) ==
    /\ s \notin alive /\ h \in held
    /\ alive' = alive \union {s}
    /\ handle' = [handle EXCEPT ![s] = h]
    /\ held' = held \ {h}
    /\ UNCHANGED <<doing, opened>>

(* mutant: the moved-from object keeps its number *)
MovedHandleKept(s, t) == [handle EXCEPT ![s] = handle[t]]

(* The handles after s has been move-constructed from t. *)
MovedHandle(s, t) == [handle EXCEPT ![s] = handle[t], ![t] = Invalid]

MoveConstruct(s, t) ==
    /\ s \notin alive /\ Ready(t)
    /\ alive' = alive \union {s}
    /\ handle' = MovedHandle(s, t)
    /\ UNCHANGED <<doing, opened, held>>

(* release(): the number leaves the object and goes to the caller. *)
Release(s) ==
    /\ Ready(s) /\ handle[s] # Invalid
    /\ handle' = [handle EXCEPT ![s] = Invalid]
    /\ held' = held \union {handle[s]}
    /\ UNCHANGED <<alive, doing, opened>>

(* mutant: close() forgets the number without closing it *)
CloseLosesTrack(s) == opened

(* What is open once close() on s has made its system call. *)
AfterSystemClose(s) == opened \ {handle[s]}

(* close(), the destructor or reset(h) begins: a valid number is closed,   *)
(* an invalid one is left alone.  reset takes the handle h over.           *)
BeginClose(s) ==
    /\ Ready(s)
    /\ doing' = [doing EXCEPT ![s] = [op |-> "close", next |-> Invalid]]
    /\ opened' = AfterSystemClose(s)
    /\ UNCHANGED <<alive, handle, held>>

BeginDestroy(s) ==
    /\ Ready(s)
    /\ doing' = [doing EXCEPT ![s] = [op |-> "destroy", next |-> Invalid]]
    /\ opened' = AfterSystemClose(s)
    /\ UNCHANGED <<alive, handle, held>>

BeginReset(s, h) ==
    /\ Ready(s) /\ h \in held
    /\ doing' = [doing EXCEPT ![s] = [op |-> "reset", next |-> h]]
    /\ opened' = AfterSystemClose(s)
    /\ held' = held \ {h}
    /\ UNCHANGED <<alive, handle>>

(* mutant: t is not released, only looked at *)
ReleasedKept(s, t) == handle

(* The handles after t has been released for s to be reset with. *)
Released(s, t) == [handle EXCEPT ![t] = Invalid]

(* operator=(&&): t is released, then s is reset with its handle; s may be *)
(* t, whose number is then invalid when reset closes it.                   *)
BeginMoveAssign(s, t) ==
    /\ Ready(s) /\ Ready(t)
    /\ handle' = Released(s, t)
    /\ doing' = [doing EXCEPT ![s] = [op |-> "reset", next |-> handle[t]]]
    /\ opened' = opened \ {handle'[s]}
    /\ UNCHANGED <<alive, held>>

(* mutant: the object does not forget the number it has closed *)
FinishRemembers(s) == IF doing[s].op = "close" THEN handle[s] ELSE doing[s].next

(* The number the object has when the operation is over. *)
FinishHandle(s) == doing[s].next

Finish(s) ==
    /\ doing[s] # Idle
    /\ handle' = [handle EXCEPT ![s] = FinishHandle(s)]
    /\ alive' = IF doing[s].op = "destroy" THEN alive \ {s} ELSE alive
    /\ doing' = [doing EXCEPT ![s] = Idle]
    /\ UNCHANGED <<opened, held>>

StreamStep(s) ==
    \/ DefaultConstruct(s) \/ Release(s) \/ Finish(s)
    \/ BeginClose(s) \/ BeginDestroy(s)
    \/ \E h \in Handles : ConstructFrom(s, h) \/ BeginReset(s, h)
    \/ \E t \in Streams : MoveConstruct(s, t) \/ BeginMoveAssign(s, t)

Next == \/ \E s \in Streams : StreamStep(s)
        \/ \E h \in Handles : SystemOpen(h) \/ SystemClose(h)

Spec == Init /\ [][Next]_vars

-----------------------------------------------------------------------------
TypeOK == /\ alive \in SUBSET Streams
          /\ handle \in [Streams -> Handles \union {Invalid}]
          /\ doing \in [Streams -> [op : {"none", "close", "destroy", "reset"},
                                    next : Handles \union {Invalid}]]
          /\ opened \in SUBSET Handles
          /\ held \in SUBSET Handles

(* The handle an object answers for: its own, or the one it is being reset *)
(* with, in which case its own number is closed already.                   *)
Owned(s) == IF doing[s] = Idle THEN handle[s] ELSE doing[s].next

(* Every handle an object answers for is open, so no operation is ever     *)
(* performed on a number that was closed and may be somebody else's.       *)
OwnedIsOpen == \A s \in Streams : Owned(s) # Invalid => Owned(s) \in opened \ held

(* No two objects answer for one handle, so none is closed twice and none  *)
(* under the feet of another object.                                       *)
OneOwner == \A s, t \in Streams : s # t /\ Owned(s) # Invalid => Owned(s) # Owned(t)

(* Every open handle has an owner: an object or the program.  None leaks.  *)
NoLeak == \A h \in opened : h \in held \/ \E s \in alive : Owned(s) = h

(* An object outside its lifetime is in the middle of nothing and owns     *)
(* nothing: a destructor leaves neither a handle nor half an operation.    *)
DeadOwnsNothing ==
    \A s \in Streams \ alive : doing[s] = Idle /\ handle[s] = Invalid

(* Only reset() takes a new number over.                                   *)
OnlyResetTakesOver ==
    \A s \in Streams : doing[s].next # Invalid => doing[s].op = "reset"

(* What the program holds itself is open.                                  *)
HeldIsOpen == held \subseteq opened

(* The inductive invariant: the parts above together.                      *)
Inv == /\ TypeOK /\ DeadOwnsNothing /\ OnlyResetTakesOver /\ HeldIsOpen
       /\ OwnedIsOpen /\ OneOwner /\ NoLeak

(* A step of a stream closes no handle but the one that stream owns, and   *)
(* never one that another stream or the rest of the program goes on using. *)
(* A number closed twice would be somebody else's the second time.         *)
ClosesOnlyItsOwn ==
    [][\A s \in Streams : StreamStep(s) =>
          \A h \in opened \ opened' :
              /\ Owned(s) = h
              /\ h \notin held
              /\ \A t \in Streams \ {s} : Owned(t) # h]_vars
=============================================================================
