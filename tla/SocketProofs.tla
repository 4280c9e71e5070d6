---------------------------- MODULE SocketProofs ----------------------------
(***************************************************************************)
(* Proofs about NativeStream and Socket, for any number of objects and any *)
(* set of handle numbers.  What holds of native_stream holds of sockets:   *)
(* every step of Socket is a step of NativeStream or leaves the streams    *)
(* and handles alone.                                                      *)
(***************************************************************************)
EXTENDS Socket, TLAPS

-----------------------------------------------------------------------------
(* NativeStream *)

(* The part of the invariant that speaks of each object by itself. *)
Structure == TypeOK /\ DeadOwnsNothing /\ OnlyResetTakesOver

(* No handle has the value of an invalid one. *)
LEMMA InvalidIsNoHandle == Invalid \notin Handles
  BY HandlesAssumption DEF Invalid

(* The invariant holds before anything is opened or constructed. *)
LEMMA InitInv == Init => Inv
  <1> SUFFICES ASSUME Init PROVE Inv
    OBVIOUS
  <1>1. Structure
    BY DEF Init, Structure, TypeOK, DeadOwnsNothing, OnlyResetTakesOver, Idle
  <1>2. HeldIsOpen /\ OwnedIsOpen /\ OneOwner /\ NoLeak
    BY DEF Init, HeldIsOpen, OwnedIsOpen, OneOwner, NoLeak, Owned, Idle
  <1> QED  BY <1>1, <1>2 DEF Inv, Structure

(* Opening and closing by the rest of the program keep the invariant: it   *)
(* closes only what it holds.                                              *)
LEMMA SystemInv ==
    ASSUME Inv, NEW h \in Handles, SystemOpen(h) \/ SystemClose(h)
    PROVE  Inv'
  <1>1. /\ alive' = alive /\ handle' = handle /\ doing' = doing
        /\ opened' \in SUBSET Handles /\ held' \in SUBSET Handles
    BY DEF SystemOpen, SystemClose, Inv, TypeOK
  <1>2. Structure'
    BY <1>1 DEF Inv, Structure, TypeOK, DeadOwnsNothing, OnlyResetTakesOver
  <1>3. \A s \in Streams : Owned(s)' = Owned(s)
    BY <1>1 DEF Owned
  <1>4. HeldIsOpen' /\ OwnedIsOpen'
    BY <1>3 DEF Inv, HeldIsOpen, OwnedIsOpen, SystemOpen, SystemClose
  <1>5. OneOwner'
    BY <1>3 DEF Inv, OneOwner
  <1>6. NoLeak'
    BY <1>1, <1>3 DEF Inv, TypeOK, NoLeak, SystemOpen, SystemClose
  <1> QED  BY <1>2, <1>4, <1>5, <1>6 DEF Inv, Structure

(* Construction keeps the invariant: the number has left its former owner. *)
LEMMA DefaultConstructInv ==
    ASSUME Inv, NEW s \in Streams, DefaultConstruct(s)
    PROVE  Inv'
  <1>1. Structure'
    BY DEF DefaultConstruct, Inv, Structure, TypeOK, DeadOwnsNothing, OnlyResetTakesOver
  <1>2. \A x \in Streams : Owned(x)' = Owned(x)
    BY DEF DefaultConstruct, Inv, TypeOK, DeadOwnsNothing, Owned
  <1>3. opened' = opened /\ held' = held /\ alive \subseteq alive'
    BY DEF DefaultConstruct
  <1>4. HeldIsOpen' /\ OwnedIsOpen' /\ OneOwner'
    BY <1>2, <1>3 DEF Inv, HeldIsOpen, OwnedIsOpen, OneOwner
  <1>5. NoLeak'
    BY <1>2, <1>3 DEF Inv, TypeOK, NoLeak
  <1> QED  BY <1>1, <1>4, <1>5 DEF Inv, Structure

LEMMA ConstructFromInv ==
    ASSUME Inv, NEW s \in Streams, NEW h \in Handles, ConstructFrom(s, h)
    PROVE  Inv'
  <1>1. Structure'
    BY DEF ConstructFrom, Inv, Structure, TypeOK, DeadOwnsNothing, OnlyResetTakesOver
  <1>2. /\ \A x \in Streams : Owned(x)' = IF x = s THEN h ELSE Owned(x)
        /\ Owned(s) = Invalid
    BY DEF ConstructFrom, Inv, TypeOK, DeadOwnsNothing, Owned
  <1>3. /\ opened' = opened /\ held' = held \ {h} /\ alive' = alive \union {s}
        /\ h \in held /\ s \notin alive
    BY DEF ConstructFrom
  <1>4. h \in opened
    BY <1>3 DEF Inv, HeldIsOpen
  <1>5. HeldIsOpen' /\ OwnedIsOpen'
    BY <1>2, <1>3, <1>4 DEF Inv, HeldIsOpen, OwnedIsOpen
  <1>6. OneOwner'
    BY <1>2, <1>3, InvalidIsNoHandle DEF Inv, OwnedIsOpen, OneOwner
  <1>7. NoLeak'
    BY <1>2, <1>3 DEF Inv, TypeOK, NoLeak
  <1> QED  BY <1>1, <1>5, <1>6, <1>7 DEF Inv, Structure

LEMMA MoveConstructInv ==
    ASSUME Inv, NEW s \in Streams, NEW t \in Streams, MoveConstruct(s, t)
    PROVE  Inv'
  <1>0. s # t /\ t \in alive /\ s \notin alive /\ doing[t] = Idle
    BY DEF MoveConstruct, Ready
  <1>1. Structure'
    BY <1>0 DEF MoveConstruct, MovedHandle, Inv, Structure, TypeOK, DeadOwnsNothing,
                OnlyResetTakesOver
  <1>2. /\ \A x \in Streams : Owned(x)' = IF x = s THEN Owned(t)
                                         ELSE IF x = t THEN Invalid ELSE Owned(x)
        /\ Owned(s) = Invalid
    BY <1>0 DEF MoveConstruct, MovedHandle, Inv, TypeOK, DeadOwnsNothing, Owned
  <1>3. opened' = opened /\ held' = held /\ alive' = alive \union {s}
    BY DEF MoveConstruct
  <1>4. HeldIsOpen' /\ OwnedIsOpen'
    BY <1>2, <1>3 DEF Inv, HeldIsOpen, OwnedIsOpen
  <1>5. OneOwner'
    BY <1>2 DEF Inv, OneOwner
  <1>6. NoLeak'
    BY <1>0, <1>2, <1>3 DEF Inv, TypeOK, NoLeak
  <1> QED  BY <1>1, <1>4, <1>5, <1>6 DEF Inv, Structure

(* Releasing a number keeps the invariant: the program holds it then. *)
LEMMA ReleaseInv ==
    ASSUME Inv, NEW s \in Streams, Release(s)
    PROVE  Inv'
  <1>0. handle[s] \in Handles /\ Owned(s) = handle[s] /\ doing[s] = Idle
    BY DEF Release, Ready, Owned, Inv, TypeOK
  <1>1. Structure'
    BY <1>0 DEF Release, Inv, Structure, TypeOK, DeadOwnsNothing, OnlyResetTakesOver
  <1>2. \A x \in Streams : Owned(x)' = IF x = s THEN Invalid ELSE Owned(x)
    BY <1>0 DEF Release, Inv, TypeOK, Owned
  <1>3. opened' = opened /\ held' = held \union {Owned(s)} /\ alive' = alive
    BY <1>0 DEF Release
  <1>4. Owned(s) # Invalid /\ Owned(s) \in opened
    BY <1>0 DEF Release, Inv, OwnedIsOpen
  <1>5. HeldIsOpen' /\ OwnedIsOpen'
    BY <1>2, <1>3, <1>4 DEF Inv, HeldIsOpen, OwnedIsOpen, OneOwner
  <1>6. OneOwner'
    BY <1>2 DEF Inv, OneOwner
  <1>7. NoLeak'
    BY <1>2, <1>3 DEF Inv, TypeOK, NoLeak
  <1> QED  BY <1>1, <1>5, <1>6, <1>7 DEF Inv, Structure

(* The system call of a close keeps the invariant: the number was the      *)
(* object's alone, and the object answers for what it is to own next.      *)
LEMMA BeginCloseInv ==
    ASSUME Inv, NEW s \in Streams, BeginClose(s) \/ BeginDestroy(s)
    PROVE  Inv'
  <1>0. s \in alive /\ Owned(s) = handle[s]
    BY DEF BeginClose, BeginDestroy, Ready, Owned
  <1>1. /\ \E op \in {"close", "destroy"} :
              doing' = [doing EXCEPT ![s] = [op |-> op, next |-> Invalid]]
        /\ alive' = alive /\ handle' = handle /\ held' = held
        /\ opened' = opened \ {Owned(s)}
    BY <1>0 DEF BeginClose, BeginDestroy, AfterSystemClose
  <1>2. Structure'
    BY <1>0, <1>1 DEF Inv, Structure, TypeOK, DeadOwnsNothing, OnlyResetTakesOver
  <1>3. \A x \in Streams : Owned(x)' = IF x = s THEN Invalid ELSE Owned(x)
    BY <1>1 DEF Inv, TypeOK, Owned, Idle
  <1>4. Owned(s) \notin held
    BY InvalidIsNoHandle DEF Inv, TypeOK, OwnedIsOpen
  <1>5. HeldIsOpen' /\ OwnedIsOpen'
    BY <1>1, <1>3, <1>4 DEF Inv, HeldIsOpen, OwnedIsOpen, OneOwner
  <1>6. OneOwner'
    BY <1>3 DEF Inv, OneOwner
  <1>7. NoLeak'
    BY <1>1, <1>3 DEF Inv, TypeOK, NoLeak
  <1> QED  BY <1>2, <1>5, <1>6, <1>7 DEF Inv, Structure

LEMMA BeginResetInv ==
    ASSUME Inv, NEW s \in Streams, NEW h \in Handles, BeginReset(s, h)
    PROVE  Inv'
  <1>0. s \in alive /\ Owned(s) = handle[s] /\ h \in held /\ h # Invalid
    BY InvalidIsNoHandle DEF BeginReset, Ready, Owned
  <1>1. /\ doing' = [doing EXCEPT ![s] = [op |-> "reset", next |-> h]]
        /\ alive' = alive /\ handle' = handle /\ held' = held \ {h}
        /\ opened' = opened \ {Owned(s)}
    BY <1>0 DEF BeginReset, AfterSystemClose
  <1>2. Structure'
    BY <1>0, <1>1 DEF Inv, Structure, TypeOK, DeadOwnsNothing, OnlyResetTakesOver
  <1>3. \A x \in Streams : Owned(x)' = IF x = s THEN h ELSE Owned(x)
    BY <1>1 DEF Inv, TypeOK, Owned, Idle
  <1>4. Owned(s) \notin held
    BY InvalidIsNoHandle DEF Inv, TypeOK, OwnedIsOpen
  <1>5. HeldIsOpen' /\ OwnedIsOpen'
    BY <1>0, <1>1, <1>3, <1>4 DEF Inv, HeldIsOpen, OwnedIsOpen, OneOwner
  <1>6. OneOwner'
    BY <1>0, <1>3 DEF Inv, OwnedIsOpen, OneOwner
  <1>7. NoLeak'
    BY <1>0, <1>1, <1>3 DEF Inv, TypeOK, NoLeak
  <1> QED  BY <1>2, <1>5, <1>6, <1>7 DEF Inv, Structure

(* A move assignment keeps the invariant, a self-move included: what the   *)
(* other object owned is on its way to this one, whose own number is       *)
(* closed, unless it is the number on its way.                             *)
LEMMA BeginMoveAssignInv ==
    ASSUME Inv, NEW s \in Streams, NEW t \in Streams, BeginMoveAssign(s, t)
    PROVE  Inv'
  <1>0. /\ s \in alive /\ t \in alive /\ doing[s] = Idle /\ doing[t] = Idle
        /\ Owned(s) = handle[s] /\ Owned(t) = handle[t]
    BY DEF BeginMoveAssign, Ready, Owned
  <1>1. /\ doing' = [doing EXCEPT ![s] = [op |-> "reset", next |-> Owned(t)]]
        /\ handle' = [handle EXCEPT ![t] = Invalid]
        /\ alive' = alive /\ held' = held
        /\ opened' = opened \ {IF s = t THEN Invalid ELSE Owned(s)}
    BY <1>0 DEF BeginMoveAssign, Released, Inv, TypeOK
  <1>2. Structure'
    BY <1>0, <1>1 DEF Inv, Structure, TypeOK, DeadOwnsNothing, OnlyResetTakesOver
  <1>3. \A x \in Streams : Owned(x)' = IF x = s THEN Owned(t)
                                     ELSE IF x = t THEN Invalid ELSE Owned(x)
    BY <1>0, <1>1 DEF Inv, TypeOK, Owned, Idle
  <1>4. Owned(s) \notin held /\ Invalid \notin opened
    BY InvalidIsNoHandle DEF Inv, TypeOK, OwnedIsOpen
  <1>5. HeldIsOpen' /\ OwnedIsOpen'
    BY <1>1, <1>3, <1>4 DEF Inv, HeldIsOpen, OwnedIsOpen, OneOwner
  <1>6. OneOwner'
    BY <1>3 DEF Inv, OneOwner
  <1>7. NoLeak'
    BY <1>0, <1>1, <1>3 DEF Inv, TypeOK, NoLeak
  <1> QED  BY <1>2, <1>5, <1>6, <1>7 DEF Inv, Structure

(* Storing the next number keeps the invariant: nothing changes hands. *)
LEMMA FinishInv ==
    ASSUME Inv, NEW s \in Streams, Finish(s)
    PROVE  Inv'
  <1>0. doing[s] # Idle /\ Owned(s) = doing[s].next /\ s \in alive
    BY DEF Finish, Owned, Inv, DeadOwnsNothing
  <1>1. /\ handle' = [handle EXCEPT ![s] = doing[s].next]
        /\ alive' = IF doing[s].op = "destroy" THEN alive \ {s} ELSE alive
        /\ doing' = [doing EXCEPT ![s] = Idle]
        /\ opened' = opened /\ held' = held
    BY DEF Finish, FinishHandle
  <1>2. doing[s].op = "destroy" => doing[s].next = Invalid
    BY DEF Inv, OnlyResetTakesOver
  <1>3. Structure'
    BY <1>1, <1>2 DEF Inv, Structure, TypeOK, DeadOwnsNothing, OnlyResetTakesOver, Idle
  <1>4. \A x \in Streams : Owned(x)' = Owned(x)
    BY <1>0, <1>1 DEF Inv, TypeOK, Owned
  <1>5. HeldIsOpen' /\ OwnedIsOpen' /\ OneOwner'
    BY <1>1, <1>4 DEF Inv, HeldIsOpen, OwnedIsOpen, OneOwner
  <1>6. NoLeak'
    BY <1>0, <1>1, <1>2, <1>4, InvalidIsNoHandle DEF Inv, TypeOK, NoLeak
  <1> QED  BY <1>3, <1>5, <1>6 DEF Inv, Structure

(* Every step keeps the invariant. *)
LEMMA NextInv == Inv /\ [Next]_vars => Inv'
  <1> SUFFICES ASSUME Inv, [Next]_vars PROVE Inv'
    OBVIOUS
  <1>1. CASE UNCHANGED vars
    BY <1>1 DEF vars, Inv, TypeOK, DeadOwnsNothing, OnlyResetTakesOver, HeldIsOpen,
                OwnedIsOpen, OneOwner, NoLeak, Owned
  <1>2. ASSUME NEW h \in Handles, SystemOpen(h) \/ SystemClose(h) PROVE Inv'
    BY <1>2, SystemInv
  <1>3. ASSUME NEW s \in Streams, StreamStep(s) PROVE Inv'
    BY <1>3, DefaultConstructInv, ConstructFromInv, MoveConstructInv, ReleaseInv,
       BeginCloseInv, BeginResetInv, BeginMoveAssignInv, FinishInv DEF StreamStep
  <1> QED  BY <1>1, <1>2, <1>3 DEF Next

(* The inductive invariant holds throughout. *)
THEOREM Invariance == Spec => []Inv
  BY InitInv, NextInv, PTL DEF Spec

(* No object ever answers for a handle that was closed. *)
THEOREM OwnedCorrect == Spec => []OwnedIsOpen
  <1>1. Inv => OwnedIsOpen
    BY DEF Inv
  <1> QED  BY <1>1, Invariance, PTL

(* No two objects answer for one handle. *)
THEOREM OwnerCorrect == Spec => []OneOwner
  <1>1. Inv => OneOwner
    BY DEF Inv
  <1> QED  BY <1>1, Invariance, PTL

(* No open handle is without an owner. *)
THEOREM LeakCorrect == Spec => []NoLeak
  <1>1. Inv => NoLeak
    BY DEF Inv
  <1> QED  BY <1>1, Invariance, PTL

(* A step of a stream that closes something closes what that stream owns,  *)
(* and so nothing that anyone else does.                                   *)
LEMMA StepClosesItsOwn ==
    ASSUME Inv, NEW s \in Streams, StreamStep(s), NEW h \in opened \ opened'
    PROVE  /\ Owned(s) = h
           /\ h \notin held
           /\ \A t \in Streams \ {s} : Owned(t) # h
  <1>1. Owned(s) = h
    <2>1. CASE BeginClose(s) \/ BeginDestroy(s) \/ \E g \in Handles : BeginReset(s, g)
      BY <2>1 DEF BeginClose, BeginDestroy, BeginReset, AfterSystemClose, Ready, Owned
    <2>2. ASSUME NEW t \in Streams, BeginMoveAssign(s, t)
          PROVE  Owned(s) = h
      <3>1. Ready(s) /\ h = handle'[s] /\ handle' = [handle EXCEPT ![t] = Invalid]
        BY <2>2 DEF BeginMoveAssign, Released
      <3>2. h # Invalid
        BY InvalidIsNoHandle DEF Inv, TypeOK
      <3>3. h = handle[s]
        BY <3>1, <3>2 DEF Inv, TypeOK
      <3> QED  BY <3>1, <3>3 DEF Ready, Owned
    <2> QED
      BY <2>1, <2>2 DEF StreamStep, DefaultConstruct, Release, Finish, ConstructFrom,
                        MoveConstruct
  <1>2. h # Invalid
    BY InvalidIsNoHandle DEF Inv, TypeOK
  <1> QED  BY <1>1, <1>2 DEF Inv, OwnedIsOpen, OneOwner

(* No close ever hits a handle somebody else goes on using. *)
THEOREM CloseCorrect == Spec => ClosesOnlyItsOwn
  <1>1. Inv /\ [Next]_vars =>
          [\A s \in Streams : StreamStep(s) =>
              \A h \in opened \ opened' :
                  /\ Owned(s) = h
                  /\ h \notin held
                  /\ \A t \in Streams \ {s} : Owned(t) # h]_vars
    BY StepClosesItsOwn
  <1> QED  BY <1>1, Invariance, PTL DEF Spec, ClosesOnlyItsOwn

-----------------------------------------------------------------------------
(* Socket *)

(* A call of a socket uses its stream as NativeStream allows. *)
LEMMA SocketStepIsStreamStep ==
    ASSUME Inv, NEW s \in Sockets, SocketStep(s)
    PROVE  [Next]_vars
  <1>0. s \in Streams
    BY SocketsAssumption
  <1>1. CASE SocketFails(s) \/ Connect(s) \/ Return(s) \/ Destroy(s) \/ ShutDown(s)
    BY <1>1 DEF SocketFails, Connect, Return, Destroy, ShutDown
  <1>2. CASE Adopt(s)
    <2>1. ConstructFrom(s, task[s].fd)
      BY <1>2 DEF Adopt
    <2>2. task[s].fd \in Handles
      BY <2>1 DEF ConstructFrom, Inv, TypeOK
    <2>  QED  BY <1>0, <2>1, <2>2 DEF Next, StreamStep
  <1>3. CASE DestroyMember(s)
    BY <1>0, <1>3 DEF DestroyMember, Next, StreamStep
  <1>4. CASE FinishMember(s)
    BY <1>0, <1>4 DEF FinishMember, Next, StreamStep
  <1>5. CASE \E op \in {"create", "open_connected", "connect"} : Call(s, op)
    BY <1>5 DEF Call
  <1>6. CASE \E h \in Handles : SocketOpens(s, h)
    BY <1>6 DEF SocketOpens, Next
  <1>  QED
    BY <1>1, <1>2, <1>3, <1>4, <1>5, <1>6 DEF SocketStep

(* So does whatever else is done to the streams. *)
LEMMA StreamOpIsStreamStep ==
    ASSUME NEW s \in Streams, StreamOp(s)
    PROVE  Next
  BY DEF StreamOp, StreamStep, Next

LEMMA SocketNextIsNext == Inv /\ [SocketNext]_socketVars => [Next]_vars
  <1> SUFFICES ASSUME Inv, [SocketNext]_socketVars PROVE [Next]_vars
    OBVIOUS
  <1>1. CASE Resolve
    BY <1>1 DEF Resolve
  <1>2. CASE \E s \in Sockets : SocketStep(s)
    BY <1>2, SocketStepIsStreamStep
  <1>3. CASE \E s \in Streams : StreamOp(s)
    BY <1>3, StreamOpIsStreamStep
  <1>4. CASE \E h \in Handles : OpenElsewhere(h) \/ CloseElsewhere(h)
    BY <1>4 DEF OpenElsewhere, CloseElsewhere, Next
  <1>5. CASE UNCHANGED socketVars
    BY <1>5 DEF socketVars
  <1>  QED
    BY <1>1, <1>2, <1>3, <1>4, <1>5 DEF SocketNext

(* Every handle a socket or a plain stream answers for is open, is its own *)
(* and is not lost, whatever create, connect, open_connected, destructors  *)
(* and moves of sockets do.                                                *)
THEOREM SocketInvariance == SocketSpec => []Inv
  <1>1. SocketInit => Inv
    BY InitInv DEF SocketInit
  <1>2. Inv /\ [SocketNext]_socketVars => Inv'
    BY SocketNextIsNext, NextInv
  <1>  QED
    BY <1>1, <1>2, PTL DEF SocketSpec

(* Sockets implement the specification of native streams. *)
THEOREM SocketsAreStreams == SocketSpec => Spec
  <1>1. SocketInit => Init
    BY DEF SocketInit
  <1>  QED
    BY <1>1, SocketNextIsNext, SocketInvariance, PTL DEF SocketSpec, Spec

(* open_connected loses no socket on any of its paths. *)
THEOREM SocketLeakCorrect == SocketSpec => []NoLeak
  BY SocketsAreStreams, LeakCorrect, PTL

(* No step of a socket closes a handle that is somebody else's, although a *)
(* number is given out again as soon as it is closed.                      *)
THEOREM SocketCloseCorrect == SocketSpec => ClosesOnlyItsOwn
  BY SocketsAreStreams, CloseCorrect

-----------------------------------------------------------------------------
(* The calls of a socket, place by place. *)

LEMMA NoTaskOK ==
    ASSUME NEW s \in Sockets, task[s] = NoTask
    PROVE  PlaceOK(s)
  BY DEF PlaceOK, At, NoTask

(* What a call relies on is still there when nothing of its own changed.   *)
LEMMA Frame ==
    ASSUME NEW s \in Sockets, PlaceOK(s), task'[s] = task[s],
           s \in alive' <=> s \in alive,
           doing'[s] = doing[s], handle'[s] = handle[s],
           At(s, "return") /\ Connected(s) => Connected(s)'
    PROVE  PlaceOK(s)'
  BY DEF PlaceOK, At, NoTask

LEMMA SocketInitInv == SocketInit => SocketInv
  <1> SUFFICES ASSUME SocketInit PROVE SocketInv
    OBVIOUS
  <1>1. SocketTypeOK
    BY InitInv DEF SocketInit, SocketTypeOK, Tasks, Inv, NoTask
  <1>2. ASSUME NEW s \in Sockets PROVE PlaceOK(s)
    BY NoTaskOK DEF SocketInit
  <1>  QED  BY <1>1, <1>2 DEF SocketInv

LEMMA StreamOpInv ==
    ASSUME SocketInv, Inv', NEW s \in Streams, StreamOp(s)
    PROVE  SocketInv'
  <1>1. SocketTypeOK'
    BY DEF SocketInv, SocketTypeOK, StreamOp, Inv
  <1>2. ASSUME NEW x \in Sockets PROVE PlaceOK(x)'
    <2>1. CASE task[x] = NoTask
      <3>1. task'[x] = NoTask
        BY <2>1 DEF StreamOp
      <3>  QED  BY <3>1 DEF PlaceOK, At, NoTask
    <2>2. CASE task[x] # NoTask
      <3>0. x # s /\ x \in Streams /\ TypeOK
        BY <2>2, SocketsAssumption DEF StreamOp, Free, SocketInv, SocketTypeOK
      <3>1. /\ x \in alive' <=> x \in alive
            /\ doing'[x] = doing[x] /\ handle'[x] = handle[x]
        <4>1. CASE \E t \in Streams : Free(t) /\ (MoveConstruct(s, t) \/ BeginMoveAssign(s, t))
          BY <2>2, <3>0, <4>1 DEF Free, MoveConstruct, MovedHandle, BeginMoveAssign, Released, TypeOK
        <4>2. CASE \E h \in Handles : ConstructFrom(s, h) \/ BeginReset(s, h)
          BY <3>0, <4>2 DEF ConstructFrom, BeginReset, TypeOK
        <4>3. CASE DefaultConstruct(s) \/ Release(s) \/ BeginClose(s) \/ BeginDestroy(s) \/ Finish(s)
          BY <3>0, <4>3 DEF DefaultConstruct, Release, BeginClose, BeginDestroy, Finish, TypeOK
        <4>  QED  BY <4>1, <4>2, <4>3 DEF StreamOp
      <3>2. task' = task /\ peer' = peer
        BY DEF StreamOp
      <3>3. PlaceOK(x)
        BY DEF SocketInv
      <3>  QED  BY <3>1, <3>2, <3>3, Frame DEF Connected
    <2>  QED  BY <2>1, <2>2
  <1>  QED  BY <1>1, <1>2 DEF SocketInv

(* A socket about to return, or to be shut down, owns its number alone.    *)
LEMMA AtRest ==
    ASSUME Inv, NEW s \in Sockets, doing[s] = Idle, handle[s] # Invalid
    PROVE  /\ handle[s] \in opened \ held
           /\ \A t \in Streams : doing[t] = Idle /\ handle[t] = handle[s] => t = s
  BY SocketsAssumption DEF Inv, OwnedIsOpen, OneOwner, Owned

(* One socket's call does not disturb another's. *)
LEMMA OtherSocketOK ==
    ASSUME SocketInv, Inv, NEW s \in Sockets, SocketStep(s), NEW x \in Sockets, x # s
    PROVE  PlaceOK(x)'
  <1>0. x \in Streams /\ s \in Streams /\ PlaceOK(x) /\ PlaceOK(s) /\ SocketTypeOK
    BY SocketsAssumption DEF SocketInv
  <1>1. task'[x] = task[x]
    BY <1>0 DEF SocketStep, SocketFails, Adopt, Connect, Return, Destroy, ShutDown, DestroyMember,
                FinishMember, Call, SocketOpens, GoTo, SocketTypeOK
  <1>2. /\ x \in alive' <=> x \in alive
        /\ doing'[x] = doing[x] /\ handle'[x] = handle[x]
    BY <1>0 DEF SocketStep, SocketFails, Adopt, Connect, Return, Destroy, ShutDown, DestroyMember,
                FinishMember, Call, SocketOpens, vars, SystemOpen, ConstructFrom, BeginDestroy,
                Finish, SocketTypeOK, TypeOK
  <1>3. ASSUME At(x, "return"), Connected(x) PROVE Connected(x)'
    <2>1. doing[x] = Idle /\ handle[x] # Invalid
      BY <1>0, <1>3 DEF PlaceOK, Connected, At
    <2>2. handle[x] \in opened
      BY <2>1, AtRest
    <2>3. CASE \E h \in Handles : SocketOpens(s, h)
      BY <1>2, <1>3, <2>1, <2>2, <2>3 DEF SocketOpens, SystemOpen, Connected
    <2>4. CASE ShutDown(s)
      <3>1. doing[s] = Idle
        BY <1>0, <2>4 DEF ShutDown, PlaceOK, At
      <3>2. handle[x] # handle[s]
        BY <1>0, <2>1, <3>1, AtRest
      <3>3. handle[x] \in Handles
        BY <1>0, <2>1 DEF SocketTypeOK, TypeOK
      <3>  QED  BY <1>2, <1>3, <2>1, <2>4, <3>2, <3>3 DEF ShutDown, Connected
    <2>5. CASE Connect(s)
      BY <1>0, <1>2, <1>3, <2>1, <2>5 DEF Connect, Connected, SocketTypeOK, TypeOK
    <2>6. CASE peer' = peer
      BY <1>2, <1>3, <2>6 DEF Connected
    <2>  QED
      BY <2>3, <2>4, <2>5, <2>6 DEF SocketStep, SocketFails, Adopt, Return, Destroy,
                DestroyMember, FinishMember, Call
  <1>  QED  BY <1>0, <1>1, <1>2, <1>3, Frame

LEMMA OwnSocketOK ==
    ASSUME SocketInv, Inv, NEW s \in Sockets, SocketStep(s)
    PROVE  PlaceOK(s)'
  <1>0. s \in Streams /\ PlaceOK(s) /\ SocketTypeOK
    BY SocketsAssumption DEF SocketInv
  <1>1. s \notin alive => doing[s] = Idle
    BY <1>0 DEF Inv, DeadOwnsNothing
  <1>2. CASE SocketFails(s)
    <2>1. At(s, "socket") /\ UNCHANGED <<alive, doing, handle, peer>>
      BY <1>2 DEF SocketFails, vars
    <2>2. task'[s] = [task[s] EXCEPT !.at = "return", !.ec = TRUE, !.failed = TRUE]
      BY <1>0, <1>2 DEF SocketFails, SocketTypeOK
    <2>3. /\ task'[s].at = "return" /\ task'[s].ec = TRUE /\ task'[s].failed = TRUE
      BY <1>0, <2>2 DEF SocketTypeOK, Tasks
    <2>  QED  BY <1>0, <1>1, <2>1, <2>3 DEF PlaceOK, At, NoTask
  <1>3. CASE \E h \in Handles : SocketOpens(s, h)
    <2>1. At(s, "socket") /\ UNCHANGED <<alive, doing, handle>>
      BY <1>3 DEF SocketOpens, SystemOpen
    <2>2. PICK h \in Handles : task'[s] = [task[s] EXCEPT !.at = "adopt", !.fd = h]
      BY <1>0, <1>3 DEF SocketOpens, SocketTypeOK
    <2>3. /\ task'[s].at = "adopt" /\ task'[s].op = task[s].op /\ task'[s].ec = task[s].ec
          /\ task'[s].failed = task[s].failed /\ task'[s].stale = task[s].stale
      BY <1>0, <2>2 DEF SocketTypeOK, Tasks
    <2>  QED  BY <1>0, <2>1, <2>3 DEF PlaceOK, At, NoTask
  <1>4. CASE Adopt(s)
    <2>1. PICK place \in {"return", "connect"} :
            /\ place = "return" <=> task[s].op = "create"
            /\ task'[s] = [task[s] EXCEPT !.fd = Invalid, !.at = place]
      BY <1>0, <1>4 DEF Adopt, SocketTypeOK
    <2>2. alive' = alive \union {s} /\ doing' = doing /\ doing[s] = Idle
      BY <1>0, <1>1, <1>4 DEF Adopt, ConstructFrom
    <2>3. At(s, "adopt")
      BY <1>4 DEF Adopt
    <2>4. /\ task'[s].at = place /\ task'[s].op = task[s].op /\ task'[s].ec = task[s].ec
          /\ task'[s].failed = task[s].failed /\ task'[s].stale = task[s].stale
      BY <1>0, <2>1 DEF SocketTypeOK, Tasks
    <2>5. /\ s \notin alive /\ ~task[s].failed
          /\ task[s].ec => task[s].failed \/ task[s].stale
      BY <1>0, <2>3 DEF PlaceOK, At
    <2>6. /\ task'[s].ec => task'[s].failed \/ task'[s].stale
          /\ ~task'[s].failed
      BY <2>4, <2>5, Zenon
    <2>7. place = "return" <=> task[s].op = "create"
      BY <2>1
    <2>  QED  BY <2>2, <2>4, <2>6, <2>7 DEF PlaceOK, At, NoTask
  <1>5. CASE Connect(s)
    <2>1. At(s, "connect") /\ UNCHANGED <<alive, doing, handle>>
      BY <1>5 DEF Connect, vars
    <2>2. task[s] \in Tasks /\ s \in alive /\ doing[s] = Idle /\ ~task[s].failed
      BY <1>0, <2>1 DEF PlaceOK, At, SocketTypeOK
    <2>3. CASE /\ Connected(s)'
               /\ task'[s] = [task[s] EXCEPT !.at = "return", !.failed = FALSE]
      <3>1. /\ task'[s].at = "return" /\ task'[s].op = task[s].op /\ task'[s].ec = task[s].ec
            /\ task'[s].failed = task[s].failed /\ task'[s].stale = task[s].stale
        BY <2>2, <2>3 DEF Tasks
      <3>2. task[s].ec => task[s].failed \/ task[s].stale
        BY <1>0 DEF PlaceOK
      <3>3. task'[s].ec => task'[s].failed \/ task'[s].stale
        BY <3>1, <3>2, Zenon
      <3>4. Connected(s)'
        BY <2>3
      <3>  QED  BY <2>1, <2>2, <3>1, <3>3, <3>4 DEF PlaceOK, At, NoTask
    <2>4. CASE task'[s] = [task[s] EXCEPT !.at = "return", !.failed = TRUE, !.ec = TRUE]
      <3>1. task'[s].at = "return" /\ task'[s].ec = TRUE /\ task'[s].failed = TRUE
        BY <2>2, <2>4 DEF Tasks
      <3>  QED  BY <1>0, <2>1, <2>2, <3>1 DEF PlaceOK, At, NoTask
    <2>5. \/ /\ Connected(s)'
             /\ task'[s] = [task[s] EXCEPT !.at = "return", !.failed = FALSE]
          \/ task'[s] = [task[s] EXCEPT !.at = "return", !.failed = TRUE, !.ec = TRUE]
      <3>1. PICK ok \in BOOLEAN :
              /\ ok => handle[s] # Invalid
              /\ peer' = IF ok THEN [peer EXCEPT ![handle[s]] = "connected"] ELSE peer
              /\ task'[s] = [task[s] EXCEPT !.at = "return", !.failed = ~ok,
                                            !.ec = EcAfterConnect(ok, task[s].ec)]
        BY <1>0, <1>5 DEF Connect, SocketTypeOK
      <3>2. CASE ok = TRUE
        <4>1. EcAfterConnect(ok, task[s].ec) = task[s].ec
          BY <3>2, Zenon DEF EcAfterConnect
        <4>2. task'[s] = [task[s] EXCEPT !.at = "return", !.failed = FALSE]
          BY <2>2, <3>1, <3>2, <4>1 DEF Tasks
        <4>3. handle[s] \in Handles
          BY <1>0, <3>1, <3>2 DEF SocketTypeOK, TypeOK
        <4>4. Connected(s)'
          BY <1>0, <2>1, <3>1, <3>2, <4>3 DEF SocketTypeOK, Connected
        <4>  QED  BY <4>2, <4>4
      <3>3. CASE ok = FALSE
        <4>1. EcAfterConnect(ok, task[s].ec) = TRUE
          BY <3>3, Zenon DEF EcAfterConnect
        <4>  QED  BY <2>2, <3>1, <3>3, <4>1 DEF Tasks
      <3>  QED  BY <3>2, <3>3
    <2>  QED  BY <2>3, <2>4, <2>5
  <1>6. CASE Return(s)
    <2>1. CASE task' = [task EXCEPT ![s] = NoTask]
      <3>1. task'[s] = NoTask
        BY <1>0, <2>1 DEF SocketTypeOK
      <3>  QED  BY <3>1 DEF PlaceOK, At, NoTask
    <2>2. CASE Drops(s) /\ s \in alive /\ GoTo(s, "shutdown")
      <3>1. task[s].op = "open_connected" => task[s].ec
        BY <2>2, Zenon DEF Drops
      <3>2. task'[s] = [task[s] EXCEPT !.at = "shutdown"]
        BY <1>0, <2>2 DEF GoTo, SocketTypeOK
      <3>3. At(s, "return") /\ UNCHANGED <<alive, doing, handle, peer>>
        BY <1>6 DEF Return, vars
      <3>  QED  BY <1>0, <2>2, <3>1, <3>2, <3>3 DEF PlaceOK, At, SocketTypeOK, NoTask
    <2>  QED  BY <1>6, <2>1, <2>2 DEF Return
  <1>7. CASE Destroy(s)
    BY <1>0, <1>7 DEF Destroy, Ready, PlaceOK, At, SocketTypeOK, NoTask, vars
  <1>8. CASE ShutDown(s)
    BY <1>0, <1>8 DEF ShutDown, GoTo, PlaceOK, At, SocketTypeOK, NoTask, vars
  <1>9. CASE DestroyMember(s)
    BY <1>0, <1>9 DEF DestroyMember, BeginDestroy, GoTo, PlaceOK, At, SocketTypeOK, TypeOK, NoTask
  <1>10. CASE FinishMember(s)
    BY <1>0, <1>1, <1>10 DEF FinishMember, Finish, PlaceOK, At, SocketTypeOK, NoTask
  <1>11. CASE \E op \in {"create", "open_connected", "connect"} : Call(s, op)
    <2>1. PICK op \in {"create", "open_connected", "connect"}, set \in BOOLEAN :
            /\ IF op = "connect" THEN Ready(s) ELSE s \notin alive
            /\ task' = [task EXCEPT ![s] =
                          [NoTask EXCEPT !.op = op, !.ec = set, !.stale = set,
                              !.at = IF op = "connect" THEN "connect" ELSE "socket"]]
            /\ UNCHANGED <<alive, doing, handle, peer>>
      BY <1>11 DEF Call, vars
    <2>2. task'[s] = [op |-> op, fd |-> Invalid, ec |-> set, stale |-> set, failed |-> FALSE,
                      at |-> IF op = "connect" THEN "connect" ELSE "socket"]
      BY <1>0, <2>1 DEF SocketTypeOK, NoTask
    <2>  QED  BY <2>1, <2>2 DEF Ready, PlaceOK, At, NoTask
  <1>  QED
    BY <1>2, <1>3, <1>4, <1>5, <1>6, <1>7, <1>8, <1>9, <1>10, <1>11 DEF SocketStep

(* A record of the right type keeps the type of task.                      *)
LEMMA TaskTaken ==
    ASSUME task \in [Sockets -> Tasks], NEW s \in Sockets, NEW r \in Tasks,
           task' = [task EXCEPT ![s] = r]
    PROVE  task' \in [Sockets -> Tasks] /\ task'[s] = r
  OBVIOUS

LEMMA SocketStepTask ==
    ASSUME SocketInv, NEW s \in Sockets, SocketStep(s)
    PROVE  task' \in [Sockets -> Tasks]
  <1>0. task \in [Sockets -> Tasks] /\ task[s] \in Tasks /\ PlaceOK(s)
    BY DEF SocketInv, SocketTypeOK
  <1>1. NoTask \in Tasks
    BY DEF NoTask, Tasks
  <1>2. CASE SocketFails(s)
    <2>1. [task[s] EXCEPT !.at = "return", !.ec = TRUE, !.failed = TRUE] \in Tasks
      BY <1>0 DEF Tasks
    <2>  QED  BY <1>0, <1>2, <2>1, TaskTaken DEF SocketFails
  <1>3. CASE \E h \in Handles : SocketOpens(s, h)
    <2>1. ASSUME NEW h \in Handles
          PROVE  [task[s] EXCEPT !.at = "adopt", !.fd = h] \in Tasks
      BY <1>0 DEF Tasks
    <2>  QED  BY <1>0, <1>3, <2>1, TaskTaken DEF SocketOpens
  <1>4. CASE Adopt(s)
    <2>1. ASSUME NEW place \in {"return", "connect"}
          PROVE  [task[s] EXCEPT !.fd = Invalid, !.at = place] \in Tasks
      BY <1>0 DEF Tasks
    <2>2. (IF task[s].op = "create" THEN "return" ELSE "connect") \in {"return", "connect"}
      OBVIOUS
    <2>  QED  BY <1>0, <1>4, <2>1, <2>2, TaskTaken DEF Adopt
  <1>5. CASE Connect(s)
    <2>1. ASSUME NEW ok \in BOOLEAN, NEW code \in BOOLEAN
          PROVE  [task[s] EXCEPT !.at = "return", !.failed = ~ok, !.ec = code] \in Tasks
      BY <1>0 DEF Tasks
    <2>2. task[s].ec \in BOOLEAN
      BY <1>0 DEF Tasks
    <2>3. ASSUME NEW ok \in BOOLEAN PROVE EcAfterConnect(ok, task[s].ec) \in BOOLEAN
      BY <2>2, Zenon DEF EcAfterConnect
    <2>4. PICK ok \in BOOLEAN :
            task' = [task EXCEPT ![s] = [task[s] EXCEPT !.at = "return", !.failed = ~ok,
                                             !.ec = EcAfterConnect(ok, task[s].ec)]]
      BY <1>5 DEF Connect
    <2>  QED  BY <1>0, <2>1, <2>3, <2>4, TaskTaken
  <1>6. ASSUME NEW place \in {"shutdown", "close", "closed"}, GoTo(s, place)
        PROVE  task' \in [Sockets -> Tasks]
    <2>1. [task[s] EXCEPT !.at = place] \in Tasks
      BY <1>0 DEF Tasks
    <2>  QED  BY <1>0, <1>6, <2>1, TaskTaken DEF GoTo
  <1>7. CASE task' = [task EXCEPT ![s] = NoTask]
    BY <1>0, <1>1, <1>7
  <1>8. CASE Destroy(s)
    <2>1. [NoTask EXCEPT !.op = "destroy", !.at = "shutdown"] \in Tasks
      BY DEF NoTask, Tasks
    <2>  QED  BY <1>0, <1>8, <2>1, TaskTaken DEF Destroy
  <1>9. CASE \E op \in {"create", "open_connected", "connect"} : Call(s, op)
    <2>1. ASSUME NEW op \in {"create", "open_connected", "connect"}, NEW set \in BOOLEAN,
                 NEW place \in {"connect", "socket"}
          PROVE  [NoTask EXCEPT !.op = op, !.ec = set, !.stale = set, !.at = place] \in Tasks
      BY DEF NoTask, Tasks
    <2>2. ASSUME NEW op
          PROVE  (IF op = "connect" THEN "connect" ELSE "socket") \in {"connect", "socket"}
      OBVIOUS
    <2>  QED  BY <1>0, <1>9, <2>1, <2>2, TaskTaken DEF Call
  <1>10. CASE task' = task
    BY <1>0, <1>10
  <1>  QED
    BY <1>2, <1>3, <1>4, <1>5, <1>6, <1>7, <1>8, <1>9, <1>10
       DEF SocketStep, Return, ShutDown, DestroyMember, FinishMember

LEMMA SocketStepType ==
    ASSUME SocketInv, Inv', NEW s \in Sockets, SocketStep(s)
    PROVE  SocketTypeOK'
  <1>0. SocketTypeOK /\ TypeOK'
    BY DEF SocketInv, Inv
  <1>1. resolved' \in BOOLEAN /\ peer' \in [Handles -> {"fresh", "connected", "shut"}]
    <2>1. CASE Connect(s)
      BY <1>0, <2>1 DEF Connect, SocketTypeOK, TypeOK
    <2>2. CASE ShutDown(s)
      BY <1>0, <2>2 DEF ShutDown, SocketTypeOK
    <2>3. CASE \E h \in Handles : SocketOpens(s, h)
      BY <1>0, <2>3 DEF SocketOpens, SocketTypeOK
    <2>  QED
      BY <1>0, <2>1, <2>2, <2>3 DEF SocketStep, SocketFails, Adopt, Return, Destroy,
               DestroyMember, FinishMember, Call, SocketTypeOK
  <1>  QED  BY <1>0, <1>1, SocketStepTask DEF SocketTypeOK

LEMMA ElsewhereInv ==
    ASSUME SocketInv, Inv, Inv', NEW h \in Handles, OpenElsewhere(h) \/ CloseElsewhere(h)
    PROVE  SocketInv'
  <1>0. SocketTypeOK
    BY DEF SocketInv
  <1>1. SocketTypeOK'
    BY <1>0 DEF OpenElsewhere, CloseElsewhere, SocketTypeOK, Inv
  <1>2. ASSUME NEW s \in Sockets PROVE PlaceOK(s)'
    <2>1. UNCHANGED <<alive, doing, handle, task>>
      BY DEF OpenElsewhere, CloseElsewhere, SystemOpen, SystemClose
    <2>2. ASSUME At(s, "return"), Connected(s) PROVE Connected(s)'
      <3>1. handle[s] \in opened /\ handle'[s] = handle[s] /\ peer[handle[s]] = "connected"
        BY <2>1, <2>2, AtRest DEF SocketInv, PlaceOK, At, Connected
      <3>2. peer'[handle[s]] = "connected"
        BY <1>0, <3>1 DEF TypeOK, OpenElsewhere, CloseElsewhere, SystemOpen, SocketTypeOK
      <3>  QED  BY <2>2, <3>1, <3>2 DEF Connected
    <2>  QED  BY <2>1, <2>2, Frame DEF SocketInv
  <1>  QED  BY <1>1, <1>2 DEF SocketInv

LEMMA SocketNextInv == SocketInv /\ Inv /\ [SocketNext]_socketVars => SocketInv'
  <1> SUFFICES ASSUME SocketInv, Inv, [SocketNext]_socketVars PROVE SocketInv'
    OBVIOUS
  <1>0. Inv'
    BY SocketNextIsNext, NextInv
  <1>1. CASE Resolve \/ UNCHANGED socketVars
    <2>1. UNCHANGED <<vars, task, peer>> /\ resolved' \in {resolved, TRUE}
      BY <1>1 DEF Resolve, socketVars
    <2>2. SocketTypeOK'
      BY <1>0, <2>1 DEF SocketInv, SocketTypeOK, Inv
    <2>3. ASSUME NEW s \in Sockets PROVE PlaceOK(s)'
      BY <2>1, Frame DEF SocketInv, vars, Connected
    <2>  QED  BY <2>2, <2>3 DEF SocketInv
  <1>2. CASE \E s \in Sockets : SocketStep(s)
    <2>1. PICK s \in Sockets : SocketStep(s)
      BY <1>2
    <2>2. ASSUME NEW x \in Sockets PROVE PlaceOK(x)'
      BY <2>1, OwnSocketOK, OtherSocketOK
    <2>  QED  BY <1>0, <2>1, <2>2, SocketStepType DEF SocketInv
  <1>3. CASE \E s \in Streams : StreamOp(s)
    BY <1>0, <1>3, StreamOpInv
  <1>4. CASE \E h \in Handles : OpenElsewhere(h) \/ CloseElsewhere(h)
    BY <1>0, <1>4, ElsewhereInv
  <1>  QED
    BY <1>1, <1>2, <1>3, <1>4 DEF SocketNext

(* At each place of each call of a socket, what the code relies on there   *)
(* holds.                                                                  *)
THEOREM PlacesCorrect == SocketSpec => []SocketInv
  BY SocketInitInv, SocketNextInv, SocketInvariance, PTL DEF SocketSpec

-----------------------------------------------------------------------------
(* open_connected returns in two places only: where it found nothing to    *)
(* drop, and where the destructor of what it dropped is over.              *)
LEMMA OpenConnectedReturns ==
    ASSUME SocketInv, [SocketNext]_socketVars, NEW s \in Sockets, Returns(s, "open_connected")
    PROVE  \/ /\ At(s, "return") /\ ~(task[s].ec /\ s \in alive)
              /\ UNCHANGED <<vars, peer>>
           \/ At(s, "closed") /\ Finish(s)
  <1>0. task \in [Sockets -> Tasks] /\ PlaceOK(s)
    BY DEF SocketInv, SocketTypeOK
  <1>1. task'[s] = NoTask /\ task[s] # NoTask /\ task[s].op = "open_connected"
    BY DEF Returns
  <1>2. task'[s].at = "none"
    BY <1>1 DEF NoTask
  <1>3. PICK x \in Sockets : SocketStep(x)
    BY <1>1 DEF SocketNext, Resolve, StreamOp, OpenElsewhere, CloseElsewhere, socketVars
  <1>4. x = s
    BY <1>0, <1>1, <1>3 DEF SocketStep, SocketFails, Adopt, Connect, Return, Destroy, ShutDown,
                            DestroyMember, FinishMember, Call, SocketOpens, GoTo
  <1>5. ASSUME NEW place, GoTo(s, place) PROVE place = "none"
    BY <1>0, <1>2, <1>5 DEF GoTo, Tasks
  <1>6. ~(SocketFails(s) \/ Adopt(s) \/ Connect(s))
    BY <1>0, <1>2 DEF SocketFails, Adopt, Connect, Tasks
  <1>7. ~(\E op \in {"create", "open_connected", "connect"} : Call(s, op)) /\ ~Destroy(s)
    BY <1>1 DEF Call, Destroy
  <1>8. ~(\E h \in Handles : SocketOpens(s, h))
    BY <1>0, <1>2 DEF SocketOpens, Tasks
  <1>9. ~ShutDown(s) /\ ~DestroyMember(s)
    BY <1>5 DEF ShutDown, DestroyMember
  <1>10. CASE Return(s)
    <2>1. ~(Drops(s) /\ s \in alive)
      BY <1>5, <1>10 DEF Return
    <2>2. ~(task[s].ec /\ s \in alive)
      BY <1>1, <2>1, Zenon DEF Drops
    <2>  QED  BY <1>10, <2>2 DEF Return
  <1>11. CASE FinishMember(s)
    BY <1>1, <1>11 DEF FinishMember
  <1>  QED
    BY <1>3, <1>4, <1>6, <1>7, <1>8, <1>9, <1>10, <1>11 DEF SocketStep

LEMMA OpenConnectedResult ==
    ASSUME SocketInv, Inv, [SocketNext]_socketVars, NEW s \in Sockets,
           Returns(s, "open_connected")
    PROVE  /\ s \in alive' <=> ~task[s].ec
           /\ s \in alive' => handle'[s] \in opened' /\ peer'[handle'[s]] = "connected"
           /\ s \notin alive' => task[s].failed \/ task[s].stale
  <1>0. PlaceOK(s) /\ task[s].op = "open_connected"
    BY DEF SocketInv, Returns
  <1>1. CASE At(s, "return") /\ ~(task[s].ec /\ s \in alive) /\ UNCHANGED <<vars, peer>>
    <2>1. doing[s] = Idle /\ (task[s].ec \/ (s \in alive /\ Connected(s)))
      BY <1>0, <1>1 DEF PlaceOK, At
    <2>2. alive' = alive /\ handle' = handle /\ opened' = opened /\ peer' = peer
      BY <1>1 DEF vars
    <2>3. s \in alive => handle[s] \in opened /\ peer[handle[s]] = "connected"
      BY <1>1, <2>1, AtRest DEF Connected
    <2>  QED  BY <1>0, <1>1, <2>1, <2>2, <2>3 DEF PlaceOK
  <1>2. CASE At(s, "closed") /\ Finish(s)
    <2>1. task[s].ec /\ (task[s].failed \/ task[s].stale) /\ doing[s].op = "destroy"
      BY <1>0, <1>2 DEF PlaceOK, At
    <2>2. s \notin alive'
      BY <1>2, <2>1 DEF Finish
    <2>  QED  BY <2>1, <2>2
  <1>  QED  BY <1>1, <1>2, OpenConnectedReturns

(* Whatever happens to other sockets and handles in between, open_connected *)
(* returns a connected socket or an error, never both and never neither.   *)
THEOREM ConnectedCorrect == SocketSpec => ConnectedOrError
  <1>1. SocketInv /\ Inv /\ [SocketNext]_socketVars =>
          [\A s \in Sockets : Returns(s, "open_connected") =>
              /\ s \in alive' <=> ~task[s].ec
              /\ s \in alive' => /\ handle'[s] \in opened'
                                 /\ peer'[handle'[s]] = "connected"]_socketVars
    BY OpenConnectedResult
  <1>  QED
    BY <1>1, PlacesCorrect, SocketInvariance, PTL DEF SocketSpec, ConnectedOrError

(* open_connected gives a socket up only for a failure of its own or for an *)
(* error that the caller's code held before the call.                      *)
THEOREM DropsCorrect == SocketSpec => DropsForAReason
  <1>1. SocketInv /\ Inv /\ [SocketNext]_socketVars =>
          [\A s \in Sockets : Returns(s, "open_connected") /\ s \notin alive'
              => task[s].failed \/ task[s].stale]_socketVars
    BY OpenConnectedResult
  <1>  QED
    BY <1>1, PlacesCorrect, SocketInvariance, PTL DEF SocketSpec, DropsForAReason

-----------------------------------------------------------------------------
(* Connections that have been shut down.                                   *)

(* What is done to a stream outside a call of its socket concerns no       *)
(* handle that has been shut down.                                         *)
LEMMA StreamOpShut ==
    ASSUME SocketInv, Inv, ShutOnlyWhenDestroyed, NEW s \in Streams, StreamOp(s)
    PROVE  ShutOnlyWhenDestroyed'
  <1>0. TypeOK /\ task' = task /\ peer' = peer
    BY DEF SocketInv, SocketTypeOK, StreamOp
  <1>1. ASSUME NEW h \in opened', peer'[h] = "shut"
        PROVE  /\ h \notin held'
               /\ \A t \in Streams : (Owned(t))' = h => t \in Sockets /\ At(t, "close")'
    <2>1. h \in opened /\ h # Invalid
      BY <1>0, <1>1, HandlesAssumption DEF StreamOp, DefaultConstruct, Release, BeginClose,
             BeginDestroy, Finish, ConstructFrom, BeginReset, MoveConstruct, BeginMoveAssign,
             AfterSystemClose, TypeOK, Invalid
    <2>2. h \notin held /\ \A t \in Streams : Owned(t) = h => t \in Sockets /\ At(t, "close")
      BY <1>0, <1>1, <2>1 DEF ShutOnlyWhenDestroyed
    <2>3. ASSUME NEW t \in Streams, Free(t) PROVE Owned(t) # h
      BY <2>2, <2>3 DEF Free, At, NoTask
    <2>4. Free(s)
      BY DEF StreamOp
    <2>5. /\ h \notin held'
          /\ \A t \in Streams : (Owned(t))' = h => Owned(t) = h
      <3>1. CASE DefaultConstruct(s) \/ BeginClose(s) \/ BeginDestroy(s) \/ Finish(s)
        BY <1>0, <2>1, <2>2, <3>1 DEF DefaultConstruct, BeginClose, BeginDestroy, Finish,
               FinishHandle, Owned, TypeOK, Idle, Inv, DeadOwnsNothing
      <3>2. CASE Release(s)
        BY <1>0, <2>1, <2>2, <2>3, <2>4, <3>2 DEF Release, Ready, Owned, TypeOK
      <3>3. CASE \E g \in Handles : ConstructFrom(s, g) \/ BeginReset(s, g)
        BY <1>0, <2>1, <2>2, <3>3 DEF ConstructFrom, BeginReset, Owned, TypeOK, Idle, Inv,
               DeadOwnsNothing
      <3>4. CASE \E t \in Streams : Free(t) /\ MoveConstruct(s, t)
        BY <1>0, <2>1, <2>2, <2>3, <3>4 DEF MoveConstruct, MovedHandle, Ready, Owned, TypeOK, Inv,
               DeadOwnsNothing
      <3>5. CASE \E t \in Streams : Free(t) /\ BeginMoveAssign(s, t)
        BY <1>0, <2>1, <2>2, <2>3, <3>5 DEF BeginMoveAssign, Released, Ready, Owned, TypeOK, Idle
      <3>  QED  BY <3>1, <3>2, <3>3, <3>4, <3>5 DEF StreamOp
    <2>  QED  BY <1>0, <2>2, <2>5 DEF At
  <1>  QED  BY <1>1 DEF ShutOnlyWhenDestroyed

(* A call shuts down only the connection its own socket owns.              *)
LEMMA SocketStepShut ==
    ASSUME SocketInv, Inv, ShutOnlyWhenDestroyed, NEW s \in Sockets, SocketStep(s)
    PROVE  ShutOnlyWhenDestroyed'
  <1>0. /\ SocketTypeOK /\ TypeOK /\ PlaceOK(s) /\ s \in Streams
        /\ task \in [Sockets -> Tasks] /\ peer \in [Handles -> {"fresh", "connected", "shut"}]
    BY SocketsAssumption DEF SocketInv, SocketTypeOK
  <1>1. ASSUME NEW h \in opened', peer'[h] = "shut"
        PROVE  /\ h \notin held'
               /\ \A t \in Streams : (Owned(t))' = h => t \in Sockets /\ At(t, "close")'
    <2>1. ASSUME NEW t \in Sockets, t # s PROVE task'[t] = task[t]
      BY <1>0, <2>1 DEF SocketStep, SocketFails, Adopt, Connect, Return, Destroy, ShutDown,
                        DestroyMember, FinishMember, Call, SocketOpens, GoTo
    <2>2. CASE ShutDown(s) /\ h = handle[s]
      <3>1. task'[s].at = "close"
        BY <1>0, <2>2 DEF ShutDown, GoTo, Tasks
      <3>2. UNCHANGED vars /\ doing[s] = Idle /\ h # Invalid
        BY <1>0, <1>1, <2>2, HandlesAssumption DEF ShutDown, PlaceOK, At, vars, TypeOK, Invalid
      <3>3. h \notin held
        BY <2>2, <3>2, AtRest
      <3>4. ASSUME NEW t \in Streams, Owned(t) = h PROVE t = s
        BY <1>0, <2>2, <3>2, <3>4 DEF Inv, OneOwner, Owned
      <3>  QED  BY <3>1, <3>2, <3>3, <3>4 DEF Owned, At, vars
    <2>3. CASE ~(ShutDown(s) /\ h = handle[s])
      <3>1. h \in opened /\ peer[h] = "shut" /\ h \in Handles /\ h # Invalid
        <4>1. CASE \E g \in Handles : SocketOpens(s, g)
          <5>1. PICK g \in Handles : opened' = opened \union {g} /\ peer' = [peer EXCEPT ![g] = "fresh"]
            BY <4>1 DEF SocketOpens, SystemOpen
          <5>  QED  BY <1>0, <1>1, <5>1, HandlesAssumption DEF TypeOK, Invalid
        <4>2. CASE Connect(s)
          <5>1. opened' = opened /\ (peer' = peer \/ (handle[s] # Invalid /\
                                         peer' = [peer EXCEPT ![handle[s]] = "connected"]))
            BY <4>2 DEF Connect, vars
          <5>  QED  BY <1>0, <1>1, <5>1, HandlesAssumption DEF TypeOK, Invalid
        <4>3. CASE ShutDown(s)
          BY <1>0, <1>1, <2>3, <4>3, HandlesAssumption DEF ShutDown, vars, TypeOK, Invalid
        <4>4. CASE opened' \subseteq opened /\ peer' = peer
          BY <1>0, <1>1, <4>4, HandlesAssumption DEF TypeOK, Invalid
        <4>5. CASE SocketFails(s) \/ Return(s) \/ Destroy(s)
                   \/ \E op \in {"create", "open_connected", "connect"} : Call(s, op)
          BY <4>4, <4>5 DEF SocketFails, Return, Destroy, Call, vars
        <4>6. CASE Adopt(s) \/ DestroyMember(s) \/ FinishMember(s)
          BY <4>4, <4>6 DEF Adopt, ConstructFrom, DestroyMember, BeginDestroy, AfterSystemClose,
                            FinishMember, Finish
        <4>  QED  BY <4>1, <4>2, <4>3, <4>5, <4>6 DEF SocketStep
      <3>2. h \notin held /\ \A t \in Streams : Owned(t) = h => t \in Sockets /\ At(t, "close")
        BY <3>1 DEF ShutOnlyWhenDestroyed
      <3>3. CASE DestroyMember(s)
        <4>1. h # handle[s] /\ held' = held
          BY <1>1, <3>3 DEF DestroyMember, BeginDestroy, AfterSystemClose
        <4>2. ASSUME NEW t \in Streams, (Owned(t))' = h PROVE t # s /\ Owned(t) = h
          BY <1>0, <3>1, <3>3, <4>2 DEF DestroyMember, BeginDestroy, Owned, Idle, TypeOK
        <4>  QED  BY <2>1, <3>2, <4>1, <4>2 DEF At
      <3>4. CASE ~DestroyMember(s)
        <4>1. ~At(s, "close")
          BY <1>0, <3>4 DEF SocketStep, SocketFails, Adopt, Connect, Return, Destroy, ShutDown,
                 FinishMember, Finish, Call, SocketOpens, PlaceOK, At, NoTask
        <4>2. Owned(s) # h
          BY <1>0, <3>2, <4>1
        <4>3. /\ h \notin held'
              /\ \A t \in Streams : (Owned(t))' = h => Owned(t) = h
          <5>1. CASE \E g \in Handles : SocketOpens(s, g)
            BY <3>1, <3>2, <5>1 DEF SocketOpens, SystemOpen, Owned
          <5>2. CASE Adopt(s)
            BY <1>0, <3>1, <3>2, <5>2 DEF Adopt, ConstructFrom, Owned, TypeOK, Inv, DeadOwnsNothing
          <5>3. CASE FinishMember(s)
            BY <1>0, <3>1, <3>2, <5>3 DEF FinishMember, Finish, FinishHandle, Owned, TypeOK
          <5>4. CASE UNCHANGED vars
            BY <3>2, <5>4 DEF vars, Owned
          <5>  QED
            BY <3>4, <5>1, <5>2, <5>3, <5>4 DEF SocketStep, SocketFails, Connect, Return, Destroy,
                   ShutDown, Call
        <4>  QED  BY <2>1, <3>2, <4>2, <4>3 DEF At
      <3>  QED  BY <3>3, <3>4
    <2>  QED  BY <2>2, <2>3
  <1>  QED  BY <1>1 DEF ShutOnlyWhenDestroyed

LEMMA ElsewhereShut ==
    ASSUME SocketInv, ShutOnlyWhenDestroyed, NEW g \in Handles, OpenElsewhere(g) \/ CloseElsewhere(g)
    PROVE  ShutOnlyWhenDestroyed'
  <1>1. TypeOK /\ peer \in [Handles -> {"fresh", "connected", "shut"}]
    BY DEF SocketInv, SocketTypeOK
  <1>2. ASSUME NEW h \in opened', peer'[h] = "shut"
        PROVE  h \in opened /\ peer[h] = "shut" /\ h \notin held'
    BY <1>1, <1>2 DEF OpenElsewhere, CloseElsewhere, SystemOpen, SystemClose, TypeOK,
                      ShutOnlyWhenDestroyed
  <1>3. UNCHANGED <<handle, doing, task>>
    BY DEF OpenElsewhere, CloseElsewhere, SystemOpen, SystemClose
  <1>  QED  BY <1>2, <1>3 DEF ShutOnlyWhenDestroyed, Owned, At

(* A connection is shut down only for the socket that owns it, whose        *)
(* destructor is running, and no number is shut down that was closed and   *)
(* given to somebody else.                                                 *)
THEOREM ShutCorrect == SocketSpec => []ShutOnlyWhenDestroyed
  <1>1. SocketInit => ShutOnlyWhenDestroyed
    BY DEF SocketInit, Init, ShutOnlyWhenDestroyed
  <1>2. SocketInv /\ Inv /\ ShutOnlyWhenDestroyed /\ [SocketNext]_socketVars
           => ShutOnlyWhenDestroyed'
    <2> SUFFICES ASSUME SocketInv, Inv, ShutOnlyWhenDestroyed, [SocketNext]_socketVars
                 PROVE  ShutOnlyWhenDestroyed'
      OBVIOUS
    <2>1. CASE Resolve \/ UNCHANGED socketVars
      BY <2>1 DEF Resolve, socketVars, vars, ShutOnlyWhenDestroyed, Owned, At
    <2>  QED
      BY <2>1, StreamOpShut, SocketStepShut, ElsewhereShut DEF SocketNext
  <1>  QED
    BY <1>1, <1>2, PlacesCorrect, SocketInvariance, PTL DEF SocketSpec
=============================================================================
