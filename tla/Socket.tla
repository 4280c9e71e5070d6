------------------------------- MODULE Socket -------------------------------
(***************************************************************************)
(* neo::socket on POSIX: a native_stream that resolve(), create(),         *)
(* connect() and open_connected() put to use, and whose destructor shuts   *)
(* the connection down before the stream closes its handle.  The error     *)
(* code is the caller's, who may use one for call after call: the code     *)
(* writes to it only on failure.                                           *)
(***************************************************************************)
EXTENDS NativeStream

CONSTANT Sockets  \* the streams that are part of a socket

ASSUME SocketsAssumption == Sockets \subseteq Streams

VARIABLES resolved,  \* whether the address in use was filled in by resolve()
          task,      \* the call each socket is in: see NoTask
          peer       \* each handle: "fresh", "connected" or "shut" down

socketVars == <<vars, resolved, task, peer>>

(* No call.  Otherwise: the call, where it stands, the descriptor it has   *)
(* from ::socket, whether the caller's error code is set, whether it was   *)
(* set on entry, and whether a system call of this call has failed.        *)
NoTask == [op |-> "none", at |-> "none", fd |-> Invalid,
           ec |-> FALSE, stale |-> FALSE, failed |-> FALSE]

SocketInit == /\ Init
              /\ resolved = FALSE
              /\ task = [s \in Sockets |-> NoTask]
              /\ peer = [h \in Handles |-> "fresh"]

At(s, place) == task[s].at = place
GoTo(s, place) == task' = [task EXCEPT ![s] = [@ EXCEPT !.at = place]]

-----------------------------------------------------------------------------
(* address::resolve fills in an address, or fails and sets the caller's    *)
(* error code, which may be the one the next call is given.                *)
Resolve ==
    /\ resolved' \in {resolved, TRUE}
    /\ UNCHANGED <<vars, task, peer>>

(* A call of create or open_connected, whose result is to live in s, or of *)
(* connect on s, with an error code in the state the caller left it.       *)
Call(s, op) ==
    /\ task[s] = NoTask
    /\ IF op = "connect" THEN Ready(s) ELSE s \notin alive
    /\ \E set \in BOOLEAN :
         task' = [task EXCEPT ![s] =
                     [NoTask EXCEPT !.op = op, !.ec = set, !.stale = set,
                                    !.at = IF op = "connect" THEN "connect" ELSE "socket"]]
    /\ UNCHANGED <<vars, resolved, peer>>

(* ::socket fails, as it always does for the family of an address that     *)
(* was never resolved, from which open_connected takes it.  (create also   *)
(* asserts that it knows the family; what violates that is not modelled.)  *)
SocketFails(s) ==
    /\ At(s, "socket")
    /\ task' = [task EXCEPT ![s] = [@ EXCEPT !.at = "return", !.ec = TRUE, !.failed = TRUE]]
    /\ UNCHANGED <<vars, resolved, peer>>

SocketOpens(s, h) ==
    /\ At(s, "socket")
    /\ task[s].op = "create" \/ resolved
    /\ SystemOpen(h)
    /\ peer' = [peer EXCEPT ![h] = "fresh"]
    /\ task' = [task EXCEPT ![s] = [@ EXCEPT !.at = "adopt", !.fd = h]]
    /\ UNCHANGED resolved

(* A local socket is reset with the descriptor and moved into the result;  *)
(* what is destroyed on return owns nothing any more.                      *)
Adopt(s) ==
    /\ At(s, "adopt")
    /\ ConstructFrom(s, task[s].fd)
    /\ task' = [task EXCEPT ![s] =
                   [@ EXCEPT !.fd = Invalid,
                             !.at = IF task[s].op = "create" THEN "return" ELSE "connect"]]
    /\ UNCHANGED <<resolved, peer>>

(* mutant: errno is taken over whether or not ::connect failed *)
EcOfErrno(ok, code) == TRUE

(* mutant: the failure of ::connect is not reported *)
EcIgnored(ok, code) == code

(* connect writes to ec only when ::connect fails. *)
EcAfterConnect(ok, code) == IF ok THEN code ELSE TRUE

(* It fails without an address.  A datagram socket may be connected again. *)
Connect(s) ==
    /\ At(s, "connect")
    /\ \E ok \in BOOLEAN :
         /\ ok => resolved /\ handle[s] # Invalid /\ peer[handle[s]] # "shut"
         /\ peer' = IF ok THEN [peer EXCEPT ![handle[s]] = "connected"] ELSE peer
         /\ task' = [task EXCEPT ![s] =
                        [@ EXCEPT !.at = "return", !.failed = ~ok,
                                  !.ec = EcAfterConnect(ok, task[s].ec)]]
    /\ UNCHANGED <<vars, resolved>>

(* mutant: open_connected looks only at whether create gave a socket *)
DropsUncreated(s) == s \notin alive

(* Whether the call returns an empty optional: create if there is no       *)
(* socket, open_connected if ec is set, whoever set it.                    *)
Drops(s) == IF task[s].op = "open_connected" THEN task[s].ec ELSE s \notin alive

(* On return a socket that is not handed out is destroyed. *)
Return(s) ==
    /\ At(s, "return")
    /\ IF Drops(s) /\ s \in alive
       THEN GoTo(s, "shutdown")
       ELSE task' = [task EXCEPT ![s] = NoTask]
    /\ UNCHANGED <<vars, resolved, peer>>

(* A socket's life ends. *)
Destroy(s) ==
    /\ task[s] = NoTask /\ Ready(s)
    /\ task' = [task EXCEPT ![s] = [NoTask EXCEPT !.op = "destroy", !.at = "shutdown"]]
    /\ UNCHANGED <<vars, resolved, peer>>

(* ~socket calls ::shutdown on whatever number is there; it reaches only a *)
(* connection.                                                             *)
ShutDown(s) ==
    /\ At(s, "shutdown")
    /\ peer' = [h \in Handles |->
                   IF h = handle[s] /\ peer[h] = "connected" THEN "shut" ELSE peer[h]]
    /\ GoTo(s, "close")
    /\ UNCHANGED <<vars, resolved>>

(* Then the member is destroyed, which closes the handle. *)
DestroyMember(s) ==
    /\ At(s, "close")
    /\ BeginDestroy(s)
    /\ GoTo(s, "closed")
    /\ UNCHANGED <<resolved, peer>>

FinishMember(s) ==
    /\ Finish(s)
    /\ task' = IF At(s, "closed") THEN [task EXCEPT ![s] = NoTask] ELSE task
    /\ UNCHANGED <<resolved, peer>>

SocketStep(s) ==
    \/ SocketFails(s) \/ Adopt(s) \/ Connect(s) \/ Return(s)
    \/ Destroy(s) \/ ShutDown(s) \/ DestroyMember(s) \/ FinishMember(s)
    \/ \E op \in {"create", "open_connected", "connect"} : Call(s, op)
    \/ \E h \in Handles : SocketOpens(s, h)

-----------------------------------------------------------------------------
(* A stream outside any call of a socket. *)
Free(s) == s \in Sockets => task[s] = NoTask

(* The descriptors that calls hold in a local variable. *)
Locals == {task[s].fd : s \in Sockets}

(* What else the program does: moves of sockets and of plain streams,      *)
(* anything that can be done to a socket through native(), and handles of  *)
(* its own.                                                                *)
StreamOp(s) ==
    /\ Free(s)
    /\ \/ DefaultConstruct(s) \/ Release(s) \/ BeginClose(s)
       \/ s \notin Sockets /\ (BeginDestroy(s) \/ Finish(s))
       \/ \E h \in Handles \ Locals :
            (s \notin Sockets /\ ConstructFrom(s, h)) \/ BeginReset(s, h)
       \/ \E t \in Streams :
            /\ Free(t)
            /\ \/ (s \in Sockets => t \in Sockets) /\ MoveConstruct(s, t)
               \/ BeginMoveAssign(s, t)
    /\ UNCHANGED <<resolved, task, peer>>

OpenElsewhere(h) ==
    /\ SystemOpen(h)
    /\ peer' = [peer EXCEPT ![h] = "fresh"]
    /\ UNCHANGED <<resolved, task>>

CloseElsewhere(h) ==
    /\ h \notin Locals
    /\ SystemClose(h)
    /\ UNCHANGED <<resolved, task, peer>>

SocketNext == \/ Resolve
              \/ \E s \in Sockets : SocketStep(s)
              \/ \E s \in Streams : StreamOp(s)
              \/ \E h \in Handles : OpenElsewhere(h) \/ CloseElsewhere(h)

SocketSpec == SocketInit /\ [][SocketNext]_socketVars

-----------------------------------------------------------------------------
Tasks ==
    [op : {"none", "create", "open_connected", "connect", "destroy"},
     at : {"none", "socket", "adopt", "connect", "return", "shutdown", "close", "closed"},
     fd : Handles \union {Invalid}, ec : BOOLEAN, stale : BOOLEAN, failed : BOOLEAN]

SocketTypeOK ==
    /\ TypeOK
    /\ resolved \in BOOLEAN
    /\ task \in [Sockets -> Tasks]
    /\ peer \in [Handles -> {"fresh", "connected", "shut"}]

(* What each place of a call relies on: whether the object is there and at *)
(* rest, that an error has a reason, and, before open_connected returns,   *)
(* that there is either an error or a connection.                          *)
Connected(s) == handle[s] # Invalid /\ peer[handle[s]] = "connected"

PlaceOK(s) ==
    /\ At(s, "none") <=> task[s] = NoTask
    /\ task[s].ec => task[s].failed \/ task[s].stale
    /\ task[s].at \in {"socket", "adopt"} => s \notin alive /\ ~task[s].failed
    /\ At(s, "connect") => s \in alive /\ ~task[s].failed
    /\ task[s].at \in {"shutdown", "close"} => s \in alive
    /\ task[s].at \in {"connect", "return", "shutdown", "close"} => doing[s] = Idle
    /\ At(s, "closed") => doing[s].op = "destroy"
    /\ task[s].op = "open_connected" =>
           /\ At(s, "return") => task[s].ec \/ (s \in alive /\ Connected(s))
           /\ task[s].at \in {"shutdown", "close", "closed"} => task[s].ec

SocketInv == SocketTypeOK /\ \A s \in Sockets : PlaceOK(s)

(* s returns from a call of op in this step. *)
Returns(s, op) == task[s].op = op /\ task[s] # NoTask /\ task'[s] = NoTask

(* open_connected returns a socket exactly when it returns no error, the   *)
(* socket is open and connected, and what it does not return is closed.    *)
ConnectedOrError ==
    [][\A s \in Sockets : Returns(s, "open_connected") =>
          /\ s \in alive' <=> ~task[s].ec
          /\ s \in alive' => /\ handle'[s] \in opened'
                             /\ peer'[handle'[s]] = "connected"]_socketVars

(* open_connected gives up a socket only if one of its own system calls    *)
(* failed, or the caller's ec was set before: an error of an earlier call  *)
(* costs a connection that was made.                                       *)
DropsForAReason ==
    [][\A s \in Sockets : Returns(s, "open_connected") /\ s \notin alive'
          => task[s].failed \/ task[s].stale]_socketVars

(* A connection is shut down only under the one socket that owns it and is *)
(* being destroyed: moves leave nothing behind that a destructor could     *)
(* shut down for the new owner, and no number is shut down that has been   *)
(* closed and given to somebody else.                                      *)
ShutOnlyWhenDestroyed ==
    \A h \in opened : peer[h] = "shut" =>
        /\ h \notin held
        /\ \A s \in Streams : Owned(s) = h => s \in Sockets /\ At(s, "close")
=============================================================================
