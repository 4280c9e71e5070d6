------------------------------ MODULE OpenSSL ------------------------------
(***************************************************************************)
(* The part of OpenSSL that ssl::engine drives: one SSL client object and  *)
(* the BIO pair behind it.  It is not code of this repository; each call   *)
(* is a choice among the results OpenSSL may give in the object's state,   *)
(* seen from what engine.cpp looks at: the code of SSL_get_error, the      *)
(* bytes moved, SSL_want_read, the bytes in the pair and errno.            *)
(***************************************************************************)
EXTENDS Integers, SequencesExt

CONSTANTS BioSize,  \* room for outgoing bytes in the BIO pair
          MaxOut    \* bound: bytes the SSL object ever emits

VARIABLES hs,         \* the handshake: "init", "done", or "failed" for a dead connection
          sentClose,  \* close_notify has been written to the pair
          recvClose,  \* the peer's close_notify has been read
          want_read,  \* SSL_want_read
          outgoing,   \* bytes written by SSL and not yet read from the pair
          incoming,   \* bytes fed into the pair and not yet read by SSL
          produced,   \* history: how many bytes SSL has ever written
          rc,         \* what the last call returned: its error code and byte count
          errno       \* whether errno is non-zero

peer == <<hs, sentClose, recvClose>>
vars == <<hs, sentClose, recvClose, want_read, outgoing, incoming, produced, rc, errno>>

Init == /\ hs = "init" /\ sentClose = FALSE /\ recvClose = FALSE
        /\ want_read = FALSE
        /\ outgoing = <<>> /\ incoming = <<>> /\ produced = 0
        /\ rc = [code |-> "none", n |-> 0]
        /\ errno = FALSE

(* SSL writes k bytes into the pair. *)
Put(k) == /\ Len(outgoing) + k <= BioSize
          /\ outgoing' = outgoing \o [i \in 1..k |-> produced + i]
          /\ produced' = produced + k

(* The last byte within the bound is kept for the close_notify. *)
Emit(k) == /\ k = 0 \/ produced + k < MaxOut
           /\ Put(k)

(* SSL reads some of what was fed, from the front. *)
Absorb == \E k \in 0..Len(incoming) : incoming' = SubSeq(incoming, k + 1, Len(incoming))

Silent == UNCHANGED <<outgoing, incoming, produced>>

Return(code, n) == /\ rc' = [code |-> code, n |-> n]
                   /\ want_read' = (code = "want_read")

ClearErrno == errno' = FALSE

(* The call cannot finish: it has read all there was, or filled the pair. *)
Blocked == /\ \E k \in 0..BioSize : Emit(k)
           /\ \/ incoming' = <<>> /\ Return("want_read", 0)
              \/ /\ Absorb
                 /\ Len(outgoing') = BioSize
                 /\ Return("want_write", 0)
           /\ ClearErrno
           /\ UNCHANGED peer

(* A fatal error; OpenSSL may leave an alert in the pair. *)
Fatal == /\ \E k \in 0..1 : Emit(k)
         /\ Absorb
         /\ hs' = "failed"
         /\ Return("ssl", 0)
         /\ ClearErrno
         /\ UNCHANGED <<sentClose, recvClose>>

(* A call the object refuses without touching the connection. *)
Refused(code) == Silent /\ Return(code, 0) /\ ClearErrno /\ UNCHANGED peer

(* The handshake is done, or ends in this call with the peer's last flight. *)
Established == hs = "done" \/ (hs = "init" /\ incoming # <<>>)

(* A dead connection answers -1 before it touches errno. *)
Connect ==
    \/ /\ hs = "failed"
       /\ Silent /\ Return("syscall", 0) /\ UNCHANGED <<errno, hs, sentClose, recvClose>>
    \/ hs = "done" /\ Refused("none")
    \/ hs = "init" /\ (Blocked \/ Fatal)
    \/ /\ hs = "init" /\ Established
       /\ \E k \in 0..BioSize : Emit(k)
       /\ Absorb
       /\ hs' = "done"
       /\ Return("none", 0)
       /\ ClearErrno
       /\ UNCHANGED <<sentClose, recvClose>>

(* SSL_read and SSL_write continue an unfinished handshake.  On a dead     *)
(* connection a read may end before it touches errno.                      *)
Read(size) ==
    \/ /\ hs = "failed"
       /\ Silent /\ Return("syscall", 0) /\ errno' \in {errno, FALSE} /\ UNCHANGED peer
    \/ hs = "init" /\ (Blocked \/ Fatal)
    \/ hs = "done" /\ recvClose /\ Refused("zero_return")
    \/ hs = "done" /\ ~recvClose /\ (Blocked \/ Fatal)
    \/ /\ Established /\ ~recvClose
       /\ \E k \in 0..1 : Emit(k)
       /\ Absorb
       /\ hs' = "done"
       /\ \/ recvClose' = TRUE /\ Return("zero_return", 0)
          \/ UNCHANGED recvClose /\ \E n \in 1..size : Return("none", n)
       /\ ClearErrno
       /\ UNCHANGED sentClose

Write(size) ==
    \/ sentClose /\ Refused("ssl")
    \/ hs = "failed" /\ ~sentClose /\ Refused("syscall")
    \/ hs = "done" /\ ~sentClose /\ size > 0 /\ Blocked
    \/ hs = "init" /\ Blocked
    \/ hs = "init" /\ Fatal
    \/ hs = "done" /\ ~sentClose /\ size = 0 /\ Refused("syscall")
    \/ /\ hs = "init" /\ Established /\ size = 0
       /\ \E k \in 0..BioSize : Emit(k)
       /\ Absorb
       /\ hs' = "done"
       /\ Return("syscall", 0)
       /\ ClearErrno
       /\ UNCHANGED <<sentClose, recvClose>>
    \/ /\ Established /\ ~sentClose
       /\ \E k \in 1..BioSize : Emit(k)
       /\ Absorb
       /\ hs' = "done"
       /\ \E n \in 1..size : Return("none", n)
       /\ ClearErrno
       /\ UNCHANGED <<sentClose, recvClose>>

(* SSL_shutdown answers 0, not an error but no success, after sending its  *)
(* close_notify; a further call waits for the peer's.                      *)
Shutdown ==
    \/ hs # "done" /\ Refused("ssl")
    \/ /\ hs = "done" /\ ~sentClose
       /\ Put(1)
       /\ sentClose' = TRUE
       /\ Return(IF recvClose THEN "none" ELSE "syscall", 0)
       /\ ClearErrno
       /\ UNCHANGED <<hs, recvClose, incoming>>
    \/ /\ hs = "done" /\ ~sentClose
       /\ Len(outgoing) = BioSize
       /\ Silent /\ Return("want_write", 0) /\ ClearErrno /\ UNCHANGED peer
    \/ hs = "done" /\ sentClose /\ recvClose /\ Refused("none")
    \/ hs = "done" /\ sentClose /\ ~recvClose /\ (Blocked \/ Fatal)
    \/ /\ hs = "done" /\ sentClose /\ ~recvClose
       /\ Absorb
       /\ recvClose' = TRUE
       /\ Return("none", 0)
       /\ ClearErrno
       /\ UNCHANGED <<hs, sentClose, outgoing, produced>>

Call(op, size) == \/ op = "connect" /\ Connect
                  \/ op = "read" /\ Read(size)
                  \/ op = "write" /\ Write(size)
                  \/ op = "shutdown" /\ Shutdown

TypeOK == /\ hs \in {"init", "done", "failed"}
          /\ sentClose \in BOOLEAN /\ recvClose \in BOOLEAN /\ want_read \in BOOLEAN
          /\ outgoing \in Seq(Nat) /\ incoming \in Seq(Nat)
          /\ produced \in 0..MaxOut
          /\ rc \in [code : {"none", "want_read", "want_write", "syscall", "ssl",
                             "zero_return"}, n : Nat]
          /\ errno \in BOOLEAN
=============================================================================
