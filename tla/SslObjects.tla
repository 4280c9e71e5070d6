----------------------------- MODULE SslObjects -----------------------------
(***************************************************************************)
(* The lifetimes of ssl::stream and ssl::engine objects over the contexts  *)
(* of SslContext: the SSL object and the BIO half each of them owns, the   *)
(* stream below it, and the references the two buffers of its engine keep  *)
(* to that stream, as objects are made, moved, rebound and destroyed.      *)
(*                                                                         *)
(* A stream holds the one below it by value ("stream"), and then that one  *)
(* lies within the object and moves with it, or by reference ("borrowing"),*)
(* and then it lies at a place of the caller's.  A bare engine refers to   *)
(* streams at places of the caller's for either direction.                 *)
(*                                                                         *)
(* What the caller owes: an engine is not moved onto itself (_free would   *)
(* leave it the pointers it has just freed), a moved-from one is only      *)
(* assigned to or destroyed, and a stream that is referred to stays.       *)
(***************************************************************************)
EXTENDS SslContext

CONSTANTS Objects,     \* the ssl::stream and ssl::engine objects
          Places,      \* where the caller keeps streams of its own
          Connections  \* what such a stream is connected by

NoConn == "no connection"
Nowhere == "nowhere"

ASSUME ObjectAssumption ==
    /\ Objects \intersect Places = {}
    /\ Nowhere \notin Objects \union Places /\ NoConn \notin Connections

VARIABLES obj,   \* each object, see Object
          bios,  \* the sessions whose outer BIO has not been freed
          at,    \* the connection of the stream at each place and within each object
          home   \* history: the connection each SSL object was given

objVars == <<obj, bios, at, home>>

Kinds == {"stream", "borrowing", "engine"}
Locations == Objects \union Places

(* _ssl_ptr and _bio_ptr, the location _inner denotes, those the input and *)
(* the output refer to, and the session whose bytes lie in their buffers.  *)
Object == [kind : Kinds \union {"none"}, ssl : Sessions \union {Null},
           bio : Sessions \union {Null}, inner : Locations \union {Nowhere},
           input : Locations \union {Nowhere}, output : Locations \union {Nowhere},
           held : Sessions \union {Null}]

(* A new object, with empty buffers. *)
BoundTo(kind, e, bio, inner, in, out) ==
    [kind |-> kind, ssl |-> e, bio |-> bio, inner |-> inner, input |-> in, output |-> out,
     held |-> Null]

Gone == BoundTo("none", Null, Null, Nowhere, Nowhere, Nowhere)

ObjectsInit == /\ Init
               /\ obj = [o \in Objects |-> Gone]
               /\ bios = {}
               /\ at = [l \in Locations |-> NoConn]
               /\ home = [e \in Sessions |-> NoConn]

Exists(o) == obj[o].kind # "none"

(* An object refers to the stream at location l. *)
RefersTo(o, l) == l \in {obj[o].inner, obj[o].input, obj[o].output}

Borrowed(k) == \E o \in Objects : RefersTo(o, k)

-----------------------------------------------------------------------------
(* mutant: only the input is rebound *)
InputRebound(rec) == [rec EXCEPT !.input = rec.inner]

(* _rebind_io(): what the input and output then refer to. *)
Rebound(rec) == [rec EXCEPT !.input = rec.inner, !.output = rec.inner]

(* mutant: the pointer to the SSL object is copied and not taken *)
HalfTaken(rec) == [rec EXCEPT !.bio = Null, !.held = Null]

(* What a move leaves of the object moved from. *)
Taken(rec) == [rec EXCEPT !.ssl = Null, !.bio = Null, !.held = Null]

(* What o is after the move: the pointers and the buffers are those of the *)
(* object moved from; a stream below that is held by value moves along, to *)
(* within o, and a reference to it is copied.                              *)
MovedTo(o, rec) ==
    CASE rec.kind = "stream"    -> Rebound([rec EXCEPT !.inner = o])
      [] rec.kind = "borrowing" -> Rebound(rec)
      [] OTHER                  -> rec

MovedAt(o, d) == IF obj[d].kind = "stream"
                 THEN [at EXCEPT ![o] = at[d], ![d] = NoConn]
                 ELSE at

-----------------------------------------------------------------------------
(* engine_base(context&) makes the session e: SSL_new counts on the        *)
(* context's SSL_CTX, and the BIO pair may be missing, unnoticed.          *)
NewSession(c, e, conn, bio) ==
    /\ ctx[c] \in Pointers
    /\ ssl[e] = Null /\ e \notin bios
    /\ ssl' = [ssl EXCEPT ![e] = ctx[c]]
    /\ refs' = [refs EXCEPT ![ctx[c]] = @ + 1]
    /\ home' = [home EXCEPT ![e] = conn]
    /\ bio \in {e, Null}
    /\ bios' = bios \union ({bio} \ {Null})

ConstructStream(o, c, k) ==
    /\ ~Exists(o)
    /\ at[k] # NoConn /\ ~Borrowed(k)
    /\ at' = [at EXCEPT ![o] = at[k], ![k] = NoConn]
    /\ \E e \in Sessions, bio \in Sessions \union {Null} :
          /\ NewSession(c, e, at[k], bio)
          /\ obj' = [obj EXCEPT ![o] = BoundTo("stream", e, bio, o, o, o)]
    /\ UNCHANGED <<build, ctx>>

(* SSL_new fails, and the engine's constructor throws.  The stream given   *)
(* has been moved into the object by then, and is destroyed with it.       *)
ConstructStreamThrows(o, c, k) ==
    /\ ~Exists(o)
    /\ ctx[c] \in Pointers
    /\ at[k] # NoConn /\ ~Borrowed(k)
    /\ at' = [at EXCEPT ![k] = NoConn]
    /\ UNCHANGED <<vars, obj, bios, home>>

ConstructBorrowing(o, c, k) ==
    /\ ~Exists(o)
    /\ at[k] # NoConn
    /\ \E e \in Sessions, bio \in Sessions \union {Null} :
          /\ NewSession(c, e, at[k], bio)
          /\ obj' = [obj EXCEPT ![o] = BoundTo("borrowing", e, bio, k, k, k)]
    /\ UNCHANGED <<build, ctx, at>>

(* engine(context&, in, out) *)
ConstructEngine(o, c, in, out) ==
    /\ ~Exists(o)
    /\ at[in] # NoConn /\ at[out] # NoConn
    /\ \E e \in Sessions, bio \in Sessions \union {Null} :
          /\ NewSession(c, e, NoConn, bio)
          /\ obj' = [obj EXCEPT ![o] = BoundTo("engine", e, bio, Nowhere, in, out)]
    /\ UNCHANGED <<build, ctx, at>>

(* engine(engine_base&& other, in, out): the buffers of the other stay.    *)
AdoptEngine(o, d, in, out) ==
    /\ ~Exists(o)
    /\ obj[d].kind = "engine"
    /\ at[in] # NoConn /\ at[out] # NoConn
    /\ obj' = [obj EXCEPT ![o] = BoundTo("engine", obj[d].ssl, obj[d].bio, Nowhere, in, out),
                          ![d] = [@ EXCEPT !.ssl = Null, !.bio = Null]]
    /\ UNCHANGED <<vars, bios, at, home>>

(* rebind_input and rebind_output *)
RebindEngine(o, in, out) ==
    /\ obj[o].kind = "engine"
    /\ at[in] # NoConn /\ at[out] # NoConn
    /\ in = obj[o].input \/ out = obj[o].output
    /\ obj' = [obj EXCEPT ![o].input = in, ![o].output = out]
    /\ UNCHANGED <<vars, bios, at, home>>

RebindNextLayer(o, k) ==
    /\ obj[o].kind = "borrowing"
    /\ at[k] # NoConn
    /\ obj' = [obj EXCEPT ![o] = Rebound([@ EXCEPT !.inner = k])]
    /\ home' = IF obj[o].ssl = Null THEN home ELSE [home EXCEPT ![obj[o].ssl] = at[k]]
    /\ UNCHANGED <<vars, bios, at>>

MoveConstructObject(o, d) ==
    /\ ~Exists(o) /\ Exists(d)
    /\ obj' = [obj EXCEPT ![o] = MovedTo(o, obj[d]), ![d] = Taken(@)]
    /\ at' = MovedAt(o, d)
    /\ UNCHANGED <<vars, bios, home>>

(* mutant: _free() forgets the SSL object *)
FreeBioOnly(o) == /\ bios' = bios \ {obj[o].bio}
                  /\ UNCHANGED <<ssl, refs, home>>

(* _free(): the BIO, and the SSL object with its reference to the SSL_CTX. *)
Free(o) ==
    /\ bios' = bios \ {obj[o].bio}
    /\ ssl' = [e \in Sessions |-> IF e = obj[o].ssl THEN Null ELSE ssl[e]]
    /\ refs' = [p \in Pointers |->
                  IF obj[o].ssl # Null /\ ssl[obj[o].ssl] = p THEN refs[p] - 1 ELSE refs[p]]
    /\ home' = [e \in Sessions |-> IF e = obj[o].ssl THEN NoConn ELSE home[e]]

(* The inner stream first, then the engine, then the references. *)
MoveAssignObject(o, d) ==
    /\ o # d
    /\ Exists(o) /\ obj[d].kind = obj[o].kind
    /\ Free(o)
    /\ obj' = [obj EXCEPT ![o] = MovedTo(o, obj[d]), ![d] = Taken(@)]
    /\ at' = MovedAt(o, d)
    /\ UNCHANGED <<build, ctx>>

DestroyObject(o) ==
    /\ Exists(o)
    /\ Free(o)
    /\ obj' = [obj EXCEPT ![o] = Gone]
    /\ at' = IF obj[o].kind = "stream" THEN [at EXCEPT ![o] = NoConn] ELSE at
    /\ UNCHANGED <<build, ctx>>

(* connect, read_some, write_some, shutdown: bytes of the session may be   *)
(* left behind in the buffers.                                             *)
Use(o) ==
    /\ obj[o].ssl # Null
    /\ \E held \in {Null, obj[o].ssl} : obj' = [obj EXCEPT ![o].held = held]
    /\ UNCHANGED <<vars, bios, at, home>>

(* The caller connects a stream of its own. *)
Dial(k) ==
    /\ at[k] = NoConn
    /\ \E n \in Connections :
          /\ \A l \in Locations : at[l] # n
          /\ at' = [at EXCEPT ![k] = n]
    /\ UNCHANGED <<vars, obj, bios, home>>

Build(o, c) == \E k \in Places : \/ ConstructStream(o, c, k)
                                 \/ ConstructStreamThrows(o, c, k)
                                 \/ ConstructBorrowing(o, c, k)
                                 \/ \E out \in Places : ConstructEngine(o, c, k, out)

Rebind(o) == \E k \in Places : \/ RebindNextLayer(o, k)
                               \/ \E out \in Places : RebindEngine(o, k, out)

Move(o, d) == \/ MoveConstructObject(o, d)
              \/ MoveAssignObject(o, d)
              \/ \E in, out \in Places : AdoptEngine(o, d, in, out)

ObjectsNext ==
    \/ Next /\ UNCHANGED objVars
    \/ \E o \in Objects, c \in Contexts : Build(o, c)
    \/ \E o \in Objects : Rebind(o) \/ Use(o) \/ DestroyObject(o)
    \/ \E o, d \in Objects : Move(o, d)
    \/ \E k \in Places : Dial(k)

ObjectsSpec == ObjectsInit /\ [][ObjectsNext]_<<vars, objVars>>

-----------------------------------------------------------------------------
ObjectsTypeOK == /\ TypeOK
                 /\ obj \in [Objects -> Object]
                 /\ bios \subseteq Sessions
                 /\ at \in [Locations -> Connections \union {NoConn}]
                 /\ home \in [Sessions -> Connections \union {NoConn}]

(* Each SSL object and each BIO belongs to one stream or engine, and each  *)
(* pointer of these to something that is there: nothing leaks or is freed  *)
(* twice, however objects are moved, assigned to and adopted from.         *)
SessionHasOneOwner ==
    /\ \A e \in Sessions : /\ ssl[e] # Null <=> \E o \in Objects : obj[o].ssl = e
                           /\ e \in bios    <=> \E o \in Objects : obj[o].bio = e
    /\ \A o, d \in Objects : o # d => /\ obj[o].ssl = obj[d].ssl => obj[o].ssl = Null
                                      /\ obj[o].bio = obj[d].bio => obj[o].bio = Null
    /\ \A o \in Objects : obj[o].bio \in {obj[o].ssl, Null}

KeepsConnection(o) ==
    obj[o].ssl # Null =>
        /\ obj[o].held \in {obj[o].ssl, Null}
        /\ obj[o].kind \in {"stream", "borrowing"} =>
              at[obj[o].input] = home[obj[o].ssl] /\ at[obj[o].output] = home[obj[o].ssl]

(* Both directions of a TLS stream run over the very stream it was given,  *)
(* through every move: the engine neither reads nor writes a stream that   *)
(* was moved away, and bytes one session left in the buffers never reach   *)
(* the connection of another.                                              *)
SessionKeepsConnection == \A o \in Objects : KeepsConnection(o)

RefersAsItsKind(o) ==
    CASE obj[o].kind = "stream"    -> obj[o].inner = o /\ Rebound(obj[o]) = obj[o]
      [] obj[o].kind = "borrowing" -> /\ obj[o].inner \in Places
                                      /\ at[obj[o].inner] # NoConn
                                      /\ Rebound(obj[o]) = obj[o]
      [] obj[o].kind = "engine"    -> {obj[o].input, obj[o].output} \subseteq Places
      [] OTHER                     -> obj[o] = Gone

(* What the objects of each kind refer to, and that what a borrowing       *)
(* stream refers to is connected: the strengthening behind the two         *)
(* properties above.                                                       *)
RefersAsKind == \A o \in Objects : RefersAsItsKind(o)

ObjectsInv == /\ ObjectsTypeOK
              /\ SessionHasOneOwner
              /\ RefersAsKind
              /\ SessionKeepsConnection
=============================================================================
