-------------------------- MODULE SslObjectsProofs --------------------------
(***************************************************************************)
(* Proofs about the lifetimes of TLS streams and engines in SslObjects.    *)
(***************************************************************************)
EXTENDS SslObjects, FiniteSetTheorems, TLAPS

ObjectsVars == <<vars, objVars>>

(* What the fields of an object may be. *)
LEMMA FieldTypes ==
    ASSUME ObjectsInv, NEW o \in Objects
    PROVE  /\ obj[o] \in Object
           /\ obj[o].kind \in Kinds \union {"none"}
           /\ obj[o].ssl \in Sessions \union {Null}
           /\ obj[o].bio \in Sessions \union {Null}
           /\ obj[o].inner \in Locations \union {Nowhere}
           /\ obj[o].input \in Locations \union {Nowhere}
           /\ obj[o].output \in Locations \union {Nowhere}
           /\ obj[o].held \in Sessions \union {Null}
  <1>1. obj[o] \in Object
    BY DEF ObjectsInv, ObjectsTypeOK
  <1> QED  BY <1>1 DEF Object

(* A new object with the fields given is an object. *)
LEMMA BoundType ==
    ASSUME NEW kind \in Kinds \union {"none"}, NEW e \in Sessions \union {Null},
           NEW bio \in Sessions \union {Null}, NEW inner \in Locations \union {Nowhere},
           NEW in \in Locations \union {Nowhere}, NEW out \in Locations \union {Nowhere}
    PROVE  BoundTo(kind, e, bio, inner, in, out) \in Object
  BY DEF BoundTo, Object

(* An object that is gone is an object, with no session and no stream. *)
LEMMA GoneFields == /\ Gone \in Object
                    /\ Gone.kind = "none" /\ Gone.ssl = Null /\ Gone.bio = Null
                    /\ Gone.held = Null
  BY DEF Gone, BoundTo, Object

(* The pointers of o pass to nobody and those of d to o: each is still     *)
(* owned once.                                                             *)
LEMMA OwnersAfterMove ==
    ASSUME ObjectsInv, NEW o \in Objects, NEW d \in Objects, o # d,
           \A x \in Objects \ {o, d} : obj'[x].ssl = obj[x].ssl /\ obj'[x].bio = obj[x].bio,
           obj'[o].ssl = obj[d].ssl, obj'[o].bio = obj[d].bio,
           obj'[d].ssl = Null, obj'[d].bio = Null,
           \A e \in Sessions : ssl'[e] # Null <=> ssl[e] # Null /\ e # obj[o].ssl,
           \A e \in Sessions : e \in bios' <=> e \in bios /\ e # obj[o].bio
    PROVE  SessionHasOneOwner'
  <1> USE ContextAssumption
  <1>0. Null \notin Sessions /\ SessionHasOneOwner
    BY DEF ContextAssumption, ObjectsInv
  <1>1. \A x, y \in Objects : x # y => /\ obj'[x].ssl = obj'[y].ssl => obj'[x].ssl = Null
                                       /\ obj'[x].bio = obj'[y].bio => obj'[x].bio = Null
    BY <1>0 DEF SessionHasOneOwner
  <1>2. \A e \in Sessions : ssl'[e] # Null <=> \E x \in Objects : obj'[x].ssl = e
    BY <1>0 DEF SessionHasOneOwner
  <1>3. \A e \in Sessions : e \in bios' <=> \E x \in Objects : obj'[x].bio = e
    BY <1>0 DEF SessionHasOneOwner
  <1>4. \A x \in Objects : obj'[x].bio \in {obj'[x].ssl, Null}
    BY <1>0 DEF SessionHasOneOwner
  <1> QED  BY <1>1, <1>2, <1>3, <1>4 DEF SessionHasOneOwner

(* A new session belongs to the object it is made for. *)
LEMMA OwnersAfterNew ==
    ASSUME ObjectsInv, NEW o \in Objects, NEW e \in Sessions, NEW bio \in {e, Null},
           obj[o] = Gone, ssl[e] = Null, e \notin bios,
           \A x \in Objects \ {o} : obj'[x] = obj[x],
           obj'[o].ssl = e, obj'[o].bio = bio,
           \A s \in Sessions : ssl'[s] # Null <=> ssl[s] # Null \/ s = e,
           bios' = bios \union ({bio} \ {Null})
    PROVE  SessionHasOneOwner'
  <1>0. Null \notin Sessions /\ SessionHasOneOwner /\ obj[o].ssl = Null /\ obj[o].bio = Null
    BY ContextAssumption, GoneFields DEF ObjectsInv
  <1>1. \A x, y \in Objects : x # y => /\ obj'[x].ssl = obj'[y].ssl => obj'[x].ssl = Null
                                       /\ obj'[x].bio = obj'[y].bio => obj'[x].bio = Null
    BY <1>0 DEF SessionHasOneOwner
  <1>2. \A s \in Sessions : ssl'[s] # Null <=> \E x \in Objects : obj'[x].ssl = s
    BY <1>0 DEF SessionHasOneOwner
  <1>3. \A s \in Sessions : s \in bios' <=> \E x \in Objects : obj'[x].bio = s
    BY <1>0 DEF SessionHasOneOwner
  <1>4. \A x \in Objects : obj'[x].bio \in {obj'[x].ssl, Null}
    BY <1>0 DEF SessionHasOneOwner
  <1> QED  BY <1>1, <1>2, <1>3, <1>4 DEF SessionHasOneOwner

(* Nothing changes hands. *)
LEMMA OwnersSame ==
    ASSUME ObjectsInv, ssl' = ssl, bios' = bios,
           \A x \in Objects : obj'[x].ssl = obj[x].ssl /\ obj'[x].bio = obj[x].bio
    PROVE  SessionHasOneOwner'
  BY DEF ObjectsInv, SessionHasOneOwner

(* The session of o ends. *)
LEMMA OwnersAfterEnd ==
    ASSUME ObjectsInv, NEW o \in Objects,
           \A x \in Objects \ {o} : obj'[x] = obj[x],
           obj'[o] = Gone,
           \A e \in Sessions : ssl'[e] # Null <=> ssl[e] # Null /\ e # obj[o].ssl,
           \A e \in Sessions : e \in bios' <=> e \in bios /\ e # obj[o].bio
    PROVE  SessionHasOneOwner'
  <1>0. Null \notin Sessions /\ SessionHasOneOwner /\ obj'[o].ssl = Null /\ obj'[o].bio = Null
    BY ContextAssumption, GoneFields DEF ObjectsInv
  <1>1. \A x, y \in Objects : x # y => /\ obj'[x].ssl = obj'[y].ssl => obj'[x].ssl = Null
                                       /\ obj'[x].bio = obj'[y].bio => obj'[x].bio = Null
    BY <1>0 DEF SessionHasOneOwner
  <1>2. \A e \in Sessions : ssl'[e] # Null <=> \E x \in Objects : obj'[x].ssl = e
    BY <1>0 DEF SessionHasOneOwner
  <1>3. \A e \in Sessions : e \in bios' <=> \E x \in Objects : obj'[x].bio = e
    BY <1>0 DEF SessionHasOneOwner
  <1>4. \A x \in Objects : obj'[x].bio \in {obj'[x].ssl, Null}
    BY <1>0 DEF SessionHasOneOwner
  <1> QED  BY <1>1, <1>2, <1>3, <1>4 DEF SessionHasOneOwner

-----------------------------------------------------------------------------
(* The fields of the records that the operations make.                     *)
LEMMA BoundFields ==
    ASSUME NEW kind, NEW e, NEW bio, NEW inner, NEW in, NEW out,
           NEW r, r = BoundTo(kind, e, bio, inner, in, out)
    PROVE  /\ r.kind = kind /\ r.ssl = e /\ r.bio = bio /\ r.held = Null
           /\ r.inner = inner /\ r.input = in /\ r.output = out
  BY DEF BoundTo

(* Rebinding moves only the references, and to the inner stream. *)
LEMMA ReboundFields ==
    ASSUME NEW rec \in Object
    PROVE  /\ Rebound(rec) \in Object
           /\ Rebound(rec).kind = rec.kind /\ Rebound(rec).ssl = rec.ssl
           /\ Rebound(rec).bio = rec.bio /\ Rebound(rec).held = rec.held
           /\ Rebound(rec).inner = rec.inner
           /\ Rebound(rec).input = rec.inner /\ Rebound(rec).output = rec.inner
           /\ Rebound(Rebound(rec)) = Rebound(rec)
  <1>1. ASSUME NEW r \in Object
        PROVE  Rebound(r) = [kind |-> r.kind, ssl |-> r.ssl, bio |-> r.bio,
                             inner |-> r.inner, input |-> r.inner, output |-> r.inner,
                             held |-> r.held]
    <2> DEFINE half == [r EXCEPT !.input = r.inner]
    <2>1. half = [kind |-> r.kind, ssl |-> r.ssl, bio |-> r.bio, inner |-> r.inner,
                  input |-> r.inner, output |-> r.output, held |-> r.held]
      BY DEF Object
    <2>2. Rebound(r) = [half EXCEPT !.output = r.inner]
      BY Zenon DEF Rebound
    <2> HIDE DEF half
    <2> QED  BY <2>1, <2>2
  <1>2. Rebound(rec) \in Object
    BY <1>1 DEF Object
  <1> QED  BY <1>1, <1>2

(* An object whose input and output are its inner stream is rebound. *)
LEMMA ReboundAlready ==
    ASSUME NEW rec \in Object, rec.input = rec.inner, rec.output = rec.inner
    PROVE  Rebound(rec) = rec
  <1>1. ASSUME NEW a \in Object, NEW b \in Object,
               a.kind = b.kind, a.ssl = b.ssl, a.bio = b.bio, a.inner = b.inner,
               a.input = b.input, a.output = b.output, a.held = b.held
        PROVE  a = b
    BY <1>1 DEF Object
  <1> QED  BY <1>1, ReboundFields

(* The source of a move keeps its stream and loses its session. *)
LEMMA TakenFields ==
    ASSUME NEW rec \in Object
    PROVE  /\ Taken(rec) \in Object
           /\ Taken(rec).kind = rec.kind /\ Taken(rec).inner = rec.inner
           /\ Taken(rec).input = rec.input /\ Taken(rec).output = rec.output
           /\ Taken(rec).ssl = Null /\ Taken(rec).bio = Null /\ Taken(rec).held = Null
           /\ Rebound(rec) = rec => Rebound(Taken(rec)) = Taken(rec)
  <1>1. Taken(rec) = [kind |-> rec.kind, ssl |-> Null, bio |-> Null,
                      inner |-> rec.inner, input |-> rec.input, output |-> rec.output,
                      held |-> Null]
    <2> DEFINE r == [rec EXCEPT !.ssl = Null]
               s == [r EXCEPT !.bio = Null]
    <2>1. r = [kind |-> rec.kind, ssl |-> Null, bio |-> rec.bio, inner |-> rec.inner,
               input |-> rec.input, output |-> rec.output, held |-> rec.held]
      BY DEF Object
    <2>2. Taken(rec) = [s EXCEPT !.held = Null]
      BY Zenon DEF Taken
    <2> HIDE DEF r
    <2>3. s = [kind |-> rec.kind, ssl |-> Null, bio |-> Null, inner |-> rec.inner,
               input |-> rec.input, output |-> rec.output, held |-> rec.held]
      BY <2>1
    <2> HIDE DEF s
    <2> QED  BY <2>2, <2>3
  <1>2. Taken(rec) \in Object
    BY <1>1 DEF Object
  <1>3. ASSUME Rebound(rec) = rec  PROVE Rebound(Taken(rec)) = Taken(rec)
    <2>1. rec.input = rec.inner /\ rec.output = rec.inner
      BY <1>3, ReboundFields
    <2> QED  BY <1>1, <1>2, <2>1, ReboundAlready
  <1> QED  BY <1>1, <1>2, <1>3

(* The target of a move has what the source had, rebound to itself. *)
LEMMA MovedFields ==
    ASSUME NEW rec \in Object, NEW o \in Objects, NEW m, m = MovedTo(o, rec)
    PROVE  /\ m \in Object
           /\ m.kind = rec.kind /\ m.ssl = rec.ssl /\ m.bio = rec.bio /\ m.held = rec.held
           /\ rec.kind = "stream" => /\ m.inner = o /\ m.input = o /\ m.output = o
                                     /\ Rebound(m) = m
           /\ rec.kind = "borrowing" => m = Rebound(rec)
           /\ rec.kind \notin {"stream", "borrowing"} => m = rec
  <1>1. CASE rec.kind = "stream"
    <2> DEFINE r == [rec EXCEPT !.inner = o]
    <2>1. r = [kind |-> rec.kind, ssl |-> rec.ssl, bio |-> rec.bio, inner |-> o,
               input |-> rec.input, output |-> rec.output, held |-> rec.held]
      BY DEF Object
    <2>2. r \in Object
      BY <2>1 DEF Object, Locations
    <2>3. /\ r.kind = rec.kind /\ r.ssl = rec.ssl /\ r.bio = rec.bio /\ r.held = rec.held
          /\ r.inner = o
      BY <2>1
    <2>4. m = Rebound(r)
      BY <1>1 DEF MovedTo
    <2> HIDE DEF r
    <2> QED  BY <1>1, <2>2, <2>3, <2>4, ReboundFields
  <1>2. CASE rec.kind = "borrowing"
    <2>1. m = Rebound(rec)
      BY <1>2 DEF MovedTo
    <2> QED  BY <1>2, <2>1, ReboundFields
  <1>3. CASE rec.kind \notin {"stream", "borrowing"}
    <2>1. m = rec
      BY <1>3 DEF MovedTo
    <2> QED  BY <1>3, <2>1
  <1> QED  BY <1>1, <1>2, <1>3

(* A TLS stream refers to one stream, in both directions. *)
LEMMA RefersToOne ==
    ASSUME ObjectsInv, NEW x \in Objects, obj[x].kind \in {"stream", "borrowing"}
    PROVE  /\ Rebound(obj[x]) = obj[x]
           /\ obj[x].input = obj[x].inner /\ obj[x].output = obj[x].inner
           /\ obj[x].kind = "stream" => obj[x].inner = x
           /\ obj[x].kind = "borrowing" => obj[x].inner \in Places /\ at[obj[x].inner] # NoConn
  <1>1. Rebound(obj[x]) = obj[x]
    BY DEF ObjectsInv, RefersAsKind, RefersAsItsKind
  <1>2. obj[x].input = obj[x].inner /\ obj[x].output = obj[x].inner
    BY <1>1, ReboundFields, FieldTypes
  <1> QED  BY <1>1, <1>2 DEF ObjectsInv, RefersAsKind, RefersAsItsKind

(* An object that a step does not change, and whose stream stays where it  *)
(* is, is as it was.                                                       *)
LEMMA Untouched ==
    ASSUME ObjectsInv, NEW x \in Objects, obj'[x] = obj[x],
           obj[x].kind \in {"stream", "borrowing"} =>
               at'[obj[x].inner] = at[obj[x].inner],
           obj[x].ssl # Null => home'[obj[x].ssl] = home[obj[x].ssl]
    PROVE  RefersAsItsKind(x)' /\ KeepsConnection(x)'
  <1>1. RefersAsItsKind(x) /\ KeepsConnection(x)
    BY DEF ObjectsInv, RefersAsKind, SessionKeepsConnection
  <1>2. obj[x].kind \in {"stream", "borrowing"} =>
            obj[x].input = obj[x].inner /\ obj[x].output = obj[x].inner
    BY RefersToOne
  <1>3. RefersAsItsKind(x)'
    BY <1>1 DEF RefersAsItsKind
  <1>4. KeepsConnection(x)'
    BY <1>1, <1>2 DEF KeepsConnection
  <1> QED  BY <1>3, <1>4

(* The session of one object is not that of another. *)
LEMMA OthersSession ==
    ASSUME ObjectsInv, NEW x \in Objects, NEW o \in Objects, x # o, obj[x].ssl # Null
    PROVE  obj[x].ssl # obj[o].ssl /\ obj[x].ssl \in Sessions /\ ssl[obj[x].ssl] # Null
  BY FieldTypes DEF ObjectsInv, SessionHasOneOwner

(* A new session: what SSL_new and the BIO pair leave. *)
LEMMA NewSessionFacts ==
    ASSUME ObjectsInv, NEW c \in Contexts, NEW e \in Sessions, NEW conn, NEW bio,
           NewSession(c, e, conn, bio)
    PROVE  /\ bio \in {e, Null} /\ bio \in Sessions \union {Null}
           /\ ssl[e] = Null /\ e \notin bios
           /\ \A s \in Sessions : ssl'[s] # Null <=> ssl[s] # Null \/ s = e
           /\ \A s \in Sessions : s # e => home'[s] = home[s]
           /\ home'[e] = conn
           /\ bios' = bios \union ({bio} \ {Null})
           /\ ssl' \in [Sessions -> Pointers \union {Null}]
           /\ refs' \in [Pointers -> Int]
           /\ bios' \subseteq Sessions
           /\ home' = [home EXCEPT ![e] = conn]
  <1>1. /\ ssl \in [Sessions -> Pointers \union {Null}] /\ refs \in [Pointers -> Int]
        /\ bios \subseteq Sessions /\ home \in [Sessions -> Connections \union {NoConn}]
    BY DEF ObjectsInv, ObjectsTypeOK, TypeOK
  <1>2. ctx[c] \in Pointers /\ ctx[c] # Null
    BY ContextAssumption DEF NewSession
  <1>3. \A s \in Sessions : ssl'[s] # Null <=> ssl[s] # Null \/ s = e
    BY <1>1, <1>2 DEF NewSession
  <1>4. refs' \in [Pointers -> Int]
    BY <1>1, <1>2 DEF NewSession
  <1>5. ssl' \in [Sessions -> Pointers \union {Null}]
    BY <1>1, <1>2 DEF NewSession
  <1>6. home'[e] = conn /\ \A s \in Sessions : s # e => home'[s] = home[s]
    BY <1>1 DEF NewSession
  <1> QED  BY <1>1, <1>3, <1>4, <1>5, <1>6 DEF NewSession

(* What _free leaves. *)
LEMMA FreeFacts ==
    ASSUME ObjectsInv, NEW o \in Objects, Free(o)
    PROVE  /\ \A e \in Sessions : ssl'[e] # Null <=> ssl[e] # Null /\ e # obj[o].ssl
           /\ \A e \in Sessions : e \in bios' <=> e \in bios /\ e # obj[o].bio
           /\ \A e \in Sessions : e # obj[o].ssl => home'[e] = home[e]
           /\ ssl' \in [Sessions -> Pointers \union {Null}]
           /\ refs' \in [Pointers -> Int]
           /\ bios' \subseteq Sessions
           /\ home' \in [Sessions -> Connections \union {NoConn}]
  <1>1. /\ ssl \in [Sessions -> Pointers \union {Null}] /\ refs \in [Pointers -> Int]
        /\ bios \subseteq Sessions /\ home \in [Sessions -> Connections \union {NoConn}]
    BY DEF ObjectsInv, ObjectsTypeOK, TypeOK
  <1>2. \A p \in Pointers : refs'[p] \in Int
    BY <1>1 DEF Free
  <1>3. refs' \in [Pointers -> Int]
    BY <1>2 DEF Free
  <1>4. ssl' \in [Sessions -> Pointers \union {Null}]
    BY <1>1 DEF Free
  <1>5. home' \in [Sessions -> Connections \union {NoConn}]
    BY <1>1 DEF Free
  <1> QED  BY <1>1, <1>3, <1>4, <1>5 DEF Free

(* The types of what stays as it is. *)
LEMMA TypesKept ==
    ASSUME ObjectsInv
    PROVE  /\ UNCHANGED build => (build \in [release : Releases, disabled : SUBSET {SSL2, SSL3}])'
           /\ UNCHANGED ctx => (ctx \in [Contexts -> Pointers \union {Dead, Null}])'
           /\ UNCHANGED refs => (refs \in [Pointers -> Int])'
           /\ UNCHANGED ssl => (ssl \in [Sessions -> Pointers \union {Null}])'
           /\ UNCHANGED bios => (bios \subseteq Sessions)'
           /\ UNCHANGED at => (at \in [Locations -> Connections \union {NoConn}])'
           /\ UNCHANGED home => (home \in [Sessions -> Connections \union {NoConn}])'
  BY DEF ObjectsInv, ObjectsTypeOK, TypeOK

-----------------------------------------------------------------------------
(* stream(context, inner stream): a new session over its own stream. *)
LEMMA ConstructStreamInv ==
    ASSUME ObjectsInv, NEW o \in Objects, NEW c \in Contexts, NEW k \in Places,
           ConstructStream(o, c, k)
    PROVE  ObjectsInv'
  <1>1. PICK e \in Sessions, bio \in Sessions \union {Null} :
          /\ NewSession(c, e, at[k], bio)
          /\ obj' = [obj EXCEPT ![o] = BoundTo("stream", e, bio, o, o, o)]
    BY DEF ConstructStream
  <1> DEFINE r == BoundTo("stream", e, bio, o, o, o)
  <1>2. /\ obj \in [Objects -> Object] /\ at \in [Locations -> Connections \union {NoConn}]
        /\ home \in [Sessions -> Connections \union {NoConn}]
        /\ o \in Locations /\ k \in Locations /\ o # k /\ Null \notin Sessions
    BY ObjectAssumption, ContextAssumption DEF ObjectsInv, ObjectsTypeOK, Locations
  <1>3. r \in Object
    BY <1>2, BoundType DEF Kinds
  <1>4. /\ r.kind = "stream" /\ r.ssl = e /\ r.bio = bio /\ r.held = Null
        /\ r.inner = o /\ r.input = o /\ r.output = o
    BY BoundFields
  <1>5. Rebound(r) = r
    BY <1>3, <1>4, ReboundAlready
  <1> HIDE DEF r
  <1>6. obj'[o] = r /\ (\A x \in Objects \ {o} : obj'[x] = obj[x])
        /\ obj' \in [Objects -> Object]
    BY <1>1, <1>2, <1>3 DEF r
  <1>7. obj[o] = Gone
    BY DEF ConstructStream, Exists, ObjectsInv, RefersAsKind, RefersAsItsKind
  <1>8. /\ at' \in [Locations -> Connections \union {NoConn}]
        /\ at'[o] = at[k]
        /\ \A l \in Locations \ {o, k} : at'[l] = at[l]
    BY <1>2 DEF ConstructStream
  <1>9. SessionHasOneOwner'
    BY <1>1, <1>4, <1>6, <1>7, NewSessionFacts, OwnersAfterNew
  <1>10. ASSUME NEW x \in Objects  PROVE RefersAsItsKind(x)' /\ KeepsConnection(x)'
    <2>1. CASE x = o
      <3>1. RefersAsItsKind(x)'
        BY <2>1, <1>4, <1>5, <1>6 DEF RefersAsItsKind
      <3>2. at'[o] = home'[e]
        BY <1>1, <1>8, NewSessionFacts
      <3>3. KeepsConnection(x)'
        BY <2>1, <1>4, <1>6, <3>2 DEF KeepsConnection
      <3> QED  BY <3>1, <3>3
    <2>2. CASE x # o
      <3>1. obj[x].kind \in {"stream", "borrowing"} => obj[x].inner \in Locations \ {o, k}
        <4>1. obj[x].inner # k
          BY DEF ConstructStream, Borrowed, RefersTo
        <4> QED  BY <2>2, <4>1, RefersToOne, ObjectAssumption DEF Locations
      <3>2. obj[x].ssl # Null => obj[x].ssl \in Sessions /\ obj[x].ssl # e
        BY <1>1, NewSessionFacts, FieldTypes DEF ObjectsInv, SessionHasOneOwner
      <3>3. obj[x].ssl # Null => home'[obj[x].ssl] = home[obj[x].ssl]
        BY <1>1, <3>2, NewSessionFacts
      <3> QED  BY <2>2, <1>6, <1>8, <3>1, <3>3, Untouched
    <2> QED  BY <2>1, <2>2
  <1>11. home' \in [Sessions -> Connections \union {NoConn}]
    <2>1. home' = [home EXCEPT ![e] = at[k]]
      BY <1>1, NewSessionFacts
    <2> QED  BY <1>2, <2>1
  <1>12. ObjectsTypeOK'
    <2>1. UNCHANGED build /\ UNCHANGED ctx
      BY DEF ConstructStream
    <2> QED  BY <1>1, <1>6, <1>8, <1>11, <2>1, TypesKept, NewSessionFacts
             DEF ObjectsTypeOK, TypeOK
  <1> QED  BY <1>9, <1>10, <1>12 DEF ObjectsInv, RefersAsKind, SessionKeepsConnection

(* The stream that was given is gone, and nobody had referred to it. *)
LEMMA ConstructStreamThrowsInv ==
    ASSUME ObjectsInv, NEW o \in Objects, NEW c \in Contexts, NEW k \in Places,
           ConstructStreamThrows(o, c, k)
    PROVE  ObjectsInv'
  <1>1. /\ UNCHANGED build /\ UNCHANGED ctx /\ UNCHANGED refs /\ UNCHANGED ssl
        /\ UNCHANGED obj /\ UNCHANGED bios /\ UNCHANGED home
    BY DEF ConstructStreamThrows, vars, ctxVars
  <1>2. /\ at \in [Locations -> Connections \union {NoConn}]
        /\ obj \in [Objects -> Object] /\ k \in Locations
    BY DEF ObjectsInv, ObjectsTypeOK, Locations
  <1>3. /\ at' \in [Locations -> Connections \union {NoConn}]
        /\ \A l \in Locations \ {k} : at'[l] = at[l]
    BY <1>2 DEF ConstructStreamThrows
  <1>4. ASSUME NEW x \in Objects  PROVE RefersAsItsKind(x)' /\ KeepsConnection(x)'
    <2>1. obj[x].inner # k
      BY DEF ConstructStreamThrows, Borrowed, RefersTo
    <2>2. obj[x].kind \in {"stream", "borrowing"} => obj[x].inner \in Locations \ {k}
      BY <2>1, RefersToOne DEF Locations
    <2> QED  BY <1>1, <1>3, <2>2, Untouched
  <1>5. SessionHasOneOwner'
    BY <1>1, OwnersSame
  <1>6. ObjectsTypeOK'
    BY <1>1, <1>2, <1>3, TypesKept DEF ObjectsTypeOK, TypeOK
  <1> QED  BY <1>4, <1>5, <1>6 DEF ObjectsInv, RefersAsKind, SessionKeepsConnection

(* stream(context, reference): a new session over a stream of others. *)
LEMMA ConstructBorrowingInv ==
    ASSUME ObjectsInv, NEW o \in Objects, NEW c \in Contexts, NEW k \in Places,
           ConstructBorrowing(o, c, k)
    PROVE  ObjectsInv'
  <1>1. PICK e \in Sessions, bio \in Sessions \union {Null} :
          /\ NewSession(c, e, at[k], bio)
          /\ obj' = [obj EXCEPT ![o] = BoundTo("borrowing", e, bio, k, k, k)]
    BY DEF ConstructBorrowing
  <1> DEFINE r == BoundTo("borrowing", e, bio, k, k, k)
  <1>2. /\ obj \in [Objects -> Object] /\ at \in [Locations -> Connections \union {NoConn}]
        /\ home \in [Sessions -> Connections \union {NoConn}] /\ k \in Locations
        /\ UNCHANGED build /\ UNCHANGED ctx /\ UNCHANGED at
    BY DEF ObjectsInv, ObjectsTypeOK, Locations, ConstructBorrowing
  <1>3. r \in Object
    BY <1>2, BoundType DEF Kinds
  <1>4. /\ r.kind = "borrowing" /\ r.ssl = e /\ r.bio = bio /\ r.held = Null
        /\ r.inner = k /\ r.input = k /\ r.output = k
    BY BoundFields
  <1>5. Rebound(r) = r
    BY <1>3, <1>4, ReboundAlready
  <1> HIDE DEF r
  <1>6. obj'[o] = r /\ (\A x \in Objects \ {o} : obj'[x] = obj[x])
        /\ obj' \in [Objects -> Object]
    BY <1>1, <1>2, <1>3 DEF r
  <1>7. obj[o] = Gone
    BY DEF ConstructBorrowing, Exists, ObjectsInv, RefersAsKind, RefersAsItsKind
  <1>8. SessionHasOneOwner'
    BY <1>1, <1>4, <1>6, <1>7, NewSessionFacts, OwnersAfterNew
  <1>9. ASSUME NEW x \in Objects  PROVE RefersAsItsKind(x)' /\ KeepsConnection(x)'
    <2>1. CASE x = o
      <3>1. at[k] # NoConn
        BY DEF ConstructBorrowing
      <3>2. RefersAsItsKind(x)'
        BY <2>1, <1>2, <1>4, <1>5, <1>6, <3>1 DEF RefersAsItsKind
      <3>3. at'[k] = home'[e]
        BY <1>1, <1>2, NewSessionFacts
      <3>4. KeepsConnection(x)'
        BY <2>1, <1>4, <1>6, <3>3 DEF KeepsConnection
      <3> QED  BY <3>2, <3>4
    <2>2. CASE x # o
      <3>1. obj[x].ssl # Null => obj[x].ssl \in Sessions /\ obj[x].ssl # e
        BY <1>1, NewSessionFacts, FieldTypes DEF ObjectsInv, SessionHasOneOwner
      <3>2. obj[x].ssl # Null => home'[obj[x].ssl] = home[obj[x].ssl]
        BY <1>1, <3>1, NewSessionFacts
      <3> QED  BY <2>2, <1>2, <1>6, <3>2, Untouched
    <2> QED  BY <2>1, <2>2
  <1>10. home' \in [Sessions -> Connections \union {NoConn}]
    <2>1. home' = [home EXCEPT ![e] = at[k]]
      BY <1>1, NewSessionFacts
    <2> QED  BY <1>2, <2>1
  <1>11. ObjectsTypeOK'
    BY <1>1, <1>2, <1>6, <1>10, TypesKept, NewSessionFacts DEF ObjectsTypeOK, TypeOK
  <1> QED  BY <1>8, <1>9, <1>11 DEF ObjectsInv, RefersAsKind, SessionKeepsConnection

(* engine(context, input, output): a new session over two buffers. *)
LEMMA ConstructEngineInv ==
    ASSUME ObjectsInv, NEW o \in Objects, NEW c \in Contexts, NEW in \in Places,
           NEW out \in Places, ConstructEngine(o, c, in, out)
    PROVE  ObjectsInv'
  <1>1. PICK e \in Sessions, bio \in Sessions \union {Null} :
          /\ NewSession(c, e, NoConn, bio)
          /\ obj' = [obj EXCEPT ![o] = BoundTo("engine", e, bio, Nowhere, in, out)]
    BY DEF ConstructEngine
  <1> DEFINE r == BoundTo("engine", e, bio, Nowhere, in, out)
  <1>2. /\ obj \in [Objects -> Object]
        /\ home \in [Sessions -> Connections \union {NoConn}]
        /\ UNCHANGED build /\ UNCHANGED ctx /\ UNCHANGED at
    BY DEF ObjectsInv, ObjectsTypeOK, ConstructEngine
  <1>3. r \in Object
    BY BoundType DEF Kinds, Locations
  <1>4. /\ r.kind = "engine" /\ r.ssl = e /\ r.bio = bio /\ r.held = Null
        /\ r.input = in /\ r.output = out
    BY BoundFields
  <1> HIDE DEF r
  <1>5. obj'[o] = r /\ (\A x \in Objects \ {o} : obj'[x] = obj[x])
        /\ obj' \in [Objects -> Object]
    BY <1>1, <1>2, <1>3 DEF r
  <1>6. obj[o] = Gone
    BY DEF ConstructEngine, Exists, ObjectsInv, RefersAsKind, RefersAsItsKind
  <1>7. SessionHasOneOwner'
    BY <1>1, <1>4, <1>5, <1>6, NewSessionFacts, OwnersAfterNew
  <1>8. ASSUME NEW x \in Objects  PROVE RefersAsItsKind(x)' /\ KeepsConnection(x)'
    <2>1. CASE x = o
      BY <2>1, <1>4, <1>5 DEF RefersAsItsKind, KeepsConnection
    <2>2. CASE x # o
      <3>1. obj[x].ssl # Null => obj[x].ssl \in Sessions /\ obj[x].ssl # e
        BY <1>1, NewSessionFacts, FieldTypes DEF ObjectsInv, SessionHasOneOwner
      <3>2. obj[x].ssl # Null => home'[obj[x].ssl] = home[obj[x].ssl]
        BY <1>1, <3>1, NewSessionFacts
      <3> QED  BY <2>2, <1>2, <1>5, <3>2, Untouched
    <2> QED  BY <2>1, <2>2
  <1>9. home' \in [Sessions -> Connections \union {NoConn}]
    <2>1. home' = [home EXCEPT ![e] = NoConn]
      BY <1>1, NewSessionFacts
    <2> QED  BY <1>2, <2>1
  <1>10. ObjectsTypeOK'
    BY <1>1, <1>2, <1>5, <1>9, TypesKept, NewSessionFacts DEF ObjectsTypeOK, TypeOK
  <1> QED  BY <1>7, <1>8, <1>10 DEF ObjectsInv, RefersAsKind, SessionKeepsConnection

(* The other engine keeps its buffers, and has no session any more. *)
LEMMA AdoptEngineInv ==
    ASSUME ObjectsInv, NEW o \in Objects, NEW d \in Objects, NEW in \in Places,
           NEW out \in Places, AdoptEngine(o, d, in, out)
    PROVE  ObjectsInv'
  <1> DEFINE r == BoundTo("engine", obj[d].ssl, obj[d].bio, Nowhere, in, out)
             s == [obj[d] EXCEPT !.ssl = Null, !.bio = Null]
  <1>1. /\ obj \in [Objects -> Object] /\ obj[d] \in Object /\ obj[d].kind = "engine"
        /\ UNCHANGED build /\ UNCHANGED ctx /\ UNCHANGED refs /\ UNCHANGED ssl
        /\ UNCHANGED bios /\ UNCHANGED at /\ UNCHANGED home
    BY DEF ObjectsInv, ObjectsTypeOK, AdoptEngine, vars, ctxVars
  <1>2. obj[o] = Gone /\ o # d
    BY DEF AdoptEngine, Exists, ObjectsInv, RefersAsKind, RefersAsItsKind
  <1>3. r \in Object
    BY FieldTypes, BoundType DEF Kinds, Locations
  <1>4. /\ r.kind = "engine" /\ r.ssl = obj[d].ssl /\ r.bio = obj[d].bio /\ r.held = Null
        /\ r.input = in /\ r.output = out
    BY BoundFields
  <1>5. /\ s \in Object /\ s.kind = "engine" /\ s.ssl = Null /\ s.bio = Null
        /\ s.input = obj[d].input /\ s.output = obj[d].output
    BY <1>1 DEF Object
  <1>6. obj' = [obj EXCEPT ![o] = r, ![d] = s]
    BY <1>1, <1>2, Zenon DEF AdoptEngine
  <1> HIDE DEF r, s
  <1>7. obj'[o] = r /\ obj'[d] = s /\ (\A x \in Objects \ {o, d} : obj'[x] = obj[x])
        /\ obj' \in [Objects -> Object]
    BY <1>1, <1>2, <1>3, <1>5, <1>6
  <1>8. SessionHasOneOwner'
    <2>1. obj[o].ssl = Null /\ obj[o].bio = Null /\ Null \notin Sessions
      BY <1>2, GoneFields, ContextAssumption
    <2> QED  BY <1>1, <1>2, <1>4, <1>5, <1>7, <2>1, OwnersAfterMove
  <1>9. ASSUME NEW x \in Objects  PROVE RefersAsItsKind(x)' /\ KeepsConnection(x)'
    <2>1. CASE x = o
      BY <2>1, <1>4, <1>7 DEF RefersAsItsKind, KeepsConnection
    <2>2. CASE x = d
      <3>1. {obj[d].input, obj[d].output} \subseteq Places
        BY <1>1 DEF ObjectsInv, RefersAsKind, RefersAsItsKind
      <3> QED  BY <2>2, <1>5, <1>7, <3>1 DEF RefersAsItsKind, KeepsConnection
    <2>3. CASE x \notin {o, d}
      BY <2>3, <1>1, <1>7, Untouched
    <2> QED  BY <2>1, <2>2, <2>3
  <1>10. ObjectsTypeOK'
    BY <1>1, <1>7, TypesKept DEF ObjectsTypeOK, TypeOK
  <1> QED  BY <1>8, <1>9, <1>10 DEF ObjectsInv, RefersAsKind, SessionKeepsConnection

(* rebind: the engine reads and writes elsewhere from now on. *)
LEMMA RebindEngineInv ==
    ASSUME ObjectsInv, NEW o \in Objects, NEW in \in Places, NEW out \in Places,
           RebindEngine(o, in, out)
    PROVE  ObjectsInv'
  <1> DEFINE r == [[obj[o] EXCEPT !.input = in] EXCEPT !.output = out]
  <1>1. /\ obj \in [Objects -> Object] /\ obj[o] \in Object /\ obj[o].kind = "engine"
        /\ UNCHANGED build /\ UNCHANGED ctx /\ UNCHANGED refs /\ UNCHANGED ssl
        /\ UNCHANGED bios /\ UNCHANGED at /\ UNCHANGED home
    BY DEF ObjectsInv, ObjectsTypeOK, RebindEngine, vars, ctxVars
  <1>2. /\ r \in Object /\ r.kind = "engine" /\ r.ssl = obj[o].ssl /\ r.bio = obj[o].bio
        /\ r.held = obj[o].held /\ r.input = in /\ r.output = out
    <2> DEFINE h == [obj[o] EXCEPT !.input = in]
    <2>1. h \in Object /\ h.kind = "engine" /\ h.ssl = obj[o].ssl /\ h.bio = obj[o].bio
          /\ h.held = obj[o].held /\ h.input = in
      BY <1>1 DEF Object, Locations
    <2>2. r = [h EXCEPT !.output = out]
      OBVIOUS
    <2> HIDE DEF h, r
    <2> QED  BY <2>1, <2>2 DEF Object, Locations
  <1>3. obj' = [obj EXCEPT ![o] = r]
    BY <1>1, Zenon DEF RebindEngine
  <1> HIDE DEF r
  <1>4. obj'[o] = r /\ (\A x \in Objects \ {o} : obj'[x] = obj[x])
        /\ obj' \in [Objects -> Object]
    BY <1>1, <1>2, <1>3
  <1>5. SessionHasOneOwner'
    BY <1>1, <1>2, <1>4, OwnersSame
  <1>6. ASSUME NEW x \in Objects  PROVE RefersAsItsKind(x)' /\ KeepsConnection(x)'
    <2>1. CASE x = o
      <3>1. KeepsConnection(o)
        BY DEF ObjectsInv, SessionKeepsConnection
      <3> QED  BY <2>1, <3>1, <1>2, <1>4 DEF RefersAsItsKind, KeepsConnection
    <2>2. CASE x # o
      BY <2>2, <1>1, <1>4, Untouched
    <2> QED  BY <2>1, <2>2
  <1>7. ObjectsTypeOK'
    BY <1>1, <1>4, TypesKept DEF ObjectsTypeOK, TypeOK
  <1> QED  BY <1>5, <1>6, <1>7 DEF ObjectsInv, RefersAsKind, SessionKeepsConnection

(* A borrowed stream replaced: both references follow it. *)
LEMMA RebindNextLayerInv ==
    ASSUME ObjectsInv, NEW o \in Objects, NEW k \in Places, RebindNextLayer(o, k)
    PROVE  ObjectsInv'
  <1> DEFINE h == [obj[o] EXCEPT !.inner = k]
             r == Rebound(h)
  <1>1. /\ obj \in [Objects -> Object] /\ obj[o] \in Object /\ obj[o].kind = "borrowing"
        /\ at[k] # NoConn /\ at \in [Locations -> Connections \union {NoConn}]
        /\ home \in [Sessions -> Connections \union {NoConn}] /\ k \in Locations
        /\ UNCHANGED build /\ UNCHANGED ctx /\ UNCHANGED refs /\ UNCHANGED ssl
        /\ UNCHANGED bios /\ UNCHANGED at
    BY DEF ObjectsInv, ObjectsTypeOK, RebindNextLayer, vars, ctxVars, Locations
  <1>2. /\ h \in Object /\ h.kind = "borrowing" /\ h.ssl = obj[o].ssl
        /\ h.bio = obj[o].bio /\ h.held = obj[o].held /\ h.inner = k
    BY <1>1 DEF Object, Locations
  <1>3. obj' = [obj EXCEPT ![o] = r]
    BY <1>1, Zenon DEF RebindNextLayer
  <1> HIDE DEF h
  <1>4. /\ r \in Object /\ r.kind = "borrowing" /\ r.ssl = obj[o].ssl
        /\ r.bio = obj[o].bio /\ r.held = obj[o].held
        /\ r.inner = k /\ r.input = k /\ r.output = k /\ Rebound(r) = r
    BY <1>2, ReboundFields
  <1> HIDE DEF r
  <1>5. obj'[o] = r /\ (\A x \in Objects \ {o} : obj'[x] = obj[x])
        /\ obj' \in [Objects -> Object]
    BY <1>1, <1>3, <1>4
  <1>6. SessionHasOneOwner'
    BY <1>1, <1>4, <1>5, OwnersSame
  <1>7. obj[o].ssl \in Sessions \union {Null} /\ Null \notin Sessions
    BY FieldTypes, ContextAssumption
  <1>8. /\ home' \in [Sessions -> Connections \union {NoConn}]
        /\ obj[o].ssl # Null => home'[obj[o].ssl] = at[k]
        /\ \A e \in Sessions : e # obj[o].ssl => home'[e] = home[e]
    <2>1. CASE obj[o].ssl = Null
      <3>1. home' = home
        BY <2>1 DEF RebindNextLayer
      <3> QED  BY <1>1, <2>1, <3>1
    <2>2. CASE obj[o].ssl # Null
      <3>1. home' = [home EXCEPT ![obj[o].ssl] = at[k]]
        BY <2>2 DEF RebindNextLayer
      <3> QED  BY <1>1, <1>7, <2>2, <3>1
    <2> QED  BY <2>1, <2>2
  <1>9. ASSUME NEW x \in Objects  PROVE RefersAsItsKind(x)' /\ KeepsConnection(x)'
    <2>1. CASE x = o
      <3>1. KeepsConnection(o)
        BY DEF ObjectsInv, SessionKeepsConnection
      <3>2. RefersAsItsKind(x)'
        BY <2>1, <1>1, <1>4, <1>5 DEF RefersAsItsKind
      <3>3. KeepsConnection(x)'
        BY <2>1, <3>1, <1>1, <1>4, <1>5, <1>8 DEF KeepsConnection
      <3> QED  BY <3>2, <3>3
    <2>2. CASE x # o
      <3>1. obj[x].ssl # Null => home'[obj[x].ssl] = home[obj[x].ssl]
        BY <2>2, <1>8, OthersSession
      <3> QED  BY <2>2, <3>1, <1>1, <1>5, Untouched
    <2> QED  BY <2>1, <2>2
  <1>10. ObjectsTypeOK'
    BY <1>1, <1>5, <1>8, TypesKept DEF ObjectsTypeOK, TypeOK
  <1> QED  BY <1>6, <1>9, <1>10 DEF ObjectsInv, RefersAsKind, SessionKeepsConnection

(* A move, whatever became of the session that the target had before.      *)
LEMMA MoveInv ==
    ASSUME ObjectsInv, NEW o \in Objects, NEW d \in Objects, o # d, Exists(d),
           obj' = [obj EXCEPT ![o] = MovedTo(o, obj[d]), ![d] = Taken(@)],
           at' = MovedAt(o, d),
           \A e \in Sessions : ssl'[e] # Null <=> ssl[e] # Null /\ e # obj[o].ssl,
           \A e \in Sessions : e \in bios' <=> e \in bios /\ e # obj[o].bio,
           \A e \in Sessions : e # obj[o].ssl => home'[e] = home[e]
    PROVE  /\ SessionHasOneOwner' /\ RefersAsKind' /\ SessionKeepsConnection'
           /\ obj' \in [Objects -> Object]
           /\ at' \in [Locations -> Connections \union {NoConn}]
  <1> DEFINE m == MovedTo(o, obj[d])
             t == Taken(obj[d])
  <1>1. /\ obj \in [Objects -> Object] /\ obj[d] \in Object /\ Null \notin Sessions
        /\ at \in [Locations -> Connections \union {NoConn}]
        /\ o \in Locations /\ d \in Locations
    BY ContextAssumption DEF ObjectsInv, ObjectsTypeOK, Locations
  <1>2. obj' = [obj EXCEPT ![o] = m, ![d] = t]
    BY Zenon
  <1>3. /\ m \in Object /\ m.kind = obj[d].kind /\ m.ssl = obj[d].ssl
        /\ m.bio = obj[d].bio /\ m.held = obj[d].held
        /\ obj[d].kind = "stream" => /\ m.inner = o /\ m.input = o /\ m.output = o
                                     /\ Rebound(m) = m
        /\ obj[d].kind \notin {"stream"} => m = obj[d]
    <2>1. CASE obj[d].kind = "borrowing"
      <3>1. m = Rebound(obj[d])
        BY <1>1, <2>1, MovedFields
      <3>2. m = obj[d]
        BY <2>1, <3>1, RefersToOne
      <3> QED  BY <1>1, <2>1, <3>2
    <2>2. CASE obj[d].kind # "borrowing"
      BY <1>1, <2>2, MovedFields
    <2> QED  BY <2>1, <2>2
  <1>4. /\ t \in Object /\ t.kind = obj[d].kind /\ t.inner = obj[d].inner
        /\ t.input = obj[d].input /\ t.output = obj[d].output
        /\ t.ssl = Null /\ t.bio = Null
        /\ Rebound(obj[d]) = obj[d] => Rebound(t) = t
    BY <1>1, TakenFields
  <1> HIDE DEF m, t
  <1>5. obj'[o] = m /\ obj'[d] = t /\ (\A x \in Objects \ {o, d} : obj'[x] = obj[x])
        /\ obj' \in [Objects -> Object]
    BY <1>1, <1>2, <1>3, <1>4
  <1>6. SessionHasOneOwner'
    BY <1>3, <1>4, <1>5, OwnersAfterMove
  <1>7. /\ at' \in [Locations -> Connections \union {NoConn}]
        /\ \A l \in Locations \ {o, d} : at'[l] = at[l]
        /\ obj[d].kind = "stream" => at'[o] = at[d]
        /\ obj[d].kind # "stream" => at' = at
    <2>1. CASE obj[d].kind = "stream"
      <3>1. at' = [at EXCEPT ![o] = at[d], ![d] = NoConn]
        BY <2>1 DEF MovedAt
      <3> QED  BY <1>1, <2>1, <3>1
    <2>2. CASE obj[d].kind # "stream"
      <3>1. at' = at
        BY <2>2 DEF MovedAt
      <3> QED  BY <1>1, <2>2, <3>1
    <2> QED  BY <2>1, <2>2
  <1>8. obj[d].ssl # Null => home'[obj[d].ssl] = home[obj[d].ssl]
    BY OthersSession
  <1>9. RefersAsItsKind(d) /\ KeepsConnection(d)
    BY DEF ObjectsInv, RefersAsKind, SessionKeepsConnection
  <1>10. /\ obj[d].kind \in Kinds
         /\ obj[d].kind = "borrowing" => obj[d].inner \in Locations \ {o, d}
    BY FieldTypes, RefersToOne, ObjectAssumption DEF Exists, Locations
  <1>11. ASSUME NEW x \in Objects  PROVE RefersAsItsKind(x)' /\ KeepsConnection(x)'
    <2>1. CASE x = o
      <3>1. CASE obj[d].kind = "stream"
        <4>1. RefersAsItsKind(x)'
          BY <2>1, <3>1, <1>3, <1>5 DEF RefersAsItsKind
        <4>2. obj[d].input = d /\ obj[d].output = d
          BY <3>1, RefersToOne
        <4>3. KeepsConnection(x)'
          BY <2>1, <3>1, <4>2, <1>3, <1>5, <1>7, <1>8, <1>9 DEF KeepsConnection
        <4> QED  BY <4>1, <4>3
      <3>2. CASE obj[d].kind = "borrowing"
        <4>1. m = obj[d] /\ at'[obj[d].inner] = at[obj[d].inner]
          BY <3>2, <1>3, <1>7, <1>10
        <4>2. RefersAsItsKind(x)'
          BY <2>1, <3>2, <4>1, <1>5, <1>9 DEF RefersAsItsKind
        <4>3. obj[d].input = obj[d].inner /\ obj[d].output = obj[d].inner
          BY <3>2, RefersToOne
        <4>4. KeepsConnection(x)'
          BY <2>1, <3>2, <4>1, <4>3, <1>5, <1>8, <1>9 DEF KeepsConnection
        <4> QED  BY <4>2, <4>4
      <3>3. CASE obj[d].kind = "engine"
        <4>1. m = obj[d]
          BY <3>3, <1>3
        <4> QED  BY <2>1, <3>3, <4>1, <1>5, <1>9 DEF RefersAsItsKind, KeepsConnection
      <3> QED  BY <3>1, <3>2, <3>3, <1>10 DEF Kinds
    <2>2. CASE x = d
      <3>1. KeepsConnection(x)'
        BY <2>2, <1>4, <1>5 DEF KeepsConnection
      <3>2. CASE obj[d].kind = "stream"
        BY <2>2, <3>1, <3>2, <1>4, <1>5, RefersToOne DEF RefersAsItsKind
      <3>3. CASE obj[d].kind = "borrowing"
        <4>1. at'[obj[d].inner] = at[obj[d].inner]
          BY <3>3, <1>7, <1>10
        <4> QED  BY <2>2, <3>1, <3>3, <4>1, <1>4, <1>5, RefersToOne DEF RefersAsItsKind
      <3>4. CASE obj[d].kind = "engine"
        BY <2>2, <3>1, <3>4, <1>4, <1>5, <1>9 DEF RefersAsItsKind
      <3> QED  BY <3>2, <3>3, <3>4, <1>10 DEF Kinds
    <2>3. CASE x \notin {o, d}
      <3>1. obj[x].kind \in {"stream", "borrowing"} => obj[x].inner \in Locations \ {o, d}
        BY <2>3, RefersToOne, ObjectAssumption DEF Locations
      <3>2. obj[x].ssl # Null => home'[obj[x].ssl] = home[obj[x].ssl]
        BY <2>3, OthersSession
      <3> QED  BY <2>3, <3>1, <3>2, <1>5, <1>7, Untouched
    <2> QED  BY <2>1, <2>2, <2>3
  <1> QED  BY <1>5, <1>6, <1>7, <1>11 DEF RefersAsKind, SessionKeepsConnection

(* The move constructor: the target had no session before. *)
LEMMA MoveConstructObjectInv ==
    ASSUME ObjectsInv, NEW o \in Objects, NEW d \in Objects, MoveConstructObject(o, d)
    PROVE  ObjectsInv'
  <1>1. o # d /\ Exists(d) /\ obj[o] = Gone
    BY DEF MoveConstructObject, Exists, ObjectsInv, RefersAsKind, RefersAsItsKind
  <1>2. /\ UNCHANGED build /\ UNCHANGED ctx /\ UNCHANGED refs /\ UNCHANGED ssl
        /\ UNCHANGED bios /\ UNCHANGED home
        /\ obj' = [obj EXCEPT ![o] = MovedTo(o, obj[d]), ![d] = Taken(@)]
        /\ at' = MovedAt(o, d)
    BY DEF MoveConstructObject, vars, ctxVars
  <1>3. \A e \in Sessions : e # obj[o].ssl /\ e # obj[o].bio
    BY <1>1, GoneFields, ContextAssumption
  <1>4. /\ SessionHasOneOwner' /\ RefersAsKind' /\ SessionKeepsConnection'
        /\ obj' \in [Objects -> Object]
        /\ at' \in [Locations -> Connections \union {NoConn}]
    <2>1. /\ \A e \in Sessions : ssl'[e] # Null <=> ssl[e] # Null /\ e # obj[o].ssl
          /\ \A e \in Sessions : e \in bios' <=> e \in bios /\ e # obj[o].bio
          /\ \A e \in Sessions : e # obj[o].ssl => home'[e] = home[e]
      BY <1>2, <1>3
    <2> QED  BY <1>1, <1>2, <2>1, MoveInv
  <1> QED  BY <1>2, <1>4, TypesKept DEF ObjectsInv, ObjectsTypeOK, TypeOK

(* The move assignment: the session of the target ends first. *)
LEMMA MoveAssignObjectInv ==
    ASSUME ObjectsInv, NEW o \in Objects, NEW d \in Objects, MoveAssignObject(o, d)
    PROVE  ObjectsInv'
  <1>1. /\ o # d /\ Exists(d) /\ Free(o) /\ UNCHANGED build /\ UNCHANGED ctx
        /\ obj' = [obj EXCEPT ![o] = MovedTo(o, obj[d]), ![d] = Taken(@)]
        /\ at' = MovedAt(o, d)
    BY DEF MoveAssignObject, Exists
  <1>2. /\ SessionHasOneOwner' /\ RefersAsKind' /\ SessionKeepsConnection'
        /\ obj' \in [Objects -> Object]
        /\ at' \in [Locations -> Connections \union {NoConn}]
    BY <1>1, FreeFacts, MoveInv
  <1> QED  BY <1>1, <1>2, FreeFacts, TypesKept DEF ObjectsInv, ObjectsTypeOK, TypeOK

(* The destructor ends the session with the object. *)
LEMMA DestroyObjectInv ==
    ASSUME ObjectsInv, NEW o \in Objects, DestroyObject(o)
    PROVE  ObjectsInv'
  <1>1. /\ Free(o) /\ UNCHANGED build /\ UNCHANGED ctx /\ obj \in [Objects -> Object]
        /\ at \in [Locations -> Connections \union {NoConn}] /\ o \in Locations
        /\ obj' = [obj EXCEPT ![o] = Gone]
    BY DEF DestroyObject, ObjectsInv, ObjectsTypeOK, Locations
  <1>2. obj'[o] = Gone /\ (\A x \in Objects \ {o} : obj'[x] = obj[x])
        /\ obj' \in [Objects -> Object]
    BY <1>1, GoneFields
  <1>3. SessionHasOneOwner'
    BY <1>1, <1>2, FreeFacts, OwnersAfterEnd
  <1>4. /\ at' \in [Locations -> Connections \union {NoConn}]
        /\ \A l \in Locations \ {o} : at'[l] = at[l]
    BY <1>1 DEF DestroyObject
  <1>5. ASSUME NEW x \in Objects  PROVE RefersAsItsKind(x)' /\ KeepsConnection(x)'
    <2>1. CASE x = o
      BY <2>1, <1>2, GoneFields DEF RefersAsItsKind, KeepsConnection
    <2>2. CASE x # o
      <3>1. obj[x].kind \in {"stream", "borrowing"} => obj[x].inner \in Locations \ {o}
        BY <2>2, RefersToOne, ObjectAssumption DEF Locations
      <3>2. obj[x].ssl # Null => home'[obj[x].ssl] = home[obj[x].ssl]
        BY <2>2, <1>1, FreeFacts, OthersSession
      <3> QED  BY <2>2, <3>1, <3>2, <1>2, <1>4, Untouched
    <2> QED  BY <2>1, <2>2
  <1>6. ObjectsTypeOK'
    BY <1>1, <1>2, <1>4, FreeFacts, TypesKept DEF ObjectsTypeOK, TypeOK
  <1> QED  BY <1>3, <1>5, <1>6 DEF ObjectsInv, RefersAsKind, SessionKeepsConnection

(* Reading and writing changes no pointer. *)
LEMMA UseInv ==
    ASSUME ObjectsInv, NEW o \in Objects, Use(o)
    PROVE  ObjectsInv'
  <1>1. PICK held \in {Null, obj[o].ssl} : obj' = [obj EXCEPT ![o].held = held]
    BY DEF Use
  <1> DEFINE r == [obj[o] EXCEPT !.held = held]
  <1>2. /\ obj \in [Objects -> Object] /\ obj[o] \in Object
        /\ UNCHANGED build /\ UNCHANGED ctx /\ UNCHANGED refs /\ UNCHANGED ssl
        /\ UNCHANGED bios /\ UNCHANGED at /\ UNCHANGED home
    BY DEF ObjectsInv, ObjectsTypeOK, Use, vars, ctxVars
  <1>3. held \in Sessions \union {Null}
    BY FieldTypes
  <1>4. /\ r \in Object /\ r.kind = obj[o].kind /\ r.ssl = obj[o].ssl /\ r.bio = obj[o].bio
        /\ r.inner = obj[o].inner /\ r.input = obj[o].input /\ r.output = obj[o].output
        /\ r.held = held
    BY <1>2, <1>3 DEF Object
  <1>5. obj' = [obj EXCEPT ![o] = r]
    BY <1>1, <1>2
  <1> HIDE DEF r
  <1>6. obj'[o] = r /\ (\A x \in Objects \ {o} : obj'[x] = obj[x])
        /\ obj' \in [Objects -> Object]
    BY <1>2, <1>4, <1>5
  <1>7. SessionHasOneOwner'
    BY <1>2, <1>4, <1>6, OwnersSame
  <1>8. obj[o].kind # "none"
    BY GoneFields DEF Use, ObjectsInv, RefersAsKind, RefersAsItsKind
  <1>9. ASSUME NEW x \in Objects  PROVE RefersAsItsKind(x)' /\ KeepsConnection(x)'
    <2>1. CASE x = o
      <3>1. RefersAsItsKind(o) /\ KeepsConnection(o)
        BY DEF ObjectsInv, RefersAsKind, SessionKeepsConnection
      <3>2. obj[o].kind \in {"stream", "borrowing"} => Rebound(r) = r
        BY <1>4, ReboundAlready, RefersToOne
      <3>3. RefersAsItsKind(x)'
        <4>1. obj[o].kind \in Kinds
          BY <1>8, FieldTypes
        <4> QED  BY <2>1, <3>1, <3>2, <4>1, <1>2, <1>4, <1>6 DEF RefersAsItsKind, Kinds
      <3>4. KeepsConnection(x)'
        BY <2>1, <3>1, <1>2, <1>4, <1>6 DEF KeepsConnection
      <3> QED  BY <3>3, <3>4
    <2>2. CASE x # o
      BY <2>2, <1>2, <1>6, Untouched
    <2> QED  BY <2>1, <2>2
  <1>10. ObjectsTypeOK'
    BY <1>2, <1>6, TypesKept DEF ObjectsTypeOK, TypeOK
  <1> QED  BY <1>7, <1>9, <1>10 DEF ObjectsInv, RefersAsKind, SessionKeepsConnection

(* A new connection at a place to which nothing refers. *)
LEMMA DialInv ==
    ASSUME ObjectsInv, NEW k \in Places, Dial(k)
    PROVE  ObjectsInv'
  <1>1. /\ UNCHANGED build /\ UNCHANGED ctx /\ UNCHANGED refs /\ UNCHANGED ssl
        /\ UNCHANGED obj /\ UNCHANGED bios /\ UNCHANGED home
        /\ obj \in [Objects -> Object] /\ k \in Locations /\ at[k] = NoConn
        /\ at \in [Locations -> Connections \union {NoConn}]
    BY DEF Dial, vars, ctxVars, ObjectsInv, ObjectsTypeOK, Locations
  <1>2. PICK n \in Connections : at' = [at EXCEPT ![k] = n]
    BY DEF Dial
  <1>3. /\ at' \in [Locations -> Connections \union {NoConn}]
        /\ \A l \in Locations \ {k} : at'[l] = at[l]
    BY <1>1, <1>2
  <1>4. ASSUME NEW x \in Objects  PROVE RefersAsItsKind(x)' /\ KeepsConnection(x)'
    <2>1. obj[x].kind \in {"stream", "borrowing"} => obj[x].inner \in Locations \ {k}
      BY <1>1, RefersToOne, ObjectAssumption DEF Locations
    <2> QED  BY <1>1, <1>3, <2>1, Untouched
  <1>5. SessionHasOneOwner'
    BY <1>1, OwnersSame
  <1>6. ObjectsTypeOK'
    BY <1>1, <1>3, TypesKept DEF ObjectsTypeOK, TypeOK
  <1> QED  BY <1>4, <1>5, <1>6 DEF ObjectsInv, RefersAsKind, SessionKeepsConnection

(* What contexts do leaves the objects over them alone. *)
LEMMA ContextInv ==
    ASSUME ObjectsInv, Next, UNCHANGED objVars
    PROVE  ObjectsInv'
  <1>1. /\ UNCHANGED obj /\ UNCHANGED bios /\ UNCHANGED at /\ UNCHANGED home
    BY DEF objVars
  <1>2. /\ ctx \in [Contexts -> Pointers \union {Dead, Null}] /\ refs \in [Pointers -> Int]
    BY DEF ObjectsInv, ObjectsTypeOK, TypeOK
  <1> DEFINE Typed == /\ UNCHANGED build /\ UNCHANGED ssl
                      /\ ctx' \in [Contexts -> Pointers \union {Dead, Null}]
                      /\ refs' \in [Pointers -> Int]
  <1>3. Typed
    <2>1. ASSUME NEW c \in Contexts, NEW pr \in Protocols, Construct(c, pr)  PROVE Typed
      BY <1>2, <2>1 DEF Construct
    <2>2. ASSUME NEW c \in Contexts, Destroy(c)  PROVE Typed
      BY <1>2, <2>2 DEF Destroy, AfterClose
    <2>3. ASSUME NEW c \in Contexts, NEW d \in Contexts, MoveConstruct(c, d)  PROVE Typed
      BY <1>2, <2>3 DEF MoveConstruct
    <2>4. ASSUME NEW c \in Contexts, NEW d \in Contexts, MoveAssign(c, d)  PROVE Typed
      BY <1>2, <2>4 DEF MoveAssign, AfterClose
    <2> QED  BY <2>1, <2>2, <2>3, <2>4 DEF Next
  <1>4. ASSUME NEW x \in Objects  PROVE RefersAsItsKind(x)' /\ KeepsConnection(x)'
    BY <1>1, Untouched
  <1>5. SessionHasOneOwner'
    BY <1>1, <1>3, OwnersSame
  <1>6. ObjectsTypeOK'
    BY <1>1, <1>3, TypesKept DEF ObjectsTypeOK, TypeOK, ObjectsInv
  <1> QED  BY <1>4, <1>5, <1>6 DEF ObjectsInv, RefersAsKind, SessionKeepsConnection

-----------------------------------------------------------------------------
(* Every step keeps the inductive invariant, one lemma for each action. *)
LEMMA NextInv == ObjectsInv /\ [ObjectsNext]_ObjectsVars => ObjectsInv'
  <1> SUFFICES ASSUME ObjectsInv, [ObjectsNext]_ObjectsVars  PROVE ObjectsInv'
    OBVIOUS
  <1>1. CASE Next /\ UNCHANGED objVars
    BY <1>1, ContextInv
  <1>2. ASSUME NEW o \in Objects, NEW c \in Contexts, Build(o, c)  PROVE ObjectsInv'
    BY <1>2, ConstructStreamInv, ConstructStreamThrowsInv, ConstructBorrowingInv,
       ConstructEngineInv DEF Build
  <1>3. ASSUME NEW o \in Objects, Rebind(o)  PROVE ObjectsInv'
    BY <1>3, RebindNextLayerInv, RebindEngineInv DEF Rebind
  <1>4. ASSUME NEW o \in Objects, Use(o) \/ DestroyObject(o)  PROVE ObjectsInv'
    BY <1>4, UseInv, DestroyObjectInv
  <1>5. ASSUME NEW o \in Objects, NEW d \in Objects, Move(o, d)  PROVE ObjectsInv'
    BY <1>5, MoveConstructObjectInv, MoveAssignObjectInv, AdoptEngineInv DEF Move
  <1>6. ASSUME NEW k \in Places, Dial(k)  PROVE ObjectsInv'
    BY <1>6, DialInv
  <1>7. CASE UNCHANGED ObjectsVars
    <2>1. /\ UNCHANGED build /\ UNCHANGED ctx /\ UNCHANGED refs /\ UNCHANGED ssl
          /\ UNCHANGED obj /\ UNCHANGED bios /\ UNCHANGED at /\ UNCHANGED home
      BY <1>7 DEF ObjectsVars, vars, ctxVars, objVars
    <2>2. ASSUME NEW x \in Objects  PROVE RefersAsItsKind(x)' /\ KeepsConnection(x)'
      BY <2>1, Untouched
    <2>3. SessionHasOneOwner' /\ ObjectsTypeOK'
      BY <2>1, OwnersSame, TypesKept DEF ObjectsTypeOK, TypeOK, ObjectsInv
    <2> QED  BY <2>2, <2>3 DEF ObjectsInv, RefersAsKind, SessionKeepsConnection
  <1> QED  BY <1>1, <1>2, <1>3, <1>4, <1>5, <1>6, <1>7 DEF ObjectsNext

(* Nothing exists at first. *)
LEMMA InitInv == ObjectsInit => ObjectsInv
  <1> SUFFICES ASSUME ObjectsInit  PROVE ObjectsInv
    OBVIOUS
  <1>1. /\ build \in [release : Releases, disabled : SUBSET {SSL2, SSL3}]
        /\ ctx = [c \in Contexts |-> Dead] /\ refs = [p \in Pointers |-> 0]
        /\ ssl = [e \in Sessions |-> Null] /\ obj = [o \in Objects |-> Gone] /\ bios = {}
        /\ at = [l \in Locations |-> NoConn] /\ home = [e \in Sessions |-> NoConn]
    BY DEF ObjectsInit, Init
  <1>2. ObjectsTypeOK
    BY <1>1, GoneFields DEF ObjectsTypeOK, TypeOK
  <1>3. SessionHasOneOwner
    BY <1>1, GoneFields, ContextAssumption DEF SessionHasOneOwner
  <1>4. \A o \in Objects : RefersAsItsKind(o) /\ KeepsConnection(o)
    BY <1>1, GoneFields DEF RefersAsItsKind, KeepsConnection
  <1> QED  BY <1>2, <1>3, <1>4 DEF ObjectsInv, RefersAsKind, SessionKeepsConnection

(* The inductive invariant of TLS streams and engines.                     *)
THEOREM ObjectsInvariance == ObjectsSpec => []ObjectsInv
  <1>1. ObjectsInv /\ [ObjectsNext]_<<vars, objVars>> => ObjectsInv'
    BY NextInv DEF ObjectsVars
  <1> QED  BY InitInv, <1>1, PTL DEF ObjectsSpec

(* Each SSL object and each BIO has one owner, and none leaks.             *)
THEOREM OwnerCorrect == ObjectsSpec => []SessionHasOneOwner
  <1>1. ObjectsInv => SessionHasOneOwner
    BY DEF ObjectsInv
  <1> QED  BY <1>1, ObjectsInvariance, PTL

(* A TLS stream stays on the connection it was given, in both directions.  *)
THEOREM ConnectionCorrect == ObjectsSpec => []SessionKeepsConnection
  <1>1. ObjectsInv => SessionKeepsConnection
    BY DEF ObjectsInv
  <1> QED  BY <1>1, ObjectsInvariance, PTL

-----------------------------------------------------------------------------
(* The references to an SSL_CTX.                                           *)
Holders(f, S, p) == {x \in S : f[x] = p}

One(condition) == IF condition THEN 1 ELSE 0

SameBut(f, g, S, x) == \A y \in S \ {x} : g[y] = f[y]

(* How many hold a pointer, when one of them changes what it holds.        *)
LEMMA CountAfterChange ==
    ASSUME NEW S, IsFiniteSet(S), NEW f, NEW g, NEW x \in S, NEW p,
           SameBut(f, g, S, x)
    PROVE  /\ Cardinality(Holders(f, S, p)) \in Nat
           /\ Cardinality(Holders(g, S, p))
                 = Cardinality(Holders(f, S, p)) - One(f[x] = p) + One(g[x] = p)
  <1> DEFINE A == {y \in S \ {x} : f[y] = p}
  <1>1. IsFiniteSet(A)
    BY FS_Subset
  <1>2. Cardinality(A) \in Nat /\ Cardinality(A \union {x}) = Cardinality(A) + 1
    BY <1>1, FS_CardinalityType, FS_AddElement
  <1>3. Holders(f, S, p) = IF f[x] = p THEN A \union {x} ELSE A
    BY DEF Holders
  <1>4. Holders(g, S, p) = IF g[x] = p THEN A \union {x} ELSE A
    BY DEF Holders, SameBut
  <1> HIDE DEF A
  <1>5. Cardinality(Holders(f, S, p)) = Cardinality(A) + One(f[x] = p)
    BY <1>2, <1>3 DEF One
  <1>6. Cardinality(Holders(g, S, p)) = Cardinality(A) + One(g[x] = p)
    BY <1>2, <1>4 DEF One
  <1>7. One(f[x] = p) \in Nat /\ One(g[x] = p) \in Nat
    BY DEF One
  <1> QED  BY <1>2, <1>5, <1>6, <1>7

(* A count of holders is a number, and zero when there are none. *)
LEMMA CountType ==
    ASSUME NEW S, IsFiniteSet(S), NEW f, NEW p
    PROVE  /\ Cardinality(Holders(f, S, p)) \in Nat
           /\ Cardinality(Holders(f, S, p)) = 0 => \A x \in S : f[x] # p
  <1>1. IsFiniteSet(Holders(f, S, p))
    BY FS_Subset DEF Holders
  <1>2. Cardinality(Holders(f, S, p)) = 0 => Holders(f, S, p) = {}
    BY <1>1, FS_EmptySet
  <1> QED  BY <1>1, <1>2, FS_CardinalityType DEF Holders

(* EachReferenceOwned, over the sets that are counted. *)
LEMMA OwnedMeans ==
    EachReferenceOwned <=>
        /\ \A p \in Pointers : refs[p] = Cardinality(Holders(ctx, Contexts, p))
                                        + Cardinality(Holders(ssl, Sessions, p))
        /\ \A c, d \in Contexts : ctx[c] = ctx[d] /\ ctx[c] \in Pointers => c = d
  BY DEF EachReferenceOwned, Holders

(* The same in the next state. *)
LEMMA OwnedMeansNext ==
    EachReferenceOwned' <=>
        /\ \A p \in Pointers : refs'[p] = Cardinality(Holders(ctx', Contexts, p))
                                         + Cardinality(Holders(ssl', Sessions, p))
        /\ \A c, d \in Contexts : ctx'[c] = ctx'[d] /\ ctx'[c] \in Pointers => c = d
  BY DEF EachReferenceOwned, Holders

(* A new SSL object counts on the SSL_CTX of its context. *)
LEMMA NewSessionOwned ==
    ASSUME ObjectsInv, EachReferenceOwned, UNCHANGED ctx,
           NEW c \in Contexts, NEW e \in Sessions, NEW conn, NEW bio,
           NewSession(c, e, conn, bio)
    PROVE  EachReferenceOwned'
  <1>1. /\ ssl \in [Sessions -> Pointers \union {Null}] /\ refs \in [Pointers -> Int]
        /\ Null \notin Pointers /\ IsFiniteSet(Sessions) /\ IsFiniteSet(Contexts)
    BY ContextAssumption DEF ObjectsInv, ObjectsTypeOK, TypeOK
  <1>2. /\ ctx[c] \in Pointers /\ ssl[e] = Null
        /\ ssl'[e] = ctx[c] /\ SameBut(ssl, ssl', Sessions, e)
        /\ refs' = [refs EXCEPT ![ctx[c]] = @ + 1]
    BY <1>1 DEF NewSession, SameBut
  <1>3. ASSUME NEW p \in Pointers
        PROVE refs'[p] = Cardinality(Holders(ctx', Contexts, p))
                         + Cardinality(Holders(ssl', Sessions, p))
    <2>1. Cardinality(Holders(ctx, Contexts, p)) \in Nat
      BY <1>1, CountType
    <2>2. /\ Cardinality(Holders(ssl, Sessions, p)) \in Nat
          /\ Cardinality(Holders(ssl', Sessions, p))
                = Cardinality(Holders(ssl, Sessions, p)) - One(ssl[e] = p) + One(ssl'[e] = p)
      BY <1>1, <1>2, CountAfterChange
    <2>3. One(ssl[e] = p) = 0 /\ One(ssl'[e] = p) = One(ctx[c] = p) /\ One(ctx[c] = p) \in Nat
      BY <1>1, <1>2 DEF One
    <2>4. refs'[p] = refs[p] + One(ctx[c] = p)
      BY <1>1, <1>2 DEF One
    <2>5. refs[p] = Cardinality(Holders(ctx, Contexts, p))
                    + Cardinality(Holders(ssl, Sessions, p))
      BY OwnedMeans
    <2> QED  BY <2>1, <2>2, <2>3, <2>4, <2>5
  <1> QED  BY <1>3, OwnedMeans, OwnedMeansNext

(* SSL_free gives up the reference the SSL object held. *)
LEMMA FreeOwned ==
    ASSUME ObjectsInv, EachReferenceOwned, UNCHANGED ctx, NEW o \in Objects, Free(o)
    PROVE  EachReferenceOwned'
  <1>1. /\ ssl \in [Sessions -> Pointers \union {Null}] /\ refs \in [Pointers -> Int]
        /\ Null \notin Pointers /\ Null \notin Sessions
        /\ IsFiniteSet(Sessions) /\ IsFiniteSet(Contexts)
    BY ContextAssumption DEF ObjectsInv, ObjectsTypeOK, TypeOK
  <1>2. obj[o].ssl \in Sessions \union {Null}
    BY FieldTypes
  <1>3. CASE obj[o].ssl = Null
    <2>1. ssl' = ssl
      BY <1>1, <1>3 DEF Free
    <2>2. refs' = refs
      BY <1>1, <1>3 DEF Free
    <2> QED  BY <2>1, <2>2, OwnedMeans, OwnedMeansNext
  <1>4. CASE obj[o].ssl # Null
    <2> DEFINE e == obj[o].ssl
    <2>1. /\ e \in Sessions /\ ssl'[e] = Null
          /\ SameBut(ssl, ssl', Sessions, e)
      BY <1>1, <1>2, <1>4 DEF Free, SameBut
    <2>2. ASSUME NEW p \in Pointers
          PROVE refs'[p] = Cardinality(Holders(ctx', Contexts, p))
                           + Cardinality(Holders(ssl', Sessions, p))
      <3>1. refs'[p] = refs[p] - One(ssl[e] = p)
        BY <1>1, <1>4 DEF Free, One
      <3> HIDE DEF e
      <3>2. Cardinality(Holders(ctx, Contexts, p)) \in Nat
        BY <1>1, CountType
      <3>3. /\ Cardinality(Holders(ssl, Sessions, p)) \in Nat
            /\ Cardinality(Holders(ssl', Sessions, p))
                  = Cardinality(Holders(ssl, Sessions, p)) - One(ssl[e] = p) + One(ssl'[e] = p)
        BY <1>1, <2>1, CountAfterChange
      <3>4. One(ssl'[e] = p) = 0 /\ One(ssl[e] = p) \in Nat
        BY <1>1, <2>1 DEF One
      <3>5. refs[p] = Cardinality(Holders(ctx, Contexts, p))
                      + Cardinality(Holders(ssl, Sessions, p))
        BY OwnedMeans
      <3> QED  BY <3>1, <3>2, <3>3, <3>4, <3>5
    <2> QED  BY <2>2, OwnedMeans, OwnedMeansNext
  <1> QED  BY <1>3, <1>4

(* The constructor, the destructor and the moves of a context.             *)
LEMMA ContextOwned ==
    ASSUME ObjectsInv, EachReferenceOwned, Next
    PROVE  EachReferenceOwned'
  <1>1. /\ ctx \in [Contexts -> Pointers \union {Dead, Null}] /\ refs \in [Pointers -> Int]
        /\ Null \notin Pointers /\ Dead \notin Pointers
        /\ IsFiniteSet(Sessions) /\ IsFiniteSet(Contexts)
    BY ContextAssumption DEF ObjectsInv, ObjectsTypeOK, TypeOK
  <1>2. UNCHANGED ssl
    BY DEF Next, Construct, Destroy, MoveConstruct, MoveAssign
  <1>3. \A p \in Pointers : /\ Cardinality(Holders(ctx, Contexts, p)) \in Nat
                            /\ Cardinality(Holders(ssl, Sessions, p)) \in Nat
                            /\ refs[p] = Cardinality(Holders(ctx, Contexts, p))
                                         + Cardinality(Holders(ssl, Sessions, p))
    BY <1>1, CountType, OwnedMeans
  <1>4. \A c, d \in Contexts : ctx[c] = ctx[d] /\ ctx[c] \in Pointers => c = d
    BY OwnedMeans
  <1>5. ASSUME NEW c \in Contexts, NEW pr \in Protocols, Construct(c, pr)
        PROVE  EachReferenceOwned'
    <2>1. PICK q \in Pointers : /\ refs[q] = 0 /\ refs' = [refs EXCEPT ![q] = 1]
                               /\ ctx' = [ctx EXCEPT ![c] = q]
      BY <1>5 DEF Construct
    <2>2. ctx[c] = Dead /\ SameBut(ctx, ctx', Contexts, c)
      BY <1>1, <1>5, <2>1 DEF Construct, Alive, SameBut
    <2>3. \A d \in Contexts : ctx[d] # q
      <3>1. Cardinality(Holders(ctx, Contexts, q)) = 0
        BY <1>3, <2>1
      <3> QED  BY <1>1, <3>1, CountType
    <2>4. ASSUME NEW p \in Pointers
          PROVE refs'[p] = Cardinality(Holders(ctx', Contexts, p))
                           + Cardinality(Holders(ssl', Sessions, p))
      <3>1. /\ Cardinality(Holders(ctx, Contexts, p)) \in Nat
            /\ Cardinality(Holders(ctx', Contexts, p))
                  = Cardinality(Holders(ctx, Contexts, p)) - One(ctx[c] = p) + One(ctx'[c] = p)
        BY <1>1, <2>2, CountAfterChange
      <3>2. One(ctx[c] = p) = 0 /\ One(ctx'[c] = p) = One(q = p)
        BY <1>1, <2>1, <2>2 DEF One
      <3>3. refs'[p] = refs[p] + One(q = p)
        BY <1>1, <2>1 DEF One
      <3>4. One(q = p) \in Nat
        BY DEF One
      <3> QED  BY <1>2, <1>3, <3>1, <3>2, <3>3, <3>4
    <2>5. \A a, b \in Contexts : ctx'[a] = ctx'[b] /\ ctx'[a] \in Pointers => a = b
      BY <1>1, <1>4, <2>1, <2>3
    <2> QED  BY <2>4, <2>5, OwnedMeansNext
  <1>6. ASSUME NEW c \in Contexts, Destroy(c)
        PROVE  EachReferenceOwned'
    <2>1. ctx' = [ctx EXCEPT ![c] = Dead] /\ refs' = AfterClose(c)
      BY <1>6 DEF Destroy
    <2>2. SameBut(ctx, ctx', Contexts, c)
      BY <1>1, <2>1 DEF SameBut
    <2>3. ASSUME NEW p \in Pointers
          PROVE refs'[p] = Cardinality(Holders(ctx', Contexts, p))
                           + Cardinality(Holders(ssl', Sessions, p))
      <3>1. /\ Cardinality(Holders(ctx, Contexts, p)) \in Nat
            /\ Cardinality(Holders(ctx', Contexts, p))
                  = Cardinality(Holders(ctx, Contexts, p)) - One(ctx[c] = p) + One(ctx'[c] = p)
        BY <1>1, <2>2, CountAfterChange
      <3>2. One(ctx'[c] = p) = 0 /\ One(ctx[c] = p) \in Nat
        BY <1>1, <2>1 DEF One
      <3>3. refs'[p] = refs[p] - One(ctx[c] = p)
        BY <1>1, <2>1 DEF AfterClose, One
      <3> QED  BY <1>2, <1>3, <3>1, <3>2, <3>3
    <2>4. \A a, b \in Contexts : ctx'[a] = ctx'[b] /\ ctx'[a] \in Pointers => a = b
      BY <1>1, <1>4, <2>1
    <2> QED  BY <2>3, <2>4, OwnedMeansNext
  <1>7. ASSUME NEW c \in Contexts, NEW d \in Contexts, c # d,
               ctx' = [ctx EXCEPT ![c] = ctx[d], ![d] = Null],
               \A p \in Pointers : refs'[p] = refs[p] - One(ctx[c] = p)
        PROVE  EachReferenceOwned'
    <2> DEFINE half == [ctx EXCEPT ![c] = ctx[d]]
    <2>1. SameBut(ctx, half, Contexts, c)
      BY <1>1 DEF SameBut
    <2>2. SameBut(half, ctx', Contexts, d)
      BY <1>1, <1>7 DEF SameBut
    <2>3. /\ half[c] = ctx[d] /\ half[d] = ctx[d]
          /\ ctx'[d] = Null /\ ctx'[c] = ctx[d]
          /\ \A a \in Contexts \ {c, d} : ctx'[a] = ctx[a]
      BY <1>1, <1>7
    <2> HIDE DEF half
    <2>4. ASSUME NEW p \in Pointers
          PROVE refs'[p] = Cardinality(Holders(ctx', Contexts, p))
                           + Cardinality(Holders(ssl', Sessions, p))
      <3>1. /\ Cardinality(Holders(ctx, Contexts, p)) \in Nat
            /\ Cardinality(Holders(half, Contexts, p))
                  = Cardinality(Holders(ctx, Contexts, p)) - One(ctx[c] = p) + One(half[c] = p)
        BY <1>1, <2>1, CountAfterChange
      <3>2. /\ Cardinality(Holders(half, Contexts, p)) \in Nat
            /\ Cardinality(Holders(ctx', Contexts, p))
                  = Cardinality(Holders(half, Contexts, p)) - One(half[d] = p) + One(ctx'[d] = p)
        BY <1>1, <2>2, CountAfterChange
      <3>3. One(ctx'[d] = p) = 0 /\ One(ctx[c] = p) \in Nat /\ One(ctx[d] = p) \in Nat
        BY <1>1, <2>3 DEF One
      <3>4. refs'[p] = refs[p] - One(ctx[c] = p)
        BY <1>7
      <3>5. half[c] = ctx[d] /\ half[d] = ctx[d]
        BY <2>3
      <3> QED  BY <1>2, <1>3, <3>1, <3>2, <3>3, <3>4, <3>5
    <2>5. \A a, b \in Contexts : ctx'[a] = ctx'[b] /\ ctx'[a] \in Pointers => a = b
      BY <1>1, <1>4, <1>7, <2>3
    <2> QED  BY <2>4, <2>5, OwnedMeansNext
  <1>8. ASSUME NEW c \in Contexts, NEW d \in Contexts, MoveConstruct(c, d)
        PROVE  EachReferenceOwned'
    <2>1. /\ c # d /\ ctx[c] = Dead /\ refs' = refs
          /\ ctx' = [ctx EXCEPT ![c] = ctx[d], ![d] = Null]
      BY <1>8 DEF MoveConstruct, Alive
    <2>2. \A p \in Pointers : refs'[p] = refs[p] - One(ctx[c] = p)
      BY <1>1, <2>1 DEF One
    <2> QED  BY <1>7, <2>1, <2>2
  <1>9. ASSUME NEW c \in Contexts, NEW d \in Contexts, MoveAssign(c, d)
        PROVE  EachReferenceOwned'
    <2>1. \A p \in Pointers : refs'[p] = refs[p] - One(ctx[c] = p)
      BY <1>1, <1>9 DEF MoveAssign, AfterClose, One
    <2>2. CASE c # d
      <3>1. ctx' = [ctx EXCEPT ![c] = ctx[d], ![d] = Null]
        BY <1>9, <2>2 DEF MoveAssign
      <3> QED  BY <1>7, <2>1, <2>2, <3>1
    <2>3. CASE c = d
      <3>1. ctx' = [ctx EXCEPT ![c] = Null]
        BY <1>9, <2>3 DEF MoveAssign
      <3>2. SameBut(ctx, ctx', Contexts, c)
        BY <1>1, <3>1 DEF SameBut
      <3>3. ASSUME NEW p \in Pointers
            PROVE refs'[p] = Cardinality(Holders(ctx', Contexts, p))
                             + Cardinality(Holders(ssl', Sessions, p))
        <4>1. /\ Cardinality(Holders(ctx, Contexts, p)) \in Nat
              /\ Cardinality(Holders(ctx', Contexts, p))
                    = Cardinality(Holders(ctx, Contexts, p)) - One(ctx[c] = p) + One(ctx'[c] = p)
          BY <1>1, <3>2, CountAfterChange
        <4>2. One(ctx'[c] = p) = 0 /\ One(ctx[c] = p) \in Nat
          BY <1>1, <3>1 DEF One
        <4> QED  BY <1>2, <1>3, <2>1, <4>1, <4>2
      <3>4. \A a, b \in Contexts : ctx'[a] = ctx'[b] /\ ctx'[a] \in Pointers => a = b
        BY <1>1, <1>4, <3>1
      <3> QED  BY <3>3, <3>4, OwnedMeansNext
    <2> QED  BY <2>2, <2>3
  <1> QED  BY <1>5, <1>6, <1>8, <1>9 DEF Next

(* Every step keeps the count of each SSL_CTX true. *)
LEMMA NextOwned ==
    ObjectsInv /\ EachReferenceOwned /\ [ObjectsNext]_ObjectsVars => EachReferenceOwned'
  <1> SUFFICES ASSUME ObjectsInv, EachReferenceOwned, [ObjectsNext]_ObjectsVars
               PROVE  EachReferenceOwned'
    OBVIOUS
  <1>1. ASSUME UNCHANGED ctx, UNCHANGED refs, UNCHANGED ssl  PROVE EachReferenceOwned'
    BY <1>1 DEF EachReferenceOwned
  <1>2. CASE Next
    BY <1>2, ContextOwned
  <1>3. ASSUME NEW o \in Objects, NEW c \in Contexts, Build(o, c)
        PROVE  EachReferenceOwned'
    <2>1. ASSUME NEW k \in Places, ConstructStreamThrows(o, c, k)  PROVE EachReferenceOwned'
      BY <1>1, <2>1 DEF ConstructStreamThrows, vars, ctxVars
    <2>2. ASSUME NEW k \in Places, ConstructStream(o, c, k)  PROVE EachReferenceOwned'
      BY <2>2, NewSessionOwned DEF ConstructStream
    <2>3. ASSUME NEW k \in Places, ConstructBorrowing(o, c, k)  PROVE EachReferenceOwned'
      BY <2>3, NewSessionOwned DEF ConstructBorrowing
    <2>4. ASSUME NEW in \in Places, NEW out \in Places, ConstructEngine(o, c, in, out)
          PROVE  EachReferenceOwned'
      BY <2>4, NewSessionOwned DEF ConstructEngine
    <2> QED  BY <1>3, <2>1, <2>2, <2>3, <2>4 DEF Build
  <1>4. ASSUME NEW o \in Objects, Rebind(o) \/ Use(o)  PROVE EachReferenceOwned'
    BY <1>1, <1>4 DEF Rebind, RebindNextLayer, RebindEngine, Use, vars, ctxVars
  <1>5. ASSUME NEW o \in Objects, DestroyObject(o)  PROVE EachReferenceOwned'
    BY <1>5, FreeOwned DEF DestroyObject
  <1>6. ASSUME NEW o \in Objects, NEW d \in Objects, Move(o, d)  PROVE EachReferenceOwned'
    <2>1. CASE MoveAssignObject(o, d)
      BY <2>1, FreeOwned DEF MoveAssignObject
    <2>2. CASE MoveConstructObject(o, d) \/ \E in, out \in Places : AdoptEngine(o, d, in, out)
      BY <1>1, <2>2 DEF MoveConstructObject, AdoptEngine, vars, ctxVars
    <2> QED  BY <1>6, <2>1, <2>2 DEF Move
  <1>7. ASSUME NEW k \in Places, Dial(k)  PROVE EachReferenceOwned'
    BY <1>1, <1>7 DEF Dial, vars, ctxVars
  <1>8. CASE UNCHANGED ObjectsVars
    BY <1>1, <1>8 DEF ObjectsVars, vars, ctxVars
  <1> QED  BY <1>2, <1>3, <1>4, <1>5, <1>6, <1>7, <1>8 DEF ObjectsNext

(* Nothing holds a pointer at first. *)
LEMMA InitOwned == ObjectsInit => EachReferenceOwned
  <1> SUFFICES ASSUME ObjectsInit  PROVE EachReferenceOwned
    OBVIOUS
  <1>1. /\ ctx = [c \in Contexts |-> Dead] /\ refs = [p \in Pointers |-> 0]
        /\ ssl = [e \in Sessions |-> Null] /\ Null \notin Pointers /\ Dead \notin Pointers
    BY ContextAssumption DEF ObjectsInit, Init
  <1>2. \A p \in Pointers : Holders(ctx, Contexts, p) = {} /\ Holders(ssl, Sessions, p) = {}
    BY <1>1 DEF Holders
  <1>3. \A c \in Contexts : ctx[c] \notin Pointers
    BY <1>1
  <1> QED  BY <1>1, <1>2, <1>3, FS_EmptySet, OwnedMeans

(* OpenSSL counts on each SSL_CTX just those that hold it, whatever        *)
(* contexts, streams and engines do, for any number of them.               *)
THEOREM ReferencesCorrect == ObjectsSpec => []EachReferenceOwned
  <1>1. ObjectsInv /\ EachReferenceOwned /\ [ObjectsNext]_<<vars, objVars>>
          => EachReferenceOwned'
    BY NextOwned DEF ObjectsVars
  <1> QED  BY InitOwned, <1>1, ObjectsInvariance, PTL DEF ObjectsSpec

-----------------------------------------------------------------------------
(* The versions of a build, release by release. *)
LEMMA EnabledMeans ==
    ASSUME build \in [release : Releases, disabled : SUBSET {SSL2, SSL3}]
    PROVE  /\ build.release \in {"1.0.0", "1.0.2", "1.1.0", "1.1.1"}
           /\ Enabled \subseteq Versions /\ Versions \subseteq Int
           /\ SSL2 \in Enabled <=> ~OpenSSL_1_1_0_Or_Greater /\ SSL2 \notin build.disabled
           /\ SSL3 \in Enabled <=> SSL3 \notin build.disabled
           /\ TLS1 \in Enabled
           /\ TLS1_1 \in Enabled <=> build.release # "1.0.0"
           /\ TLS1_2 \in Enabled <=> build.release # "1.0.0"
           /\ TLS1_3 \in Enabled <=> OpenSSL_1_1_1_Or_Greater
           /\ TLS1_1 \in Implemented(build.release) <=> TLS1_1 \in Enabled
           /\ TLS1_2 \in Implemented(build.release) <=> TLS1_2 \in Enabled
  <1>1. /\ build.release \in {"1.0.0", "1.0.2", "1.1.0", "1.1.1"}
        /\ build.disabled \subseteq {0, 1}
    BY ContextAssumption DEF SSL2, SSL3
  <1>2. \A v : v \in Implemented(build.release) <=>
                  \/ build.release = "1.0.0" /\ v \in 0..2
                  \/ build.release = "1.0.2" /\ v \in 0..4
                  \/ build.release = "1.1.0" /\ v \in 1..4
                  \/ build.release = "1.1.1" /\ v \in 1..5
    BY <1>1 DEF Implemented, SSL2, SSL3, TLS1, TLS1_2, TLS1_3
  <1>3. \A v : v \in Enabled <=> v \in Implemented(build.release) /\ v \notin build.disabled
    BY DEF Enabled
  <1> QED
    BY <1>1, <1>2, <1>3 DEF OpenSSL_1_1_0_Or_Greater, OpenSSL_1_1_1_Or_Greater,
                            Versions, SSL2, SSL3, TLS1, TLS1_1, TLS1_2, TLS1_3

(* What an SSL_CTX for one version negotiates, and one for none. *)
LEMMA FixedOffers ==
    ASSUME NEW pr, NEW version \in Versions
    PROVE  /\ Offers(Fixed(pr, version)) = {version} \intersect Enabled
           /\ Offers(Unsupported) = {}
  BY DEF Offers, Fixed, Unsupported, Ctx

(* S holds the versions within these bounds. *)
Within(S, min, max, excluded) ==
    \A v \in Versions : v \in S <=> min <= v /\ v <= max /\ v \notin excluded

(* What one for a range of them does. *)
LEMMA FlexibleOffers ==
    ASSUME NEW pr, NEW min, NEW max, NEW excluded, NEW S,
           Enabled \subseteq Versions, Within(S, min, max, excluded)
    PROVE  Offers(Flexible(pr, min, max, excluded)) = S \intersect Enabled
  BY DEF Within, Offers, Flexible, Ctx

(* A version with a name of its own is negotiated where the build has it,  *)
(* if its method is there in the releases without bounds.                  *)
LEMMA BoundedOffers ==
    ASSUME NEW pr, NEW version \in Versions, NEW available,
           Enabled \subseteq Versions,
           ~OpenSSL_1_1_0_Or_Greater => (available <=> version \in Enabled)
    PROVE  Offers(Bounded(pr, version, available)) = {version} \intersect Enabled
  <1>1. CASE OpenSSL_1_1_0_Or_Greater
    <2>1. Within({version}, version, version, {})
      BY DEF Within, Versions, SSL2, TLS1_3
    <2>2. Offers(Flexible(pr, version, version, {})) = {version} \intersect Enabled
      BY <2>1, FlexibleOffers
    <2> QED  BY <1>1, <2>2 DEF Bounded
  <1>2. CASE ~OpenSSL_1_1_0_Or_Greater /\ available
    BY <1>2, FixedOffers DEF Bounded
  <1>3. CASE ~OpenSSL_1_1_0_Or_Greater /\ ~available
    BY <1>3, FixedOffers DEF Bounded
  <1> QED  BY <1>1, <1>2, <1>3

(* Each protocol, in each release and build. *)
LEMMA MethodOffers ==
    ASSUME build \in [release : Releases, disabled : SUBSET {SSL2, SSL3}]
    PROVE  OffersAsNamed
  <1> USE EnabledMeans
  <1>1. /\ SSL2 \in Versions /\ SSL3 \in Versions /\ TLS1 \in Versions
        /\ TLS1_1 \in Versions /\ TLS1_2 \in Versions /\ TLS1_3 \in Versions
    BY DEF Versions, SSL2, SSL3, TLS1, TLS1_1, TLS1_2, TLS1_3
  <1>2. Offers(Method("ssl_v2")) = Named("ssl_v2") \intersect Enabled
    BY <1>1, FixedOffers DEF Method, Named
  <1>3. Offers(Method("ssl_v3")) = Named("ssl_v3") \intersect Enabled
    BY <1>1, BoundedOffers DEF Method, Named
  <1>4. Offers(Method("tls_v1")) = Named("tls_v1") \intersect Enabled
    BY <1>1, BoundedOffers DEF Method, Named
  <1>5. ~OpenSSL_1_1_0_Or_Greater
           => Offers(Method("tls_v1_1")) = Named("tls_v1_1") \intersect Enabled
    BY <1>1, BoundedOffers DEF Method, Named
  <1>6. Offers(Method("tls_v1_2")) = Named("tls_v1_2") \intersect Enabled
    BY <1>1, BoundedOffers DEF Method, Named
  <1>7. Offers(Method("tls_v1_3")) = Named("tls_v1_3") \intersect Enabled
    <2>1. Within({TLS1_3}, TLS1_3, TLS1_3, {})
      BY DEF Within, Versions, SSL2, TLS1_3
    <2>2. Offers(Flexible("tls_v1_3", TLS1_3, TLS1_3, {})) = {TLS1_3} \intersect Enabled
      BY <2>1, FlexibleOffers
    <2>3. ~OpenSSL_1_1_1_Or_Greater => {TLS1_3} \intersect Enabled = {}
      OBVIOUS
    <2> QED  BY <2>2, <2>3, FixedOffers DEF Method, Named
  <1>8. Offers(Method("ssl_any")) = Named("ssl_any") \intersect Enabled
    <2>1. Within(Versions, SSL2, TLS1_3, {})
      BY DEF Within, Versions, SSL2, TLS1_3
    <2>2. Offers(Flexible("ssl_any", SSL2, TLS1_3, {})) = Versions \intersect Enabled
      BY <2>1, FlexibleOffers
    <2> QED  BY <2>2 DEF Method, Named
  <1>9. Offers(Method("tls_any")) = Named("tls_any") \intersect Enabled
    <2> DEFINE tls == TLS1..TLS1_3
    <2>1. Within(tls, TLS1, TLS1_3, {})
      BY DEF Within, Versions, SSL2, TLS1, TLS1_3
    <2>2. Within(tls, SSL2, TLS1_3, {SSL2, SSL3})
      BY DEF Within, Versions, SSL2, SSL3, TLS1, TLS1_3
    <2> HIDE DEF tls
    <2>3. Offers(Flexible("tls_any", TLS1, TLS1_3, {})) = tls \intersect Enabled
      BY <2>1, FlexibleOffers
    <2>4. Offers(Flexible("tls_any", SSL2, TLS1_3, {SSL2, SSL3})) =
             tls \intersect Enabled
      BY <2>2, FlexibleOffers
    <2> QED  BY <2>3, <2>4 DEF Method, Named, tls
  <1> QED
    BY <1>2, <1>3, <1>4, <1>5, <1>6, <1>7, <1>8, <1>9 DEF OffersAsNamed, Protocols

(* Whatever the release and the build of OpenSSL, every protocol is given  *)
(* just the versions it names, as far as they are there, and refused only  *)
(* if none is: but for tls_v1_1 from 1.1.0 on.                             *)
THEOREM OffersCorrect == ObjectsSpec => []OffersAsNamed
  <1>1. ObjectsInv => OffersAsNamed
    BY MethodOffers DEF ObjectsInv, ObjectsTypeOK, TypeOK
  <1> QED  BY <1>1, ObjectsInvariance, PTL
=============================================================================
