----------------------------- MODULE SslContext -----------------------------
(***************************************************************************)
(* ssl::context: the choice of an OpenSSL method and its version bounds    *)
(* for each protocol name, which the preprocessor makes differently for    *)
(* each release and build of OpenSSL, and the ownership of the SSL_CTX as  *)
(* contexts are made, moved and destroyed.                                 *)
(***************************************************************************)
EXTENDS Integers, FiniteSets

CONSTANTS Contexts,  \* the ssl::context objects
          Pointers,  \* the addresses OpenSSL may give an SSL_CTX
          Sessions,  \* the addresses OpenSSL may give an SSL object
          Releases   \* the releases of OpenSSL the library is built against

Dead == "dead"
Null == "null"

ASSUME ContextAssumption ==
    /\ Releases \subseteq {"1.0.0", "1.0.2", "1.1.0", "1.1.1"}
    /\ Dead \notin Pointers /\ Null \notin Pointers \union Sessions
    /\ IsFiniteSet(Contexts) /\ IsFiniteSet(Sessions)

VARIABLES build,   \* the OpenSSL compiled against: its release and what it leaves out
          ctx,     \* each object: out of its lifetime, or its _ssl_ctx_ptr
          refs,    \* OpenSSL's count of references to the SSL_CTX at each address, 0: none there
          ssl      \* the SSL_CTX each SSL object counts on, Null: no object there

ctxVars == <<build, ctx, refs>>
vars == <<ctxVars, ssl>>

(* SSL and TLS versions in their order. *)
SSL2 == 0
SSL3 == 1
TLS1 == 2
TLS1_1 == 3
TLS1_2 == 4
TLS1_3 == 5
Versions == SSL2..TLS1_3

Protocols == {"ssl_v2", "ssl_v3", "tls_v1", "tls_v1_1", "tls_v1_2", "tls_v1_3",
              "ssl_any", "tls_any"}

-----------------------------------------------------------------------------
(* OpenSSL: the versions of a release, and those left in a build of it.    *)
Implemented(release) == CASE release = "1.0.0" -> SSL2..TLS1
                          [] release = "1.0.2" -> SSL2..TLS1_2
                          [] release = "1.1.0" -> SSL3..TLS1_2
                          [] OTHER             -> SSL3..TLS1_3

Enabled == Implemented(build.release) \ build.disabled

(* An SSL_CTX: a method for some versions, bounds, and excluded versions.  *)
Ctx(pr, fixed, versions, min, max, excluded) ==
    [pr |-> pr, fixed |-> fixed, versions |-> versions, min |-> min, max |-> max,
     excluded |-> excluded]

(* The versions it negotiates.  A method for one version does not look at  *)
(* the bounds.                                                             *)
Offers(c) == {v \in c.versions \intersect Enabled :
                 c.fixed \/ (c.min <= v /\ v <= c.max /\ v \notin c.excluded)}

-----------------------------------------------------------------------------
(* The preprocessor conditions. *)
OpenSSL_1_1_0_Or_Greater == build.release \in {"1.1.0", "1.1.1"}
OpenSSL_1_1_1_Or_Greater == build.release = "1.1.1"

(* LOAD_METHOD of a method for one version, and of TLS or SSLv23.          *)
Fixed(pr, version) == Ctx(pr, TRUE, {version}, SSL2, TLS1_3, {})

Flexible(pr, min, max, excluded) == Ctx(pr, FALSE, Versions, min, max, excluded)

Unsupported == Ctx("none", FALSE, {}, SSL2, SSL2, {})

(* mutant: only the lower bound is set *)
BoundedBelow(pr, version, available) ==
    IF OpenSSL_1_1_0_Or_Greater THEN Flexible(pr, version, TLS1_3, {})
    ELSE IF available THEN Fixed(pr, version) ELSE Unsupported

(* A protocol that has a name of its own in a release with bounds, and a   *)
(* method of its own in one without, if that is there.                     *)
Bounded(pr, version, available) ==
    IF OpenSSL_1_1_0_Or_Greater THEN Flexible(pr, version, version, {})
    ELSE IF available THEN Fixed(pr, version) ELSE Unsupported

(* The switch of the constructor; tls_v1_1 loads the method for TLS 1.0    *)
(* where its neighbours load the one for all versions.                     *)
Method(pr) ==
    CASE pr = "ssl_v2" ->
             IF OpenSSL_1_1_0_Or_Greater \/ SSL2 \in build.disabled
             THEN Unsupported ELSE Fixed(pr, SSL2)
      [] pr = "ssl_v3" -> Bounded(pr, SSL3, SSL3 \notin build.disabled)
      [] pr = "tls_v1" -> Bounded(pr, TLS1, TRUE)
      [] pr = "tls_v1_1" ->
             IF OpenSSL_1_1_0_Or_Greater
             THEN [Fixed(pr, TLS1) EXCEPT !.min = TLS1_1, !.max = TLS1_1]
             ELSE Bounded(pr, TLS1_1, TLS1_1 \in Implemented(build.release))
      [] pr = "tls_v1_2" -> Bounded(pr, TLS1_2, TLS1_2 \in Implemented(build.release))
      [] pr = "tls_v1_3" ->
             IF OpenSSL_1_1_1_Or_Greater
             THEN Flexible(pr, TLS1_3, TLS1_3, {}) ELSE Unsupported
      [] pr = "ssl_any" -> Flexible(pr, SSL2, TLS1_3, {})
      [] OTHER ->
             IF OpenSSL_1_1_0_Or_Greater
             THEN Flexible(pr, TLS1, TLS1_3, {})
             ELSE Flexible(pr, SSL2, TLS1_3, {SSL2, SSL3})

-----------------------------------------------------------------------------
Init == /\ build \in [release : Releases, disabled : SUBSET {SSL2, SSL3}]
        /\ ctx = [c \in Contexts |-> Dead]
        /\ refs = [p \in Pointers |-> 0]
        /\ ssl = [e \in Sessions |-> Null]

Alive(c) == ctx[c] # Dead

(* The constructor.  What is not supported or cannot be allocated is       *)
(* thrown, and leaves everything as it was.                                *)
Construct(c, pr) ==
    /\ ~Alive(c)
    /\ Method(pr) # Unsupported
    /\ \E p \in Pointers :
          /\ refs[p] = 0
          /\ refs' = [refs EXCEPT ![p] = 1]
          /\ ctx' = [ctx EXCEPT ![c] = p]
    /\ UNCHANGED <<build, ssl>>

(* mutant: _close forgets the pointer without freeing it *)
CloseLeaks(c) == refs

(* The counts after _close() on c: SSL_CTX_free gives up one reference.    *)
AfterClose(c) == [p \in Pointers |-> IF p = ctx[c] THEN refs[p] - 1 ELSE refs[p]]

Destroy(c) ==
    /\ Alive(c)
    /\ refs' = AfterClose(c)
    /\ ctx' = [ctx EXCEPT ![c] = Dead]
    /\ UNCHANGED <<build, ssl>>

MoveConstruct(c, d) ==
    /\ ~Alive(c) /\ Alive(d)
    /\ ctx' = [ctx EXCEPT ![c] = ctx[d], ![d] = Null]
    /\ UNCHANGED <<build, refs, ssl>>

(* Move assignment closes first and then takes; c may be d, whose pointer  *)
(* is then null already.                                                   *)
MoveAssign(c, d) ==
    /\ Alive(c) /\ Alive(d)
    /\ refs' = AfterClose(c)
    /\ ctx' = IF c = d THEN [ctx EXCEPT ![c] = Null]
              ELSE [ctx EXCEPT ![c] = ctx[d], ![d] = Null]
    /\ UNCHANGED <<build, ssl>>

Next == \/ \E c \in Contexts, pr \in Protocols : Construct(c, pr)
        \/ \E c \in Contexts : Destroy(c)
        \/ \E c, d \in Contexts : MoveConstruct(c, d) \/ MoveAssign(c, d)

Spec == Init /\ [][Next]_vars

-----------------------------------------------------------------------------
TypeOK == /\ build \in [release : Releases, disabled : SUBSET {SSL2, SSL3}]
          /\ ctx \in [Contexts -> Pointers \union {Dead, Null}]
          /\ refs \in [Pointers -> Int]
          /\ ssl \in [Sessions -> Pointers \union {Null}]

(* What the names say: the versions each protocol stands for. *)
Named(pr) == CASE pr = "ssl_v2"   -> {SSL2}
               [] pr = "ssl_v3"   -> {SSL3}
               [] pr = "tls_v1"   -> {TLS1}
               [] pr = "tls_v1_1" -> {TLS1_1}
               [] pr = "tls_v1_2" -> {TLS1_2}
               [] pr = "tls_v1_3" -> {TLS1_3}
               [] pr = "ssl_any"  -> Versions
               [] OTHER           -> TLS1..TLS1_3

(* A context negotiates the versions its protocol names, as far as the     *)
(* build has them, in every release and every build, so that what is       *)
(* refused as not supported is missing altogether: but for tls_v1_1 in     *)
(* releases with bounds.                                                   *)
OffersAsNamed ==
    \A pr \in Protocols :
        ~(pr = "tls_v1_1" /\ OpenSSL_1_1_0_Or_Greater)
            => Offers(Method(pr)) = Named(pr) \intersect Enabled

(* OpenSSL counts on each SSL_CTX just the context that holds it and the   *)
(* SSL objects made from it: none leaks, none is freed while it is in use  *)
(* or twice, however contexts are moved, onto themselves too.              *)
EachReferenceOwned ==
    /\ \A p \in Pointers :
           refs[p] = Cardinality({c \in Contexts : ctx[c] = p})
                     + Cardinality({e \in Sessions : ssl[e] = p})
    /\ \A c, d \in Contexts : ctx[c] = ctx[d] /\ ctx[c] \in Pointers => c = d

(* The comment on SET_PROTO_VERSION: the bounds are set "to the version    *)
(* specified by 'Version'", so that no other version is negotiated.        *)
VersionIsBound ==
    \A pr \in Protocols :
        LET c == Method(pr) IN c # Unsupported /\ c.min = c.max => Offers(c) \subseteq {c.min}
=============================================================================
