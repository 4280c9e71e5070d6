---------------------------- MODULE MCSslObjects ----------------------------
(* The symmetry of the instance of SslObjects that TLC checks. *)
EXTENDS SslObjects, TLC

Symmetry == Permutations(Objects) \union Permutations(Sessions) \union Permutations(Places)
            \union Permutations(Connections) \union Permutations(Contexts)
            \union Permutations(Pointers)
=============================================================================
