---------------------------- MODULE MCPrincipals ----------------------------
(* Small instances of Principals for TLC. *)
EXTENDS Principals, TLC

\* Role sets, instances and request slots are interchangeable.
Interchangeable ==
    Permutations(Roles) \cup Permutations(Instance) \cup Permutations(Request)
==============================================================================
