----------------------------- MODULE MCDocuments -----------------------------
(* Small instances of Documents for TLC. *)
EXTENDS Documents, TLC

\* Users, documents and request slots are interchangeable.
Interchangeable == Permutations(User) \cup Permutations(Doc) \cup Permutations(Request)
==============================================================================
