----------------------------- MODULE MCBrowser -----------------------------
(* Small instances of Browser for TLC. *)
EXTENDS Browser, TLC

\* Sessions, states and messages are interchangeable.
Interchangeable == Permutations(Family) \cup Permutations(State) \cup Permutations(Request)
=============================================================================
