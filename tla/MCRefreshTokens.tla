--------------------------- MODULE MCRefreshTokens ---------------------------
(* Small instances of RefreshTokens for TLC. *)
EXTENDS RefreshTokens, TLC

\* The values drawn by crypto.randomUUID() and the request slots are
\* interchangeable.  Only used where no liveness property is checked.
Interchangeable ==
    Permutations(Token) \cup Permutations(Device) \cup Permutations(Family)
        \cup Permutations(Request) \cup Permutations(User)
==============================================================================
