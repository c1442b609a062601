----------------------------- MODULE MCPasskeys -----------------------------
(* Small instances of Passkeys for TLC. *)
EXTENDS Passkeys, TLC

\* Challenges and request slots are interchangeable; credentials are not, when
\* only some of them count.
Interchangeable == Permutations(Challenge) \cup Permutations(Request)
==============================================================================
