----------------------------- MODULE MCTwoFactor -----------------------------
(* Small instances of TwoFactor for TLC. *)
EXTENDS TwoFactor, TLC

\* Secrets, codes and request slots are interchangeable.
Interchangeable ==
    Permutations(Secret) \cup Permutations(BackupCode) \cup Permutations(Request)
==============================================================================
