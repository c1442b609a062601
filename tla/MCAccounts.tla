----------------------------- MODULE MCAccounts -----------------------------
(* Small instances of Accounts for TLC. *)
EXTENDS Accounts, TLC

\* Requests are interchangeable, and so are the addresses other than the seed's.
Interchangeable == Permutations(Request) \cup Permutations(Email \ {SeedEmail})
=============================================================================
