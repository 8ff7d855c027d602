----------------------------- MODULE MCAccounts -----------------------------
(* Instances of Accounts for TLC.                                          *)
EXTENDS Accounts, TLC

\* Local identities are interchangeable, and so are remote ones.
Symmetry == Permutations(Local) \cup Permutations(Remote)
=============================================================================
