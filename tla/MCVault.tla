------------------------------- MODULE MCVault -------------------------------
(* The vault for the model checker: its values are interchangeable.         *)
EXTENDS Vault, TLC

Symmetry == Permutations(Passwords) \cup Permutations(Salts) \cup Permutations(Names)
              \cup Permutations(Values) \cup Permutations(Blobs)
=============================================================================
