-------------------------------- MODULE MCAccounts --------------------------------
\* Instances of Accounts for TLC.
EXTENDS Accounts, TLC
RequestSymmetry == Permutations(Reqs) \cup Permutations(Asks)
================================================================================
