------------------------------ MODULE MCProviderKeys ------------------------------
\* Instances of ProviderKeys for TLC.
EXTENDS ProviderKeys, TLC
KeySymmetry == Permutations(Keys) \cup Permutations(Jobs)
================================================================================
