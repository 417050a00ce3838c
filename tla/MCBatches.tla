-------------------------------- MODULE MCBatches --------------------------------
\* Instances of Batches for TLC.
EXTENDS Batches, TLC
RequestSymmetry == Permutations(Reqs)
================================================================================
