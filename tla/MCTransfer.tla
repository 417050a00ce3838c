------------------------------- MODULE MCTransfer -------------------------------
\* An instance of Transfer for TLC.
EXTENDS Transfer
================================================================================
