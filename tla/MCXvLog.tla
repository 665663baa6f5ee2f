------------------------------- MODULE MCXvLog -------------------------------
\* Processes, blocks and block contents are interchangeable in XvLog.
EXTENDS XvLog, TLC

Symmetry == Permutations(Procs) \cup Permutations(Blocks) \cup Permutations(Vals)
===============================================================================
