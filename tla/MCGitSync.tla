----------------------------- MODULE MCGitSync -----------------------------
EXTENDS GitSync, TLC

Symmetry == Permutations(Commit)
=============================================================================
