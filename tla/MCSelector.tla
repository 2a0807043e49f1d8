----------------------------- MODULE MCSelector -----------------------------
EXTENDS Selector, TLC

MCWanted == {{}, {"read", "write"}}

Symmetry == Permutations(Sessions)
=============================================================================
