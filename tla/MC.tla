---- MODULE MC ----
EXTENDS Ocijail, TLC
Symmetry == Permutations(Proc)
====
