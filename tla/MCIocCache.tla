---- MODULE MCIocCache ----
EXTENDS IocCache, TLC

CONSTANTS default, beamline

Symmetry == Permutations(Tasks)
====
