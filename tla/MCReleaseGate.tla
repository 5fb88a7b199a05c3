---------------------------- MODULE MCReleaseGate ----------------------------
EXTENDS ReleaseGate, FiniteSets, TLC

CONSTANTS v1, v2, v3, c1, c2

\* Two versions differ outside the SSH components, a third also in them.
MCSsh == [v \in Versions |-> IF v = v3 THEN c2 ELSE c1]

Symmetry == Permutations(Pipelines) \cup Permutations(Runs)

\* Two events, or two runs beside each other and no event.
FewEvents == events = 0 \/ Cardinality({r \in Runs : run[r].at # "new"}) < 2

================================================================================
