------------------------------ MODULE MCCgroup ------------------------------
(* Instances of Cgroup: --cgroup options, and symmetry.                    *)
EXTENDS Cgroup, TLC

CONSTANTS cpu, memory

BothHierarchies == {cpu, memory}

\* Two groups.
SomeLists == {<<cpu, memory>>}

Symmetry == Permutations(Runs) \cup Permutations(Pids)
=============================================================================
