------------------------------ MODULE MCDevice ------------------------------
(* Small instances of Device for TLC. *)
EXTENDS Device, FiniteSets, TLC

Symmetry == Permutations(Procs)

\* Bound: no further once three kinds of trouble have met.  Every property but
\* TypeOK speaks of states in which there was none, or two kinds at most.
FewTroubles == Cardinality(trouble) <= 2
=============================================================================
