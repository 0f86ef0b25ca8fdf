----------------------------- MODULE MCJobList -----------------------------
(* Two producers, two consumers, a ring of two slots that wraps twice. *)
EXTENDS JobList, TLC

CONSTANTS p1, p2, c1, c2, a, b

MCProducers == {p1, p2}
MCConsumers == {c1, c2}
MCJobs      == {a, b}

Symmetry == Permutations(MCProducers) \cup Permutations(MCConsumers)
              \cup Permutations(MCJobs)
=============================================================================
