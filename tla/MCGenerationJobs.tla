-------------------------- MODULE MCGenerationJobs --------------------------
(* Instances of GenerationJobs for TLC. *)
EXTENDS GenerationJobs, TLC

CONSTANTS j1, j2, s1, s2

\* One process per slot: two hosts, each able to crash alone.
MCProcesses == {{s} : s \in Slots}

\* The jobs differ by nothing but their names.
MCSymmetry == Permutations(Jobs)

MCTwoAttempts == [j \in Jobs |-> 2]

\* The second host's clock is ahead.
MCSkew == [s \in Slots |-> IF s = s2 THEN 1 ELSE 0]
=============================================================================
