----------------------- MODULE MCGenerationJobsTimed -----------------------
(* Instances of GenerationJobsTimed for TLC. *)
EXTENDS GenerationJobsTimed, TLC

CONSTANTS j1, s1, s2

\* One process per slot: two hosts, each able to crash alone.
MCProcesses == {{s} : s \in Slots}

MCTwoAttempts == [j \in Jobs |-> 2]

\* The second host's clock is ahead.
MCSkew == [s \in Slots |-> IF s = s2 THEN 1 ELSE 0]
=============================================================================
