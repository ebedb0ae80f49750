------------------------------ MODULE MCSeeding ------------------------------
(* Both parts of a seed for TLC.  In some behaviours a policy is cut and   *)
(* nothing is seeded; in the others the chunks are those of TheChunks, and *)
(* processes seed them.                                                    *)
EXTENDS MCSeedFiles, Chunking

CONSTANTS scope, claims   \* two slugs

NothingToCut ==
    /\ words = [i \in 1..Sections |-> 0]
    /\ slug \in [1..Sections -> {scope}]
    /\ section = Sections + 1
    /\ start = 0
    /\ number = 0
    /\ chunks = {}

SeedingInit == Init /\ (ChunkingInit \/ NothingToCut)

(* What the author records and commits is read by no seed, and by no       *)
(* invariant: it is enough to do it after the last one.                    *)
RecordsComeLast ==
    \/ UNCHANGED <<checksums, snapshot, updating, committed>>
    \/ runs = MaxRuns /\ \A s \in Seeds : ~Running(s)

SeedingNext ==
    \/ ChunkingNext /\ UNCHANGED vars
    \/ section > Sections /\ chunks = {} /\ Next /\ RecordsComeLast /\ UNCHANGED chunkingVars

SeedingSpec == SeedingInit /\ [][SeedingNext]_<<vars, chunkingVars>>

=============================================================================
