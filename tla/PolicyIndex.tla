------------------------------ MODULE PolicyIndex ------------------------------
(***************************************************************************)
(* Searches of one request (tools/policy_search.py) beside load_seed_data  *)
(* (data/generate.py).  A search reads the policy index in four statements *)
(* and the record reads it once more; each statement sees the corpus that  *)
(* is current, because nothing puts them in one transaction.               *)
(*                                                                         *)
(* A corpus maps the ids of its chunks to the versions of their policies.  *)
(***************************************************************************)
EXTENDS RankFusion

CONSTANTS
    Searches,     \* the calls of search_policies in the request
    Corpora,      \* what a seed may load
    PolicyOf,     \* the policy of each chunk id
    TopK,         \* TOP_K
    MaxSeeds      \* bound: seeds while the request runs

ChunkIds == DOMAIN PolicyOf
Versions == UNION {Range(k) : k \in Corpora}

(* generate_policy_chunks gives all chunks of a policy its one version.    *)
ASSUME PolicyIndexAssumption ==
    /\ TopK \in Nat
    /\ MaxSeeds \in Nat
    /\ \A k \in Corpora : DOMAIN k \subseteq ChunkIds
    /\ \A k \in Corpora : \A c, d \in DOMAIN k : PolicyOf[c] = PolicyOf[d] => k[c] = k[d]

VARIABLES
    corpora,    \* the corpora so far; the last one is in the database
    pc,         \* what each search does next
    since,      \* the corpus that was current when it began
    byVector,   \* its ranking by vector
    ids,        \* the ids it answers with
    fused,      \* the two rankings that were fused in the last step, if it did
    found,      \* their versions
    evidence,   \* the evidence items of the searches that ended
    request,    \* what the request does
    version,    \* the policy_version that finalize read, once it has
    records     \* the policy_version of the Decision Record, once it is saved

vars == <<corpora, pc, since, byVector, ids, fused, found, evidence, request, version, records>>

Underway == {"vector", "keyword", "fetch", "record"}

Current == Last(corpora)

(* The set of policy@version of a corpus: get_policy_version writes it out *)
(* and calculate_index_build_id hashes it, so it stands for both.  Chunker *)
(* and embedding model, which are hashed too, never change here.  The      *)
(* empty set is None.                                                      *)
BuildOf(k) == {<<PolicyOf[c], k[c]>> : c \in DOMAIN k}

Init ==
    /\ corpora \in {<<k>> : k \in Corpora}
    /\ pc = [s \in Searches |-> "idle"]
    /\ since = [s \in Searches |-> 1]
    /\ byVector = [s \in Searches |-> <<>>]
    /\ ids = [s \in Searches |-> {}]
    /\ fused = {}
    /\ found = [s \in Searches |-> <<>>]
    /\ evidence = <<>>
    /\ request = "running"
    /\ version = {}
    /\ records = {}

Goto(s, label) == pc' = [pc EXCEPT ![s] = label]

(* An exception leaves the search, and no node of the graph catches it.    *)
Raise(s, label) ==
    /\ Goto(s, label)
    /\ byVector' = [byVector EXCEPT ![s] = <<>>]
    /\ ids' = [ids EXCEPT ![s] = {}]
    /\ found' = [found EXCEPT ![s] = <<>>]
    /\ request' = "failed"
    /\ UNCHANGED <<corpora, since, evidence, version, records>>

-----------------------------------------------------------------------------
(* A search: a tool call that may run beside others of the same reply.     *)

(* The query is embedded; nothing is read yet. *)
Begin(s) ==
    /\ request = "running" /\ pc[s] = "idle"
    /\ Goto(s, "vector")
    /\ since' = [since EXCEPT ![s] = Len(corpora)]
    /\ UNCHANGED <<corpora, byVector, ids, found, evidence, request, version, records>>

(* The index on the vectors is approximate: it may find less than there is. *)
RankByVector(s) ==
    /\ pc[s] = "vector"
    /\ \E ranking \in Rankings(DOMAIN Current) : byVector' = [byVector EXCEPT ![s] = ranking]
    /\ Goto(s, "keyword")
    /\ UNCHANGED <<corpora, since, ids, found, evidence, request, version, records>>

(* What fuse makes of any two rankings.                                    *)
Fusions ==
    {[lists |-> lists, result |-> Fuse(lists)] :
        lists \in Rankings(ChunkIds) \X Rankings(ChunkIds)}

FirstIds(result) == {result[n] : n \in DOMAIN result \cap 1..TopK}

(* The keyword ranking may be short or empty; then the rankings are fused  *)
(* and the first TopK ids are kept.                                        *)
RankByKeyword(s) ==
    /\ pc[s] = "keyword"
    /\ \E fusion \in Fusions :
          /\ fusion.lists[1] = byVector[s]
          /\ fusion.lists[2] \in Rankings(DOMAIN Current)
          /\ ids' = [ids EXCEPT ![s] = FirstIds(fusion.result)]
          /\ fused' = {fusion}
    /\ byVector' = [byVector EXCEPT ![s] = <<>>]
    /\ Goto(s, "fetch")
    /\ UNCHANGED <<corpora, since, found, evidence, request, version, records>>

(* One statement for each chunk, between which the corpus may change.      *)
FetchedOneByOne(s, versions) ==
    \A c \in DOMAIN versions :
       \E i \in since[s]..Len(corpora) :
          c \in DOMAIN corpora[i] /\ versions[c] = corpora[i][c]

(* The rows of the found ids, in one statement.                            *)
Fetched(s, versions) == versions = Restrict(Current, ids[s])

FetchChunks(s) ==
    /\ pc[s] = "fetch"
    /\ ids[s] \subseteq DOMAIN Current
    /\ \E versions \in [ids[s] -> Versions] :
          Fetched(s, versions) /\ found' = [found EXCEPT ![s] = versions]
    /\ ids' = [ids EXCEPT ![s] = {}]
    /\ Goto(s, "record")
    /\ UNCHANGED <<corpora, since, byVector, evidence, request, version, records>>

(* A found id is not there any more: by_id[cid] raises a KeyError.         *)
ChunkIsMissing(s) ==
    /\ pc[s] = "fetch"
    /\ ~(ids[s] \subseteq DOMAIN Current)
    /\ Raise(s, "missing")

(* The build id is read once per process.                                  *)
IndexBuildIdCached == BuildOf(Head(corpora))
IndexBuildId == BuildOf(Current)

(* The build id is read in a statement of its own; then the audit event    *)
(* and the evidence item are written.  since and until are not in the      *)
(* code: they say which corpora were current during the search.            *)
RecordSearch(s) ==
    /\ pc[s] = "record"
    /\ evidence' = Append(evidence,
          [chunks |-> found[s], build |-> IndexBuildId,
           since |-> since[s], until |-> Len(corpora)])
    /\ found' = [found EXCEPT ![s] = <<>>]
    /\ Goto(s, "done")
    /\ UNCHANGED <<corpora, since, byVector, ids, request, version, records>>

(* A statement or the embedding raises, or the process dies.               *)
SearchFails(s) ==
    /\ pc[s] \in Underway
    /\ Raise(s, "failed")

-----------------------------------------------------------------------------
(* What finalize reads when the version is taken at the start.             *)
PolicyVersionAtStart == BuildOf(Head(corpora))
PolicyVersion == BuildOf(Current)

(* finalize_node: get_policy_version is read in one statement, and the      *)
(* record is saved in another transaction.                                 *)
ReadPolicyVersion ==
    /\ request = "running"
    /\ \A s \in Searches : pc[s] \in {"idle", "done"}
    /\ version' = {PolicyVersion}
    /\ request' = "saving"
    /\ UNCHANGED <<corpora, pc, since, byVector, ids, found, evidence, records>>

SaveRecord ==
    /\ request = "saving"
    /\ records' = version
    /\ version' = {}
    /\ request' = "recorded"
    /\ UNCHANGED <<corpora, pc, since, byVector, ids, found, evidence>>

(* Any other exception of the request. *)
RequestFails ==
    /\ request \in {"running", "saving"}
    /\ request' = "failed"
    /\ version' = {}
    /\ UNCHANGED <<corpora, pc, since, byVector, ids, found, evidence, records>>

(* load_seed_data commits: one transaction empties the tables and fills    *)
(* them.  TRUNCATE ... CASCADE takes the Decision Records along.           *)
LoadSeed ==
    /\ Len(corpora) <= MaxSeeds
    /\ \E k \in Corpora : corpora' = Append(corpora, k)
    /\ records' = {}
    /\ UNCHANGED <<pc, since, byVector, ids, found, evidence, request, version>>

Search(s) ==
    \/ Begin(s) \/ RankByVector(s) \/ FetchChunks(s) \/ ChunkIsMissing(s)
    \/ RecordSearch(s) \/ SearchFails(s)

(* fused is not in the code: it shows the arguments and the result of fuse *)
(* in the state after the call.                                            *)
Next ==
    \/ \E s \in Searches : RankByKeyword(s)
    \/ /\ \/ \E s \in Searches : Search(s)
          \/ ReadPolicyVersion \/ SaveRecord \/ RequestFails
          \/ LoadSeed
       /\ fused' = {}

Spec == Init /\ [][Next]_vars

-----------------------------------------------------------------------------
Builds == SUBSET (Range(PolicyOf) \X Versions)
Found == UNION {[some -> Versions] : some \in SUBSET ChunkIds}

TypeOK ==
    /\ corpora \in Seq(Corpora) /\ Len(corpora) \in 1..(MaxSeeds + 1)
    /\ pc \in [Searches -> Underway \cup {"idle", "done", "missing", "failed"}]
    /\ since \in [Searches -> 1..Len(corpora)]
    /\ byVector \in [Searches -> Rankings(ChunkIds)]
    /\ ids \in [Searches -> SUBSET ChunkIds]
    /\ fused \subseteq [lists : Rankings(ChunkIds) \X Rankings(ChunkIds), result : Seq(ChunkIds)]
    /\ found \in [Searches -> Found]
    /\ \A i \in 1..Len(evidence) :
          evidence[i] \in [chunks : Found, build : Builds,
                           since : 1..Len(corpora), until : 1..Len(corpora)]
    /\ request \in {"running", "saving", "recorded", "failed"}
    /\ version \subseteq Builds /\ records \subseteq Builds

(* fuse keeps what the two rankings of a search say: it loses no id and    *)
(* doubles none, puts an id that both found before one that a single       *)
(* ranking liked, and none before one that is ranked better wherever it is *)
(* ranked; ties follow the vector ranking.                                 *)
RanksAreRespected ==
    \A f \in fused :
       /\ NothingLostOrDoubled(f.lists, f.result)
       /\ AgreementComesFirst(f.lists, f.result)
       /\ BetterRanksFirst(f.lists, f.result)
       /\ TiesFollowVector(f.lists, f.result)

(* Corpus k has the chunks of the evidence item in these versions.         *)
ComesFrom(item, k) ==
    /\ DOMAIN item.chunks \subseteq DOMAIN k
    /\ item.chunks = Restrict(k, DOMAIN item.chunks)

(* The passages of one answer belong together: they come from one corpus,  *)
(* which was in the database during the search.                            *)
PassagesOfOneCorpus ==
    \A i \in 1..Len(evidence) :
       \E j \in evidence[i].since..evidence[i].until : ComesFrom(evidence[i], corpora[j])

(* A search during which no seed was loaded names the index that it read,  *)
(* also when seeds were loaded before it.                                  *)
UndisturbedSearchIsExact ==
    \A i \in 1..Len(evidence) :
       evidence[i].since = evidence[i].until =>
          evidence[i].build = BuildOf(corpora[evidence[i].since])

(* When no seed was loaded since the first search began, the record names  *)
(* the version of every passage.                                           *)
UndisturbedRecordIsExact ==
    \A record \in records : \A i \in 1..Len(evidence) :
          evidence[i].since = Len(corpora) =>
             /\ record = evidence[i].build
             /\ \A c \in DOMAIN evidence[i].chunks :
                   <<PolicyOf[c], evidence[i].chunks[c]>> \in record

(* docs/architecture.md:98: the build id in the evidence of a search names *)
(* the index that its passages came from.                                  *)
SearchIsTraceable ==
    \A i \in 1..Len(evidence) :
       \E j \in 1..Len(corpora) :
          evidence[i].build = BuildOf(corpora[j]) /\ ComesFrom(evidence[i], corpora[j])

=============================================================================
