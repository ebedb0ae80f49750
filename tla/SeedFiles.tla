------------------------------ MODULE SeedFiles ------------------------------
(***************************************************************************)
(* load_seed_data (data/generate.py) as processes that share two files,    *)
(* the rendered seed and the embedding cache, and one database, while an   *)
(* author edits a policy and commits it past the checks of                 *)
(* data/snapshot.py.  A file is written by open(), which empties it, and a *)
(* write; a process may die between the two.                               *)
(***************************************************************************)
EXTENDS Integers, FiniteSets, Functions

CONSTANTS
    Seeds,        \* the processes that seed
    Texts,        \* what the policy file may say
    ChunksOf,     \* the chunks of a text: their contents by id
    Half,         \* what is in a file that is not whole
    MaxRuns,      \* bound: runs of load_seed_data
    MaxEdits,     \* bound: edits of the text
    MaxVersion    \* bound: versions of the policy

ASSUME SeedFilesAssumption ==
    /\ DOMAIN ChunksOf = Texts
    /\ MaxRuns \in Nat /\ MaxEdits \in Nat /\ MaxVersion \in Nat \ {0}

VARIABLES
    policy,      \* the policy file: its text and its version
    checksums,   \* checksums.json: the text (for its hash) and the version
    snapshot,    \* chunk_snapshot.json: the contents (for their hashes) by id
    updating,    \* whether data.snapshot has written the first of the two only
    committed,   \* the policy of the last commit
    sqlFile,     \* seed.sql: the rows by id, or Half
    cacheFile,   \* the cache of the model: what was embedded, by key, or Half
    db,          \* policy_chunks, and how the seed came about that loaded it
    seed,        \* what each process does and holds
    runs, edits,
    saved,       \* the contents whose vectors were saved
    resent,      \* those that were sent to the model again
    overlapped,  \* whether two seeds ever ran at a time
    crashed      \* whether a process died with the cache half written

files == <<sqlFile, cacheFile>>
author == <<policy, checksums, snapshot, updating, committed, edits>>
past == <<saved, resent, overlapped, crashed>>
vars == <<author, files, db, seed, runs, past>>

(* generate_policy_chunks: rows without their embedding.                   *)
Rows(p) == [id \in DOMAIN ChunksOf[p.text] |->
               [content |-> ChunksOf[p.text][id], version |-> p.version]]

Contents == UNION {Range(ChunksOf[t]) : t \in Texts}

(* A half written file is no rendered seed, and no cache that loads.       *)
ASSUME HalfIsNotWhole ==
    /\ \A t \in Texts, v \in 1..MaxVersion : Half # Rows([text |-> t, version |-> v])
    /\ \A keys \in SUBSET Contents : Half \notin [keys -> Contents]

NoRows == <<>>
Resting == [pc |-> "idle", sql |-> NoRows, rows |-> NoRows, cache |-> NoRows,
            fresh |-> FALSE, alone |-> FALSE, began |-> {}]

Running(s) == seed[s].pc \notin {"idle", "broken"}

Init ==
    /\ policy \in {[text |-> t, version |-> 1] : t \in Texts}
    /\ checksums = policy /\ committed = policy
    /\ snapshot = ChunksOf[policy.text]
    /\ updating = FALSE
    /\ sqlFile = NoRows /\ cacheFile = NoRows
    /\ db = [rows |-> NoRows, alone |-> FALSE, began |-> {}]
    /\ seed = [s \in Seeds |-> Resting]
    /\ runs = 0 /\ edits = 0
    /\ saved = {} /\ resent = {} /\ overlapped = FALSE /\ crashed = FALSE

Step(s, pc, change) == seed' = [seed EXCEPT ![s] = [change EXCEPT !.pc = pc]]

(* Whoever has the same file open would now write over this content.       *)
StepAndStale(s, pc, stage) ==
    seed' = [r \in Seeds |->
                IF r = s THEN [seed[s] EXCEPT !.pc = pc]
                ELSE IF seed[r].pc = stage THEN [seed[r] EXCEPT !.fresh = FALSE]
                ELSE seed[r]]

-----------------------------------------------------------------------------
(* load_seed_data.                                                         *)

(* render_seed_sql reads the policies.  alone and began are not in the     *)
(* code: they say whether anything else changed meanwhile, and what the    *)
(* policy was at the start.                                                *)
Render(s) ==
    /\ ~Running(s)
    /\ runs < MaxRuns
    /\ runs' = runs + 1
    /\ LET others == {r \in Seeds \ {s} : Running(r)}
       IN  /\ seed' = [r \in Seeds |->
                IF r = s THEN [Resting EXCEPT !.pc = "open_sql", !.sql = Rows(policy),
                                              !.alone = others = {}, !.began = {policy}]
                ELSE [seed[r] EXCEPT !.alone = FALSE]]
           /\ overlapped' = (overlapped \/ others # {})
    /\ UNCHANGED <<author, files, db, saved, resent, crashed>>

OpenSql(s) ==
    /\ seed[s].pc = "open_sql"
    /\ sqlFile' = Half
    /\ Step(s, "write_sql", [seed[s] EXCEPT !.fresh = TRUE])
    /\ UNCHANGED <<author, cacheFile, db, runs, past>>

(* The end of a longer content that another process wrote since stays.     *)
Written(s, content) == IF seed[s].fresh THEN {content} ELSE {content, Half}

WriteSql(s) ==
    /\ seed[s].pc = "write_sql"
    /\ sqlFile' \in Written(s, seed[s].sql)
    /\ StepAndStale(s, "read_sql", "write_sql")
    /\ UNCHANGED <<author, cacheFile, db, runs, past>>

ReadSql(s) ==
    /\ seed[s].pc = "read_sql"
    /\ Step(s, "chunk", [seed[s] EXCEPT !.sql = sqlFile])
    /\ UNCHANGED <<author, files, db, runs, past>>

(* embed_policy_chunks reads the policies a second time.                   *)
ChunkAgain(s) ==
    /\ seed[s].pc = "chunk"
    /\ Step(s, "load_cache", [seed[s] EXCEPT !.rows = Rows(policy)])
    /\ UNCHANGED <<author, files, db, runs, past>>

(* An entry found by the id of its chunk. *)
KeyById(id, content) == id

(* _content_hash.                                                          *)
CacheKey(id, content) == content

Key(s, id) == CacheKey(id, seed[s].rows[id].content)

Missing(s, cache) ==
    {seed[s].rows[id].content :
        id \in {i \in DOMAIN seed[s].rows : Key(s, i) \notin DOMAIN cache}}

(* _load_cache: json.loads raises on what is not whole.                    *)
LoadCache(s) ==
    /\ seed[s].pc = "load_cache"
    /\ IF cacheFile = Half
       THEN Step(s, "broken", Resting)
       ELSE Step(s, IF Missing(s, cacheFile) = {} THEN "load" ELSE "embed",
                 [seed[s] EXCEPT !.cache = cacheFile])
    /\ UNCHANGED <<author, files, db, runs, past>>

(* The cache is opened for writing before the model answers. *)
EmbedWithCacheOpen(s) ==
    /\ seed[s].pc = "embed"
    /\ cacheFile' = Half
    /\ Step(s, "open_cache", seed[s]) \/ Step(s, "idle", Resting)
    /\ UNCHANGED <<author, sqlFile, db, runs, past>>

(* embed_fn may raise; then nothing was written.                           *)
Embed(s) ==
    /\ seed[s].pc = "embed"
    /\ \/ /\ Step(s, "open_cache", seed[s])
          /\ resent' = resent \cup (Missing(s, seed[s].cache) \cap saved)
       \/ Step(s, "idle", Resting) /\ UNCHANGED resent
    /\ UNCHANGED <<author, files, db, runs, saved, overlapped, crashed>>

OpenCache(s) ==
    /\ seed[s].pc = "open_cache"
    /\ cacheFile' = Half
    /\ Step(s, "write_cache", [seed[s] EXCEPT !.fresh = TRUE])
    /\ UNCHANGED <<author, sqlFile, db, runs, past>>

NewEntries(s) ==
    LET ids == {i \in DOMAIN seed[s].rows : Key(s, i) \notin DOMAIN seed[s].cache}
    IN  [key \in {Key(s, i) : i \in ids} |->
            (CHOOSE i \in ids : Key(s, i) = key)]

Vector(s, key) == seed[s].rows[NewEntries(s)[key]].content

(* cache.update. *)
Extended(s) ==
    [key \in DOMAIN seed[s].cache \cup DOMAIN NewEntries(s) |->
        IF key \in DOMAIN seed[s].cache THEN seed[s].cache[key] ELSE Vector(s, key)]

(* Only what was embedded now is written. *)
OnlyNewEntries(s) == [key \in DOMAIN NewEntries(s) |-> Vector(s, key)]

(* _save_cache writes the whole cache, as it was loaded and extended.      *)
ToSave(s) == Extended(s)

WriteCache(s) ==
    /\ seed[s].pc = "write_cache"
    /\ cacheFile' \in Written(s, ToSave(s))
    /\ saved' = saved \cup Missing(s, seed[s].cache)
    /\ seed' = [r \in Seeds |->
          IF r = s THEN [seed[s] EXCEPT !.pc = "load", !.cache = Extended(s)]
          ELSE IF seed[r].pc = "write_cache" THEN [seed[r] EXCEPT !.fresh = FALSE]
          ELSE seed[r]]
    /\ UNCHANGED <<author, sqlFile, db, runs, resent, overlapped, crashed>>

(* _load_into, one transaction: the tables are emptied, the script is run, *)
(* and each embedded chunk is updated; an id that is not there is no error. *)
Loaded(s, rows) ==
    [id \in DOMAIN rows |->
        [content |-> rows[id].content, version |-> rows[id].version,
         embedding |-> IF id \in DOMAIN seed[s].rows THEN {seed[s].cache[Key(s, id)]} ELSE {}]]

Load(s) ==
    /\ seed[s].pc = "load"
    /\ LET rows == IF seed[s].sql = Half THEN NoRows ELSE seed[s].sql
       IN  db' = [rows |-> Loaded(s, rows), alone |-> seed[s].alone, began |-> seed[s].began]
    /\ Step(s, "idle", Resting)
    /\ UNCHANGED <<author, files, runs, past>>

(* A statement raises (also for a script that is not whole), or the        *)
(* process dies: the transaction is rolled back, the files stay.           *)
Die(s) ==
    /\ Running(s)
    /\ crashed' = (crashed \/ seed[s].pc = "write_cache")
    /\ Step(s, "idle", Resting)
    /\ UNCHANGED <<author, files, db, runs, saved, resent, overlapped>>

-----------------------------------------------------------------------------
(* The author of the policy.                                               *)
Disturb == seed' = [s \in Seeds |-> [seed[s] EXCEPT !.alone = FALSE]]

EditText(t) ==
    /\ edits < MaxEdits /\ t # policy.text
    /\ edits' = edits + 1
    /\ policy' = [policy EXCEPT !.text = t]
    /\ Disturb
    /\ UNCHANGED <<checksums, snapshot, updating, committed, files, db, runs, past>>

BumpVersion ==
    /\ policy.version < MaxVersion
    /\ policy' = [policy EXCEPT !.version = @ + 1]
    /\ Disturb
    /\ UNCHANGED <<checksums, snapshot, updating, committed, edits, files, db, runs, past>>

(* get_version_problems with one policy: the text changed and the version  *)
(* did not, or the file is out of date.                                    *)
TextWithoutBump == policy.text # checksums.text /\ policy.version = checksums.version
VersionProblems == TextWithoutBump \/ policy # checksums

SnapshotProblems == ChunksOf[policy.text] # snapshot

(* python -m data.snapshot, which writes one file and then the other,      *)
(* whatever the two lists of problems say: it does not look at them.       *)
UpdateChecksums ==
    /\ ~updating
    /\ checksums' = policy
    /\ updating' = TRUE
    /\ UNCHANGED <<policy, snapshot, committed, edits, files, db, seed, runs, past>>

UpdateSnapshot ==
    /\ updating
    /\ snapshot' = ChunksOf[policy.text]
    /\ updating' = FALSE
    /\ UNCHANGED <<policy, checksums, committed, edits, files, db, seed, runs, past>>

(* The tests of a commit want both lists of problems empty.                *)
Commit ==
    /\ ~VersionProblems /\ ~SnapshotProblems
    /\ committed # policy
    /\ committed' = policy
    /\ UNCHANGED <<policy, checksums, snapshot, updating, edits, files, db, seed, runs, past>>

LoadSeedData(s) ==
    \/ Render(s) \/ OpenSql(s) \/ WriteSql(s) \/ ReadSql(s) \/ ChunkAgain(s)
    \/ LoadCache(s) \/ Embed(s) \/ OpenCache(s) \/ WriteCache(s) \/ Load(s) \/ Die(s)

Next ==
    \/ \E s \in Seeds : LoadSeedData(s)
    \/ \E t \in Texts : EditText(t)
    \/ BumpVersion \/ UpdateChecksums \/ UpdateSnapshot \/ Commit

Spec == Init /\ [][Next]_vars

-----------------------------------------------------------------------------
(* A seed during which nothing else seeds or edits loads the policy as it  *)
(* is, each chunk with the vector of its own text, whatever earlier seeds  *)
(* left in the files.                                                      *)
UndisturbedSeedIsExact ==
    db.alone =>
       \A p \in db.began :
          /\ DOMAIN db.rows = DOMAIN Rows(p)
          /\ \A id \in DOMAIN db.rows :
                /\ db.rows[id].content = Rows(p)[id].content
                /\ db.rows[id].version = p.version
                /\ db.rows[id].embedding = {Rows(p)[id].content}

(* Seeds that do not overlap send no text to the model whose vector was    *)
(* saved before: regenerating is free, also after an edit and its undoing. *)
TextIsEmbeddedOnce == ~overlapped => resent = {}

(* A seed fails on the cache file only when a process died while it wrote  *)
(* the file, or two seeds overlapped; any other failure leaves it whole.   *)
CacheBreaksOnlyInACrash ==
    (\E s \in Seeds : seed[s].pc = "broken") => crashed \/ overlapped

(* "Editing a policy's text without bumping its policy_version fails a     *)
(* test", and an empty list of problems "means every text change has a     *)
(* version bump" (snapshot.py:5, :46).  This does not hold: the update     *)
(* command records a changed text under the old version, and the list is   *)
(* empty again.                                                            *)
ChangedTextChangesVersion ==
    [][committed'.text # committed.text => committed'.version # committed.version]_vars

=============================================================================
