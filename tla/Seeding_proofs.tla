---------------------------- MODULE Seeding_proofs -----------------------------
(***************************************************************************)
(* How policies get into the database.  For every number and length of     *)
(* sections and every window and overlap: no word of a section is lost,    *)
(* windows overlap as they should, and ids are unique when slugs are.  For *)
(* any processes, texts and number of runs, and however the author edits:  *)
(* the three properties of SeedFiles that hold.                            *)
(***************************************************************************)
EXTENDS Chunking, SeedFiles, TLAPS

-----------------------------------------------------------------------------
(* Chunking. *)

(* A new chunk of the current section is a chunk.                          *)
LEMMA NewChunkIsChunk ==
    ASSUME TypeOK, section <= Sections, NEW from \in Nat, NEW to \in Nat
    PROVE  /\ Chunk(from, to) \in Chunks
           /\ Chunk(from, to).section = section
           /\ Chunk(from, to).id[1] = slug[section]
           /\ Chunk(from, to).id[2] = number
           /\ Chunk(from, to).from = from
           /\ Chunk(from, to).to = to
    BY ChunkingAssumption DEF TypeOK, Chunk, Chunks

LEMMA ChunkingInvInit == ChunkingInit => ChunkingInvariant
    BY ChunkingAssumption
    DEF ChunkingInit, ChunkingInvariant, TypeOK, CoveredSoFar, WholeIsUncut, ChunksAreBehind,
        NoWordIsLost, WindowsOverlap, NoneIsRedundant, IdsAreUnique, Chunks

(* What every step that adds the chunk new relies on: it is numbered next, *)
(* starts at start and reaches further than the chunks before it.          *)
LEMMA AddingChunk ==
    ASSUME ChunkingInvariant, section <= Sections,
           NEW to \in Nat,
           start <= to, to - start <= MaxTokens, to <= words[section],
           to > start + Overlap \/ to = words[section],
           words' = words, slug' = slug,
           chunks' = chunks \cup {Chunk(start, to)}
    PROVE  /\ chunks' \subseteq Chunks
           /\ WindowsOverlap' /\ NoneIsRedundant' /\ IdsAreUnique'
<1> DEFINE new == Chunk(start, to)
<1>1. /\ new \in Chunks /\ new.section = section /\ new.id[1] = slug[section]
      /\ new.id[2] = number /\ new.from = start /\ new.to = to
    BY NewChunkIsChunk DEF ChunkingInvariant, TypeOK
<1> HIDE DEF new
<1>2. chunks' = chunks \cup {new} /\ chunks \subseteq Chunks
    BY DEF new, ChunkingInvariant, TypeOK
<1>3. ASSUME NEW c \in chunks, c.section = section
      PROVE  /\ c.id[2] < number /\ c.from < start /\ c.to < to
             /\ c.id[2] + 1 = number => c.to = start + Overlap
             /\ c.id[2] \in Nat /\ c.from \in Nat /\ c.to \in Nat
    <2>1. /\ c.id[2] < number /\ c.from < start /\ c.to <= start + Overlap
          /\ c.to < words[section]
          /\ c.id[2] + 1 = number => c.to = start + Overlap
        BY <1>3 DEF ChunkingInvariant, ChunksAreBehind
    <2>2. c.id[2] \in Nat /\ c.from \in Nat /\ c.to \in Nat
        BY <1>2 DEF Chunks
    <2> QED
        BY <2>1, <2>2, ChunkingAssumption DEF ChunkingInvariant, TypeOK
<1>4. WindowsOverlap'
    <2>1. ASSUME NEW c \in chunks'
          PROVE  c.to - c.from <= MaxTokens /\ c.to <= words'[c.section]
        BY <1>1, <1>2 DEF ChunkingInvariant, WindowsOverlap
    <2>2. ASSUME NEW c \in chunks', NEW d \in chunks',
                 c.section = d.section, d.id[2] = c.id[2] + 1
          PROVE  d.from = c.to - Overlap
        <3>1. CASE c \in chunks /\ d \in chunks
            BY <2>2, <3>1 DEF ChunkingInvariant, WindowsOverlap
        <3>2. CASE c = new /\ d \in chunks
            BY <2>2, <3>2, <1>1, <1>3 DEF ChunkingInvariant, TypeOK
        <3>3. CASE c \in chunks /\ d = new
            <4>1. c.section = section /\ c.id[2] + 1 = number /\ d.from = start
                BY <2>2, <3>3, <1>1
            <4>2. c.to = start + Overlap
                BY <3>3, <4>1, <1>3
            <4> QED BY <4>1, <4>2, ChunkingAssumption DEF ChunkingInvariant, TypeOK
        <3>4. CASE c = new /\ d = new
            BY <2>2, <3>4, <1>1 DEF ChunkingInvariant, TypeOK
        <3> QED BY <1>2, <3>1, <3>2, <3>3, <3>4
    <2> QED BY <2>1, <2>2 DEF WindowsOverlap
<1>5. NoneIsRedundant'
    <2> SUFFICES ASSUME NEW c \in chunks', NEW d \in chunks',
                        c.section = d.section, d.from <= c.from, c.to <= d.to
                 PROVE  c = d
        BY DEF NoneIsRedundant
    <2>1. CASE c \in chunks /\ d \in chunks
        BY <2>1 DEF ChunkingInvariant, NoneIsRedundant
    <2>2. CASE c = new /\ d \in chunks
        BY <2>2, <1>1, <1>3
    <2>3. CASE c \in chunks /\ d = new
        BY <2>3, <1>1, <1>3 DEF ChunkingInvariant, TypeOK
    <2> QED BY <1>2, <2>1, <2>2, <2>3
<1>6. IdsAreUnique'
    <2> SUFFICES ASSUME SlugsDiffer', NEW c \in chunks', NEW d \in chunks', c.id = d.id
                 PROVE  c = d
        BY DEF IdsAreUnique
    <2>0. SlugsDiffer
        BY DEF SlugsDiffer
    <2>1. CASE c \in chunks /\ d \in chunks
        BY <2>0, <2>1 DEF ChunkingInvariant, IdsAreUnique
    <2>2. ASSUME NEW b \in chunks, b.id = new.id PROVE FALSE
        <3>1. b.section \in 1..Sections /\ slug[b.section] = slug[section]
            BY <1>1, <1>2, <2>2 DEF ChunkingInvariant, ChunksAreBehind, Chunks
        <3>2. b.section = section
            BY <2>0, <3>1 DEF SlugsDiffer, ChunkingInvariant, TypeOK
        <3> QED BY <1>1, <1>3, <2>2, <3>2
    <2> QED BY <1>2, <2>1, <2>2
<1> QED BY <1>1, <1>2, <1>4, <1>5, <1>6

(* Moving on to the next section keeps what is known of the sections done, *)
(* as long as this one is covered to its end.                              *)
LEMMA LeavingSection ==
    ASSUME ChunkingInvariant, section <= Sections, NextSection,
           words' = words, slug' = slug,
           chunks \subseteq chunks', chunks' \subseteq Chunks,
           \A c \in chunks' : c \in chunks \/ (c.section = section /\ c.id[1] = slug[section]),
           \A w \in 1..words[section] : \E c \in chunks' : Holds(c, section, w)
    PROVE  TypeOK' /\ CoveredSoFar' /\ WholeIsUncut' /\ ChunksAreBehind' /\ NoWordIsLost'
<1>1. TypeOK'
    BY ChunkingAssumption DEF ChunkingInvariant, TypeOK, NextSection, Chunks
<1>2. CoveredSoFar' /\ WholeIsUncut'
    BY DEF NextSection, CoveredSoFar, WholeIsUncut
<1>3. ChunksAreBehind'
    BY DEF ChunkingInvariant, ChunksAreBehind, TypeOK, NextSection, Chunks
<1>4. NoWordIsLost'
    <2> SUFFICES ASSUME NEW i \in 1..section, NEW w \in 1..words[i]
                 PROVE  \E c \in chunks' : Holds(c, i, w)
        BY DEF NoWordIsLost, NextSection, Holds, ChunkingInvariant, TypeOK
    <2>1. CASE i = section
        BY <2>1
    <2>2. CASE i # section
        BY <2>2 DEF ChunkingInvariant, NoWordIsLost, TypeOK
    <2> QED BY <2>1, <2>2
<1> QED BY <1>1, <1>2, <1>3, <1>4

LEMMA ChunkingInvNext == ChunkingInvariant /\ [ChunkingNext]_chunkingVars => ChunkingInvariant'
<1> SUFFICES ASSUME ChunkingInvariant, [ChunkingNext]_chunkingVars PROVE ChunkingInvariant'
    OBVIOUS
<1>a. TypeOK
    BY DEF ChunkingInvariant
<1>1. CASE KeepWhole
    <2> DEFINE new == Chunk(start, words[section])
    <2>1. /\ section <= Sections /\ start = 0 /\ number = 0
          /\ words[section] \in Nat /\ words[section] <= MaxTokens
        BY <1>1 DEF KeepWhole, ChunkingInvariant, WholeIsUncut, TypeOK
    <2>2. chunks' = chunks \cup {new} /\ words' = words /\ slug' = slug
        BY <1>1, <2>1 DEF KeepWhole
    <2>3. chunks' \subseteq Chunks /\ WindowsOverlap' /\ NoneIsRedundant' /\ IdsAreUnique'
        BY <2>1, <2>2, AddingChunk
    <2>4. /\ new.section = section /\ new.id[1] = slug[section]
          /\ new.from = 0 /\ new.to = words[section]
        BY <1>a, <2>1, NewChunkIsChunk
    <2>5. \A w \in 1..words[section] : \E c \in chunks' : Holds(c, section, w)
        BY <2>1, <2>2, <2>4 DEF Holds
    <2> HIDE DEF new
    <2>6. \A c \in chunks' : c \in chunks \/ (c.section = section /\ c.id[1] = slug[section])
        BY <2>2, <2>4
    <2>7. TypeOK' /\ CoveredSoFar' /\ WholeIsUncut' /\ ChunksAreBehind' /\ NoWordIsLost'
        BY <1>1, <2>1, <2>2, <2>3, <2>5, <2>6, LeavingSection DEF KeepWhole
    <2> QED BY <2>3, <2>7 DEF ChunkingInvariant
<1>2. CASE CutWindow
    <2> DEFINE to == start + MaxTokens
               new == Chunk(start, to)
    <2>1. /\ section \in 1..Sections /\ words[section] \in Nat /\ start \in Nat
          /\ to \in Nat /\ to < words[section] /\ Overlap < MaxTokens
          /\ start' = to - Overlap /\ number' = number + 1 /\ number \in Nat
          /\ section' = section /\ words' = words /\ slug' = slug
          /\ words[section] > MaxTokens
        BY <1>2, <1>a, ChunkingAssumption DEF CutWindow, ReachesEnd, NextStart, TypeOK
    <2>2. chunks' = chunks \cup {new}
        BY <1>2 DEF CutWindow
    <2>3. chunks' \subseteq Chunks /\ WindowsOverlap' /\ NoneIsRedundant' /\ IdsAreUnique'
        BY <2>1, <2>2, AddingChunk, ChunkingAssumption
    <2>4. /\ new.section = section /\ new.id[1] = slug[section] /\ new.id[2] = number
          /\ new.from = start /\ new.to = to
        BY <1>a, <2>1, NewChunkIsChunk
    <2> HIDE DEF new
    <2>5. TypeOK' /\ WholeIsUncut'
        BY <1>a, <2>1, <2>3, ChunkingAssumption DEF TypeOK, WholeIsUncut
    <2>6. CoveredSoFar'
        <3> SUFFICES ASSUME NEW w \in 1..start' PROVE \E c \in chunks' : Holds(c, section, w)
            BY <2>1 DEF CoveredSoFar, Holds
        <3>1. CASE w <= start
            BY <2>1, <2>2, <3>1 DEF ChunkingInvariant, CoveredSoFar
        <3>2. CASE w > start
            <4>1. w <= to
                BY <2>1, ChunkingAssumption
            <4> QED BY <2>1, <2>2, <2>4, <3>2, <4>1 DEF Holds
        <3> QED BY <2>1, <3>1, <3>2
    <2>7. ChunksAreBehind'
        <3> SUFFICES ASSUME NEW c \in chunks'
                     PROVE  /\ c.section <= section
                            /\ c.id[1] = slug[c.section]
                            /\ c.section = section =>
                                  /\ c.id[2] < number + 1
                                  /\ c.from < to - Overlap
                                  /\ c.to <= to - Overlap + Overlap
                                  /\ c.to < words[section]
                                  /\ c.id[2] + 1 = number + 1 => c.to = to - Overlap + Overlap
            BY <2>1 DEF ChunksAreBehind
        <3>1. CASE c = new
            BY <2>1, <2>4, <3>1, ChunkingAssumption
        <3>2. CASE c \in chunks
            <4>1. /\ c.section <= section /\ c.id[1] = slug[c.section]
                  /\ c.section = section =>
                        /\ c.id[2] < number /\ c.from < start /\ c.to <= start + Overlap
                        /\ c.to < words[section]
                BY <3>2 DEF ChunkingInvariant, ChunksAreBehind
            <4>2. c.id[2] \in Nat /\ c.from \in Nat /\ c.to \in Nat
                BY <1>a, <3>2 DEF TypeOK, Chunks
            <4> QED BY <2>1, <4>1, <4>2, ChunkingAssumption
        <3> QED BY <2>2, <3>1, <3>2
    <2>8. NoWordIsLost'
        BY <2>1, <2>2 DEF ChunkingInvariant, NoWordIsLost, Holds
    <2> QED BY <2>3, <2>5, <2>6, <2>7, <2>8 DEF ChunkingInvariant
<1>3. CASE EndSection
    <2>1. /\ section \in 1..Sections /\ words[section] \in Nat /\ start \in Nat
          /\ words' = words /\ slug' = slug
        BY <1>3, <1>a DEF EndSection, TypeOK
    <2>2. CASE start < words[section]
        <3> DEFINE new == Chunk(start, words[section])
        <3>1. chunks' = chunks \cup {new} /\ words[section] - start <= MaxTokens
            BY <1>3, <2>1, <2>2, ChunkingAssumption DEF EndSection, ReachesEnd
        <3>2. chunks' \subseteq Chunks /\ WindowsOverlap' /\ NoneIsRedundant' /\ IdsAreUnique'
            BY <2>1, <2>2, <3>1, AddingChunk
        <3>3. /\ new.section = section /\ new.id[1] = slug[section]
              /\ new.from = start /\ new.to = words[section]
            BY <1>a, <2>1, NewChunkIsChunk
        <3> HIDE DEF new
        <3>4. ASSUME NEW w \in 1..words[section]
              PROVE  \E c \in chunks' : Holds(c, section, w)
            <4>1. CASE w <= start
                BY <2>1, <3>1, <4>1 DEF ChunkingInvariant, CoveredSoFar
            <4>2. CASE w > start
                BY <2>1, <3>1, <3>3, <4>2 DEF Holds
            <4> QED BY <2>1, <4>1, <4>2
        <3>5. \A c \in chunks' : c \in chunks \/ (c.section = section /\ c.id[1] = slug[section])
            BY <3>1, <3>3
        <3>6. TypeOK' /\ CoveredSoFar' /\ WholeIsUncut' /\ ChunksAreBehind' /\ NoWordIsLost'
            BY <1>3, <2>1, <3>1, <3>2, <3>4, <3>5, LeavingSection DEF EndSection
        <3> QED BY <3>2, <3>6 DEF ChunkingInvariant
    <2>3. CASE start >= words[section]
        <3>1. chunks' = chunks
            BY <1>3, <2>1, <2>3 DEF EndSection
        <3>2. \A w \in 1..words[section] : \E c \in chunks' : Holds(c, section, w)
            BY <2>1, <2>3, <3>1 DEF ChunkingInvariant, CoveredSoFar
        <3>3. TypeOK' /\ CoveredSoFar' /\ WholeIsUncut' /\ ChunksAreBehind' /\ NoWordIsLost'
            BY <1>3, <1>a, <2>1, <3>1, <3>2, LeavingSection DEF EndSection, TypeOK
        <3>4. WindowsOverlap' /\ NoneIsRedundant' /\ IdsAreUnique'
            BY <2>1, <3>1
            DEF ChunkingInvariant, WindowsOverlap, NoneIsRedundant, IdsAreUnique, SlugsDiffer
        <3> QED BY <3>3, <3>4 DEF ChunkingInvariant
    <2> QED BY <2>1, <2>2, <2>3
<1>4. CASE UNCHANGED chunkingVars
    BY <1>4 DEF chunkingVars, ChunkingInvariant, TypeOK, CoveredSoFar, WholeIsUncut, ChunksAreBehind,
        NoWordIsLost, WindowsOverlap, NoneIsRedundant, IdsAreUnique, SlugsDiffer, Holds
<1> QED BY <1>1, <1>2, <1>3, <1>4 DEF ChunkingNext

(* No word is lost and ids are unique (structural.py: chunk), whatever the *)
(* sections are.                                                           *)
THEOREM ChunkingInvariantHolds == ChunkingSpec => []ChunkingInvariant
    BY ChunkingInvInit, ChunkingInvNext, PTL DEF ChunkingSpec

(* Every word of a section that is done is in one of its chunks.           *)
THEOREM NoWordIsLostHolds == ChunkingSpec => []NoWordIsLost
<1>1. ChunkingInvariant => NoWordIsLost
    BY DEF ChunkingInvariant
<1> QED BY <1>1, ChunkingInvariantHolds, PTL

(* Consecutive chunks of a section share exactly Overlap words.            *)
THEOREM WindowsOverlapHolds == ChunkingSpec => []WindowsOverlap
<1>1. ChunkingInvariant => WindowsOverlap
    BY DEF ChunkingInvariant
<1> QED BY <1>1, ChunkingInvariantHolds, PTL

(* structural.py: where slugs differ, no two chunks of a policy share an   *)
(* id.                                                                     *)
THEOREM IdsAreUniqueHolds == ChunkingSpec => []IdsAreUnique
<1>1. ChunkingInvariant => IdsAreUnique
    BY DEF ChunkingInvariant
<1> QED
    BY <1>1, ChunkingInvariantHolds, PTL

(* The loop over a section always moves forward, so it ends.               *)
THEOREM EachWindowAdvancesHolds == ChunkingSpec => EachWindowAdvances
<1>1. ChunkingInvariant /\ [ChunkingNext]_chunkingVars => [section' = section => start' > start]_chunkingVars
    <2> SUFFICES ASSUME ChunkingInvariant, ChunkingNext, section' = section PROVE start' > start
        OBVIOUS
    <2>1. CASE CutWindow
        BY <2>1, ChunkingAssumption DEF CutWindow, NextStart, ChunkingInvariant, TypeOK
    <2>2. CASE KeepWhole \/ EndSection
        BY <2>2 DEF KeepWhole, EndSection, NextSection, ChunkingInvariant, TypeOK
    <2> QED BY <2>1, <2>2 DEF ChunkingNext
<1> QED BY <1>1, ChunkingInvariantHolds, PTL DEF ChunkingSpec, EachWindowAdvances

-----------------------------------------------------------------------------
(* The files of the seed. *)

USE SeedFilesAssumption

Policies == [text : Texts, version : 1..MaxVersion]
RowSets == {NoRows} \cup {Rows(p) : p \in Policies}

(* A cache that holds for each content the vector of that content.         *)
Caches == {[key \in keys |-> key] : keys \in SUBSET Contents}

Stages == {"idle", "broken", "open_sql", "write_sql", "read_sql", "chunk", "load_cache",
           "embed", "open_cache", "write_cache", "load"}
Processes == [pc : Stages, sql : RowSets \cup {Half}, rows : RowSets, cache : Caches,
              fresh : BOOLEAN, alone : BOOLEAN, began : SUBSET Policies]

AuthorTypeOK == policy \in Policies /\ checksums \in Policies /\ committed \in Policies
SeedTypeOK ==
    /\ sqlFile \in RowSets \cup {Half}
    /\ cacheFile \in Caches \cup {Half}
    /\ seed \in [Seeds -> Processes]

OneAtATime == ~overlapped => \A s, r \in Seeds : Running(s) /\ Running(r) => s = r

AloneIsAlone ==
    \A s \in Seeds : Running(s) /\ seed[s].alone =>
        /\ seed[s].began = {policy}
        /\ \A r \in Seeds \ {s} : ~Running(r)

FileIsOwn ==
    \A s \in Seeds :
        /\ seed[s].pc \in {"write_sql", "write_cache"}
        /\ seed[s].alone \/ ~overlapped
        => seed[s].fresh

AloneHasThePolicy ==
    \A s \in Seeds : Running(s) /\ seed[s].alone =>
        /\ seed[s].sql = Rows(policy)
        /\ seed[s].pc = "read_sql" => sqlFile = Rows(policy)
        /\ seed[s].pc \in {"load_cache", "embed", "open_cache", "write_cache", "load"}
              => seed[s].rows = Rows(policy)

HasAll(cache, rows) == \A id \in DOMAIN rows : rows[id].content \in DOMAIN cache

LoadsWhatItHas ==
    \A s \in Seeds : seed[s].pc = "load" => HasAll(seed[s].cache, seed[s].rows)

HalfHasAReason ==
    cacheFile = Half =>
        crashed \/ overlapped \/ \E s \in Seeds : seed[s].pc = "write_cache"

SavedIsCached ==
    ~overlapped =>
        /\ cacheFile # Half => saved \subseteq DOMAIN cacheFile
        /\ \A s \in Seeds : seed[s].pc \in {"embed", "open_cache", "write_cache"}
              => saved \subseteq DOMAIN seed[s].cache

SeedInvariant ==
    /\ AuthorTypeOK /\ SeedTypeOK
    /\ OneAtATime /\ AloneIsAlone /\ FileIsOwn /\ AloneHasThePolicy /\ LoadsWhatItHas
    /\ HalfHasAReason /\ SavedIsCached
    /\ UndisturbedSeedIsExact /\ TextIsEmbeddedOnce /\ CacheBreaksOnlyInACrash

-----------------------------------------------------------------------------
(* Rows, caches and what is half written. *)

LEMMA RowsAreOfChunks ==
    ASSUME NEW p \in Policies, NEW id \in DOMAIN Rows(p)
    PROVE  Rows(p)[id].content \in Contents /\ Rows(p)[id].version = p.version
<1>1. p.text \in DOMAIN ChunksOf /\ id \in DOMAIN ChunksOf[p.text]
    BY DEF Policies, Rows
<1>2. ChunksOf[p.text][id] \in Range(ChunksOf[p.text])
    BY <1>1 DEF Range
<1> QED BY <1>1, <1>2 DEF Rows, Contents

LEMMA ContentsOfRows ==
    ASSUME NEW rows \in RowSets, NEW id \in DOMAIN rows
    PROVE  rows[id].content \in Contents
<1>1. CASE rows = NoRows
    BY <1>1 DEF NoRows
<1>2. CASE \E p \in Policies : rows = Rows(p)
    BY <1>2, RowsAreOfChunks
<1> QED BY <1>1, <1>2 DEF RowSets

LEMMA CacheIsExact ==
    ASSUME NEW c \in Caches
    PROVE  /\ DOMAIN c \subseteq Contents
           /\ c = [key \in DOMAIN c |-> key]
           /\ c # Half
<1>1. PICK keys \in SUBSET Contents : c = [key \in keys |-> key]
    BY DEF Caches
<1>2. c \in [keys -> Contents]
    BY <1>1
<1> QED BY <1>1, <1>2, HalfIsNotWhole

LEMMA NoRowsIsACache == NoRows \in Caches
<1>1. NoRows = [key \in {} |-> key]
    BY DEF NoRows
<1> QED BY <1>1 DEF Caches

LEMMA HalfIsNoRows == Half \notin RowSets
<1>1. Half # NoRows
    BY NoRowsIsACache, CacheIsExact
<1>2. ASSUME NEW p \in Policies PROVE Half # Rows(p)
  <2>1. p.text \in Texts /\ p.version \in 1..MaxVersion
      BY DEF Policies
  <2>2. Rows(p) = Rows([text |-> p.text, version |-> p.version])
      BY DEF Rows
  <2> QED BY <2>1, <2>2, HalfIsNotWhole
<1> QED BY <1>1, <1>2 DEF RowSets

(* What embed_policy_chunks saves: the cache, and what was missing.        *)
LEMMA ExtendedIsACache ==
    ASSUME SeedTypeOK, NEW s \in Seeds
    PROVE  /\ Extended(s) \in Caches
           /\ DOMAIN Extended(s) =
                 DOMAIN seed[s].cache \cup Missing(s, seed[s].cache)
<1> DEFINE rows == seed[s].rows
           cache == seed[s].cache
           ids == {i \in DOMAIN rows : rows[i].content \notin DOMAIN cache}
           missing == {rows[i].content : i \in ids}
<1>1. rows \in RowSets /\ cache \in Caches
    BY DEF SeedTypeOK, Processes
<1>2. Missing(s, cache) = missing
    BY DEF Missing, Key, CacheKey
<1>3. DOMAIN NewEntries(s) = missing
    BY DEF NewEntries, Key, CacheKey
<1>4. missing \subseteq Contents
    BY <1>1, ContentsOfRows
<1>5. ASSUME NEW key \in missing PROVE Vector(s, key) = key
  <2>1. NewEntries(s)[key] = CHOOSE i \in ids : rows[i].content = key
      BY DEF NewEntries, Key, CacheKey
  <2>2. \E i \in ids : rows[i].content = key
      OBVIOUS
  <2>3. rows[NewEntries(s)[key]].content = key
      BY <2>1, <2>2
  <2> QED BY <2>3 DEF Vector
<1>6. DOMAIN cache \subseteq Contents /\ cache = [key \in DOMAIN cache |-> key]
    BY <1>1, CacheIsExact
<1>7. Extended(s) = [key \in DOMAIN cache \cup missing |->
          IF key \in DOMAIN cache THEN cache[key] ELSE Vector(s, key)]
    BY <1>3 DEF Extended
<1>8. Extended(s) = [key \in DOMAIN cache \cup missing |-> key]
  <2> HIDE DEF missing, cache
  <2> QED BY <1>5, <1>6, <1>7
<1> QED BY <1>2, <1>4, <1>6, <1>8 DEF Caches

-----------------------------------------------------------------------------
(* The invariant, one part after the other. *)

LEMMA InvInit == Init => SeedInvariant
<1> SUFFICES ASSUME Init PROVE SeedInvariant
    OBVIOUS
<1>1. AuthorTypeOK
    BY DEF Init, AuthorTypeOK, Policies
<1>2. Resting \in Processes
    BY NoRowsIsACache DEF Resting, Processes, Stages, RowSets
<1>3. SeedTypeOK
    BY <1>2, NoRowsIsACache DEF Init, SeedTypeOK, RowSets
<1>4. \A s \in Seeds : seed[s].pc = "idle"
    BY DEF Init, Resting
<1>5. OneAtATime /\ AloneIsAlone /\ FileIsOwn /\ AloneHasThePolicy /\ LoadsWhatItHas
    BY <1>4 DEF OneAtATime, AloneIsAlone, FileIsOwn, AloneHasThePolicy, LoadsWhatItHas,
        Running
<1>6. cacheFile # Half
    BY NoRowsIsACache, CacheIsExact DEF Init
<1>7. HalfHasAReason /\ SavedIsCached
    BY <1>4, <1>6 DEF Init, HalfHasAReason, SavedIsCached
<1>8. UndisturbedSeedIsExact /\ TextIsEmbeddedOnce /\ CacheBreaksOnlyInACrash
    BY <1>4 DEF Init, UndisturbedSeedIsExact, TextIsEmbeddedOnce, CacheBreaksOnlyInACrash
<1> QED BY <1>1, <1>3, <1>5, <1>7, <1>8 DEF SeedInvariant

LEMMA AuthorTypeNext == AuthorTypeOK /\ [Next]_vars => AuthorTypeOK'
<1> SUFFICES ASSUME AuthorTypeOK, [Next]_vars PROVE AuthorTypeOK'
    OBVIOUS
<1> USE DEF AuthorTypeOK, Policies
<1>1. CASE UNCHANGED author
    BY <1>1 DEF author
<1>2. ASSUME NEW t \in Texts, EditText(t) PROVE AuthorTypeOK'
    BY <1>2 DEF EditText
<1>3. CASE BumpVersion
    BY <1>3 DEF BumpVersion
<1>4. CASE UpdateChecksums \/ UpdateSnapshot \/ Commit
    BY <1>4 DEF UpdateChecksums, UpdateSnapshot, Commit
<1>5. ASSUME NEW s \in Seeds, LoadSeedData(s) PROVE UNCHANGED author
    BY <1>5 DEF LoadSeedData, Render, OpenSql, WriteSql, ReadSql, ChunkAgain, LoadCache,
        Embed, OpenCache, WriteCache, Load, Die
<1> QED BY <1>1, <1>2, <1>3, <1>4, <1>5 DEF Next, vars

(* What a change of one process leaves of the others. *)
LEMMA StepIs ==
    ASSUME SeedTypeOK, NEW s \in Seeds, NEW change \in Processes, NEW pc \in Stages,
           Step(s, pc, change)
    PROVE  /\ seed' \in [Seeds -> Processes]
           /\ seed'[s] = [change EXCEPT !.pc = pc]
           /\ \A r \in Seeds \ {s} : seed'[r] = seed[r]
<1>1. [change EXCEPT !.pc = pc] \in Processes
    BY DEF Processes
<1> QED BY <1>1 DEF SeedTypeOK, Step

LEMMA SeedTypeNext == AuthorTypeOK /\ SeedTypeOK /\ [Next]_vars => SeedTypeOK'
<1> SUFFICES ASSUME AuthorTypeOK, SeedTypeOK, [Next]_vars PROVE SeedTypeOK'
    OBVIOUS
<1>1. Rows(policy) \in RowSets /\ policy \in Policies
    BY DEF AuthorTypeOK, RowSets
<1>2. Resting \in Processes
    BY NoRowsIsACache DEF Resting, Processes, Stages, RowSets
<1>3. \A s \in Seeds : seed[s] \in Processes /\ Extended(s) \in Caches
    BY ExtendedIsACache DEF SeedTypeOK
<1>4. ASSUME NEW s \in Seeds, Render(s) PROVE SeedTypeOK'
  <2>1. [Resting EXCEPT !.pc = "open_sql", !.sql = Rows(policy),
             !.alone = {r \in Seeds \ {s} : Running(r)} = {}, !.began = {policy}] \in Processes
      BY <1>1, <1>2 DEF Processes, Stages
  <2>2. \A r \in Seeds : [seed[r] EXCEPT !.alone = FALSE] \in Processes
      BY <1>3 DEF Processes
  <2> QED BY <1>4, <2>1, <2>2 DEF SeedTypeOK, Render, files
<1>5. ASSUME NEW s \in Seeds, OpenSql(s) PROVE SeedTypeOK'
  <2>1. [seed[s] EXCEPT !.fresh = TRUE] \in Processes
      BY <1>3 DEF Processes
  <2> QED BY <1>5, <2>1, StepIs DEF SeedTypeOK, OpenSql, Stages
<1>6. ASSUME NEW s \in Seeds, WriteSql(s) PROVE SeedTypeOK'
  <2>1. sqlFile' \in RowSets \cup {Half}
      BY <1>3, <1>6 DEF WriteSql, Written, Processes
  <2>2. [seed[s] EXCEPT !.pc = "read_sql"] \in Processes
      BY <1>3 DEF Processes, Stages
  <2>3. \A r \in Seeds : [seed[r] EXCEPT !.fresh = FALSE] \in Processes
      BY <1>3 DEF Processes
  <2> QED BY <1>3, <1>6, <2>1, <2>2, <2>3 DEF SeedTypeOK, WriteSql, StepAndStale
<1>7. ASSUME NEW s \in Seeds, ReadSql(s) PROVE SeedTypeOK'
  <2>1. [seed[s] EXCEPT !.sql = sqlFile] \in Processes
      BY <1>3 DEF SeedTypeOK, Processes
  <2> QED BY <1>7, <2>1, StepIs DEF SeedTypeOK, ReadSql, files, Stages
<1>8. ASSUME NEW s \in Seeds, ChunkAgain(s) PROVE SeedTypeOK'
  <2>1. [seed[s] EXCEPT !.rows = Rows(policy)] \in Processes
      BY <1>1, <1>3 DEF Processes
  <2> QED BY <1>8, <2>1, StepIs DEF SeedTypeOK, ChunkAgain, files, Stages
<1>9. ASSUME NEW s \in Seeds, LoadCache(s) PROVE SeedTypeOK'
  <2>1. CASE cacheFile = Half
      BY <1>2, <1>9, <2>1, StepIs DEF SeedTypeOK, LoadCache, files, Stages
  <2>2. CASE cacheFile # Half
    <3>1. [seed[s] EXCEPT !.cache = cacheFile] \in Processes
        BY <1>3, <2>2 DEF SeedTypeOK, Processes
    <3>2. CASE Missing(s, cacheFile) = {}
        BY <1>9, <2>2, <3>1, <3>2, StepIs DEF SeedTypeOK, LoadCache, files, Stages
    <3>3. CASE Missing(s, cacheFile) # {}
        BY <1>9, <2>2, <3>1, <3>3, StepIs DEF SeedTypeOK, LoadCache, files, Stages
    <3> QED BY <3>2, <3>3
  <2> QED BY <2>1, <2>2
<1>10. ASSUME NEW s \in Seeds, Embed(s) PROVE SeedTypeOK'
  <2>1. CASE Step(s, "open_cache", seed[s])
      BY <1>3, <1>10, <2>1, StepIs DEF SeedTypeOK, Embed, files, Stages
  <2>2. CASE Step(s, "idle", Resting)
      BY <1>2, <1>10, <2>2, StepIs DEF SeedTypeOK, Embed, files, Stages
  <2> QED BY <1>10, <2>1, <2>2 DEF Embed
<1>11. ASSUME NEW s \in Seeds, OpenCache(s) PROVE SeedTypeOK'
  <2>1. [seed[s] EXCEPT !.fresh = TRUE] \in Processes
      BY <1>3 DEF Processes
  <2> QED BY <1>11, <2>1, StepIs DEF SeedTypeOK, OpenCache, Stages
<1>12. ASSUME NEW s \in Seeds, WriteCache(s) PROVE SeedTypeOK'
  <2>1. cacheFile' \in Caches \cup {Half}
      BY <1>3, <1>12 DEF WriteCache, Written, ToSave
  <2>2. [seed[s] EXCEPT !.pc = "load", !.cache = Extended(s)] \in Processes
      BY <1>3 DEF Processes, Stages
  <2>3. \A r \in Seeds : [seed[r] EXCEPT !.fresh = FALSE] \in Processes
      BY <1>3 DEF Processes
  <2> QED BY <1>3, <1>12, <2>1, <2>2, <2>3 DEF SeedTypeOK, WriteCache
<1>13. ASSUME NEW s \in Seeds, Load(s) \/ Die(s) PROVE SeedTypeOK'
    BY <1>2, <1>13, StepIs DEF SeedTypeOK, Load, Die, files, Stages
<1>14. ASSUME Disturb, UNCHANGED files PROVE SeedTypeOK'
    BY <1>14 DEF SeedTypeOK, Disturb, files, Processes
<1>15. CASE (\E t \in Texts : EditText(t)) \/ BumpVersion
    BY <1>14, <1>15 DEF EditText, BumpVersion
<1>16. CASE UpdateChecksums \/ UpdateSnapshot \/ Commit \/ UNCHANGED vars
    BY <1>16 DEF SeedTypeOK, UpdateChecksums, UpdateSnapshot, Commit, vars, files
<1> QED
    BY <1>4, <1>5, <1>6, <1>7, <1>8, <1>9, <1>10, <1>11, <1>12, <1>13, <1>15, <1>16
    DEF Next, LoadSeedData

-----------------------------------------------------------------------------
(* What each operation does to the process that runs it, field by field.   *)

KeepsOrigin(s) == seed'[s].alone = seed[s].alone /\ seed'[s].began = seed[s].began
KeepsHeld(s) ==
    /\ seed'[s].sql = seed[s].sql
    /\ seed'[s].rows = seed[s].rows
    /\ seed'[s].cache = seed[s].cache
Goes(s, pc, next) == seed[s].pc = pc /\ seed'[s].pc = next
Stops(s) == Running(s) /\ seed'[s].pc \in {"idle", "broken"}

LEMMA SqlStepsDo ==
    ASSUME SeedTypeOK, NEW s \in Seeds
    PROVE  /\ OpenSql(s) => /\ Goes(s, "open_sql", "write_sql") /\ seed'[s].fresh
                            /\ KeepsOrigin(s) /\ KeepsHeld(s)
           /\ WriteSql(s) => /\ Goes(s, "write_sql", "read_sql")
                             /\ KeepsOrigin(s) /\ KeepsHeld(s)
           /\ ReadSql(s) => /\ Goes(s, "read_sql", "chunk") /\ KeepsOrigin(s)
                            /\ seed'[s].sql = sqlFile
           /\ ChunkAgain(s) => /\ Goes(s, "chunk", "load_cache") /\ KeepsOrigin(s)
                               /\ seed'[s].rows = Rows(policy)
                               /\ seed'[s].sql = seed[s].sql
<1> USE DEF SeedTypeOK, Processes, Step, Goes, KeepsOrigin, KeepsHeld
<1>1. OpenSql(s) => /\ Goes(s, "open_sql", "write_sql") /\ seed'[s].fresh
                    /\ KeepsOrigin(s) /\ KeepsHeld(s)
    BY DEF OpenSql
<1>2. WriteSql(s) => Goes(s, "write_sql", "read_sql") /\ KeepsOrigin(s) /\ KeepsHeld(s)
    BY DEF WriteSql, StepAndStale
<1>3. ReadSql(s) => /\ Goes(s, "read_sql", "chunk") /\ KeepsOrigin(s)
                    /\ seed'[s].sql = sqlFile
    BY DEF ReadSql
<1>4. ChunkAgain(s) => /\ Goes(s, "chunk", "load_cache") /\ KeepsOrigin(s)
                       /\ seed'[s].rows = Rows(policy) /\ seed'[s].sql = seed[s].sql
    BY DEF ChunkAgain
<1> QED BY <1>1, <1>2, <1>3, <1>4

LEMMA CacheStepsDo ==
    ASSUME SeedTypeOK, NEW s \in Seeds
    PROVE  /\ LoadCache(s) =>
                \/ cacheFile = Half /\ seed[s].pc = "load_cache" /\ Stops(s)
                \/ /\ cacheFile # Half
                   /\ Goes(s, "load_cache",
                           IF Missing(s, cacheFile) = {} THEN "load" ELSE "embed")
                   /\ KeepsOrigin(s) /\ seed'[s].cache = cacheFile
                   /\ seed'[s].sql = seed[s].sql /\ seed'[s].rows = seed[s].rows
           /\ Embed(s) =>
                \/ seed[s].pc = "embed" /\ seed'[s].pc = "idle" /\ UNCHANGED resent
                \/ /\ Goes(s, "embed", "open_cache") /\ KeepsOrigin(s) /\ KeepsHeld(s)
                   /\ resent' = resent \cup (Missing(s, seed[s].cache) \cap saved)
           /\ OpenCache(s) => /\ Goes(s, "open_cache", "write_cache") /\ seed'[s].fresh
                              /\ KeepsOrigin(s) /\ KeepsHeld(s)
           /\ WriteCache(s) => /\ Goes(s, "write_cache", "load") /\ KeepsOrigin(s)
                               /\ seed'[s].cache = Extended(s)
                               /\ seed'[s].sql = seed[s].sql
                               /\ seed'[s].rows = seed[s].rows
           /\ Load(s) \/ Die(s) => Running(s) /\ seed'[s].pc = "idle"
<1> USE DEF SeedTypeOK, Processes, Step, Goes, KeepsOrigin, KeepsHeld, Stops
<1>1. LoadCache(s) =>
         \/ cacheFile = Half /\ seed[s].pc = "load_cache" /\ Stops(s)
         \/ /\ cacheFile # Half
            /\ Goes(s, "load_cache", IF Missing(s, cacheFile) = {} THEN "load" ELSE "embed")
            /\ KeepsOrigin(s) /\ seed'[s].cache = cacheFile
            /\ seed'[s].sql = seed[s].sql /\ seed'[s].rows = seed[s].rows
  <2>1. CASE cacheFile = Half
      BY <2>1 DEF LoadCache, Resting, Running
  <2>2. CASE cacheFile # Half
    <3> DEFINE next == IF Missing(s, cacheFile) = {} THEN "load" ELSE "embed"
               change == [seed[s] EXCEPT !.cache = cacheFile]
    <3>1. next \in Stages
        BY DEF Stages
    <3>2. change \in Processes
        BY <2>2
    <3>3. LoadCache(s) => seed[s].pc = "load_cache" /\ Step(s, next, change)
        BY <2>2 DEF LoadCache
    <3>4. LoadCache(s) => seed'[s] = [change EXCEPT !.pc = next]
      <4> HIDE DEF next, change, SeedTypeOK, Step
      <4> QED BY <3>1, <3>2, <3>3, StepIs
    <3> HIDE DEF next
    <3>5. LoadCache(s) => /\ seed[s].pc = "load_cache" /\ seed'[s].pc = next
                          /\ KeepsOrigin(s) /\ seed'[s].cache = cacheFile
                          /\ seed'[s].sql = seed[s].sql /\ seed'[s].rows = seed[s].rows
        BY <2>2, <3>3, <3>4
    <3> QED BY <2>2, <3>5 DEF next
  <2> QED BY <2>1, <2>2
<1>2. Embed(s) =>
         \/ seed[s].pc = "embed" /\ seed'[s].pc = "idle" /\ UNCHANGED resent
         \/ /\ Goes(s, "embed", "open_cache") /\ KeepsOrigin(s) /\ KeepsHeld(s)
            /\ resent' = resent \cup (Missing(s, seed[s].cache) \cap saved)
    BY DEF Embed, Resting
<1>3. OpenCache(s) => /\ Goes(s, "open_cache", "write_cache") /\ seed'[s].fresh
                      /\ KeepsOrigin(s) /\ KeepsHeld(s)
    BY DEF OpenCache
<1>4. WriteCache(s) => /\ Goes(s, "write_cache", "load") /\ KeepsOrigin(s)
                       /\ seed'[s].cache = Extended(s)
                       /\ seed'[s].sql = seed[s].sql /\ seed'[s].rows = seed[s].rows
    BY DEF WriteCache
<1>5. Load(s) \/ Die(s) => Running(s) /\ seed'[s].pc = "idle"
    BY DEF Load, Die, Running, Resting
<1> QED BY <1>1, <1>2, <1>3, <1>4, <1>5

(* The others keep all but, at most, the hold on a file that is written.   *)
LEMMA OthersKeep ==
    ASSUME SeedTypeOK, NEW s \in Seeds, LoadSeedData(s), ~Render(s), NEW r \in Seeds \ {s}
    PROVE  /\ seed'[r].pc = seed[r].pc /\ KeepsOrigin(r) /\ KeepsHeld(r)
           /\ seed'[r].fresh # seed[r].fresh => seed[s].pc \in {"write_sql", "write_cache"}
<1> USE DEF SeedTypeOK, Processes, KeepsOrigin, KeepsHeld
<1>1. CASE WriteSql(s)
    BY <1>1 DEF WriteSql, StepAndStale
<1>2. CASE WriteCache(s)
    BY <1>2 DEF WriteCache
<1>3. ASSUME seed'[r] = seed[r]
      PROVE  /\ seed'[r].pc = seed[r].pc /\ KeepsOrigin(r) /\ KeepsHeld(r)
             /\ seed'[r].fresh = seed[r].fresh
    BY <1>3
<1>4. CASE OpenSql(s) \/ ReadSql(s) \/ ChunkAgain(s) \/ LoadCache(s) \/ Embed(s) \/ OpenCache(s)
           \/ Load(s) \/ Die(s)
  <2>1. seed'[r] = seed[r]
      BY <1>4 DEF OpenSql, ReadSql, ChunkAgain, LoadCache, Embed, OpenCache, Load, Die, Step
  <2> QED BY <1>3, <2>1
<1> QED BY <1>1, <1>2, <1>4 DEF LoadSeedData

LEMMA RenderDoes ==
    ASSUME SeedTypeOK, NEW s \in Seeds, Render(s)
    PROVE  /\ ~Running(s)
           /\ seed'[s].pc = "open_sql" /\ seed'[s].sql = Rows(policy)
           /\ seed'[s].began = {policy}
           /\ seed'[s].alone => \A r \in Seeds \ {s} : ~Running(r)
           /\ \A r \in Seeds \ {s} :
                 /\ seed'[r].pc = seed[r].pc /\ seed'[r].fresh = seed[r].fresh
                 /\ KeepsHeld(r) /\ ~seed'[r].alone
           /\ ~overlapped' => ~overlapped /\ \A r \in Seeds : ~Running(r)
           /\ UNCHANGED <<author, files, db, saved, resent, crashed>>
<1>1. seed'[s] = [Resting EXCEPT !.pc = "open_sql", !.sql = Rows(policy),
          !.alone = {r \in Seeds \ {s} : Running(r)} = {}, !.began = {policy}]
    BY DEF Render, SeedTypeOK
<1>2. ~Running(s) /\ UNCHANGED <<author, files, db, saved, resent, crashed>>
      /\ overlapped' = (overlapped \/ {r \in Seeds \ {s} : Running(r)} # {})
    BY DEF Render
<1>3. \A r \in Seeds \ {s} : /\ seed'[r].pc = seed[r].pc /\ seed'[r].fresh = seed[r].fresh
                              /\ KeepsHeld(r) /\ ~seed'[r].alone
    BY DEF Render, SeedTypeOK, Processes, KeepsHeld
<1>4. /\ seed'[s].pc = "open_sql" /\ seed'[s].sql = Rows(policy)
      /\ seed'[s].began = {policy}
      /\ seed'[s].alone => \A r \in Seeds \ {s} : ~Running(r)
    BY <1>1 DEF Resting
<1> QED BY <1>2, <1>3, <1>4

LEMMA AuthorDoes ==
    ASSUME SeedTypeOK,
           (\E t \in Texts : EditText(t)) \/ BumpVersion \/ UpdateChecksums \/ UpdateSnapshot
           \/ Commit \/ UNCHANGED vars
    PROVE  /\ UNCHANGED <<files, db, saved, resent, overlapped, crashed>>
           /\ \A s \in Seeds :
                 /\ seed'[s].pc = seed[s].pc /\ seed'[s].fresh = seed[s].fresh
                 /\ seed'[s].began = seed[s].began /\ KeepsHeld(s)
                 /\ seed'[s].alone => seed[s].alone /\ policy' = policy
<1>1. CASE (\E t \in Texts : EditText(t)) \/ BumpVersion
  <2>1. Disturb /\ UNCHANGED <<files, db, saved, resent, overlapped, crashed>>
      BY <1>1 DEF EditText, BumpVersion, past, files
  <2> QED BY <2>1 DEF Disturb, SeedTypeOK, Processes, KeepsHeld
<1>2. CASE UpdateChecksums \/ UpdateSnapshot \/ Commit \/ UNCHANGED vars
    BY <1>2 DEF UpdateChecksums, UpdateSnapshot, Commit, vars, past, files, author, KeepsHeld
<1> QED BY <1>1, <1>2

-----------------------------------------------------------------------------
LEMMA AloneNext ==
    SeedInvariant /\ [Next]_vars => OneAtATime' /\ AloneIsAlone'
<1> SUFFICES ASSUME SeedTypeOK, OneAtATime, AloneIsAlone, [Next]_vars
             PROVE  OneAtATime' /\ AloneIsAlone'
    BY DEF SeedInvariant
<1> USE DEF OneAtATime, AloneIsAlone, Running
<1>1. ASSUME NEW s \in Seeds, Render(s) PROVE OneAtATime' /\ AloneIsAlone'
  <2>1. UNCHANGED policy
      BY <1>1, RenderDoes DEF author
  <2> QED BY <1>1, <2>1, RenderDoes
<1>2. ASSUME NEW s \in Seeds, LoadSeedData(s), ~Render(s) PROVE OneAtATime' /\ AloneIsAlone'
  <2>1. UNCHANGED <<policy, overlapped>>
      BY <1>2 DEF LoadSeedData, OpenSql, WriteSql, ReadSql, ChunkAgain, LoadCache, Embed,
          OpenCache, WriteCache, Load, Die, author, past
  <2>2. Running(s) /\ ((~seed'[s].pc \in {"idle", "broken"}) => KeepsOrigin(s))
    <3>1. CASE OpenSql(s) \/ WriteSql(s) \/ ReadSql(s) \/ ChunkAgain(s)
        BY <3>1, SqlStepsDo DEF Goes
    <3>2. CASE LoadCache(s) \/ Embed(s) \/ OpenCache(s) \/ WriteCache(s)
        BY <3>2, CacheStepsDo DEF Goes, Stops
    <3>3. CASE Load(s) \/ Die(s)
        BY <3>3, CacheStepsDo
    <3> QED BY <1>2, <3>1, <3>2, <3>3 DEF LoadSeedData
  <2>3. \A r \in Seeds \ {s} : seed'[r].pc = seed[r].pc /\ KeepsOrigin(r)
      BY <1>2, OthersKeep
  <2> QED BY <2>1, <2>2, <2>3 DEF KeepsOrigin
<1>3. CASE (\E t \in Texts : EditText(t)) \/ BumpVersion \/ UpdateChecksums \/ UpdateSnapshot
           \/ Commit \/ UNCHANGED vars
    BY <1>3, AuthorDoes
<1> QED BY <1>1, <1>2, <1>3 DEF Next

(* A process writes both files over its own, or somebody else is seeding.  *)
LEMMA FileIsOwnNext == SeedInvariant /\ [Next]_vars => FileIsOwn'
<1> SUFFICES ASSUME SeedTypeOK, OneAtATime, AloneIsAlone, FileIsOwn, [Next]_vars
             PROVE  FileIsOwn'
    BY DEF SeedInvariant
<1> USE DEF FileIsOwn
<1>1. ASSUME NEW s \in Seeds, Render(s) PROVE FileIsOwn'
    BY <1>1, RenderDoes
<1>2. ASSUME NEW s \in Seeds, LoadSeedData(s), ~Render(s) PROVE FileIsOwn'
  <2>1. UNCHANGED overlapped
      BY <1>2 DEF LoadSeedData, OpenSql, WriteSql, ReadSql, ChunkAgain, LoadCache, Embed,
          OpenCache, WriteCache, Load, Die, past
  <2>2. seed'[s].pc \in {"write_sql", "write_cache"} => seed'[s].fresh
    <3>1. CASE OpenSql(s) \/ WriteSql(s) \/ ReadSql(s) \/ ChunkAgain(s)
        BY <3>1, SqlStepsDo DEF Goes
    <3>2. CASE LoadCache(s) \/ Embed(s) \/ OpenCache(s) \/ WriteCache(s)
        BY <3>2, CacheStepsDo DEF Goes, Stops
    <3>3. CASE Load(s) \/ Die(s)
        BY <3>3, CacheStepsDo
    <3> QED BY <1>2, <3>1, <3>2, <3>3 DEF LoadSeedData
  <2>3. ASSUME NEW r \in Seeds \ {s}, seed'[r].pc \in {"write_sql", "write_cache"},
               seed'[r].alone \/ ~overlapped'
        PROVE  seed'[r].fresh
    <3>1. /\ seed'[r].pc = seed[r].pc /\ seed'[r].alone = seed[r].alone
          /\ seed'[r].fresh # seed[r].fresh => seed[s].pc \in {"write_sql", "write_cache"}
        BY <1>2, OthersKeep DEF KeepsOrigin
    <3>2. seed[r].fresh /\ Running(r)
        BY <2>1, <2>3, <3>1 DEF Running
    <3>3. ~Running(s)
        BY <2>1, <2>3, <3>1, <3>2 DEF OneAtATime, AloneIsAlone
    <3> QED BY <3>1, <3>2, <3>3 DEF Running
  <2> QED BY <2>2, <2>3
<1>3. CASE (\E t \in Texts : EditText(t)) \/ BumpVersion \/ UpdateChecksums \/ UpdateSnapshot
           \/ Commit \/ UNCHANGED vars
    BY <1>3, AuthorDoes
<1> QED BY <1>1, <1>2, <1>3 DEF Next

(* An operation leaves the policy and what the seeds overlap; no other is  *)
(* alone while it runs.                                                    *)
LEMMA LoadSeedDataLeaves ==
    ASSUME SeedTypeOK, AloneIsAlone, NEW s \in Seeds, LoadSeedData(s), ~Render(s)
    PROVE  /\ UNCHANGED <<policy, overlapped>> /\ Running(s)
           /\ \A r \in Seeds \ {s} : Running(r)' => ~seed'[r].alone
<1>1. UNCHANGED <<policy, overlapped>>
    BY DEF LoadSeedData, OpenSql, WriteSql, ReadSql, ChunkAgain, LoadCache, Embed,
        OpenCache, WriteCache, Load, Die, author, past
<1>2. Running(s)
    BY DEF LoadSeedData, OpenSql, WriteSql, ReadSql, ChunkAgain, LoadCache, Embed,
        OpenCache, WriteCache, Load, Die, Running
<1>3. \A r \in Seeds \ {s} : seed'[r].pc = seed[r].pc /\ seed'[r].alone = seed[r].alone
    BY OthersKeep DEF KeepsOrigin
<1> QED BY <1>1, <1>2, <1>3 DEF AloneIsAlone, Running

LEMMA AloneHasThePolicyNext == SeedInvariant /\ [Next]_vars => AloneHasThePolicy'
<1> SUFFICES ASSUME SeedTypeOK, AloneIsAlone, FileIsOwn, AloneHasThePolicy, [Next]_vars
             PROVE  AloneHasThePolicy'
    BY DEF SeedInvariant
<1> USE DEF AloneHasThePolicy
<1>1. ASSUME NEW s \in Seeds, Render(s) PROVE AloneHasThePolicy'
  <2>1. UNCHANGED policy
      BY <1>1, RenderDoes DEF author
  <2> QED BY <1>1, <2>1, RenderDoes
<1>2. ASSUME NEW s \in Seeds, LoadSeedData(s), ~Render(s) PROVE AloneHasThePolicy'
  <2> SUFFICES ASSUME Running(s)', seed'[s].alone
               PROVE  /\ seed'[s].sql = Rows(policy)
                      /\ seed'[s].pc = "read_sql" => sqlFile' = Rows(policy)
                      /\ seed'[s].pc \in {"load_cache", "embed", "open_cache", "write_cache",
                                         "load"}
                            => seed'[s].rows = Rows(policy)
      BY <1>2, LoadSeedDataLeaves
  <2>1. CASE OpenSql(s)
      BY <2>1, SqlStepsDo DEF Goes, KeepsOrigin, KeepsHeld, Running
  <2>2. CASE WriteSql(s)
    <3>1. seed[s].pc = "write_sql" /\ seed[s].alone /\ seed[s].sql = Rows(policy)
        BY <2>2, SqlStepsDo DEF Goes, KeepsOrigin, KeepsHeld, Running
    <3>2. sqlFile' = seed[s].sql
        BY <2>2, <3>1 DEF FileIsOwn, WriteSql, Written
    <3> QED BY <2>2, <3>1, <3>2, SqlStepsDo DEF Goes, KeepsHeld
  <2>3. CASE ReadSql(s) \/ ChunkAgain(s)
      BY <2>3, SqlStepsDo DEF Goes, KeepsOrigin, Running
  <2>4. CASE LoadCache(s) \/ Embed(s) \/ OpenCache(s) \/ WriteCache(s)
      BY <2>4, CacheStepsDo DEF Goes, Stops, KeepsOrigin, KeepsHeld, Running
  <2>5. CASE Load(s) \/ Die(s)
      BY <2>5, CacheStepsDo DEF Running
  <2> QED BY <1>2, <2>1, <2>2, <2>3, <2>4, <2>5 DEF LoadSeedData
<1>3. CASE (\E t \in Texts : EditText(t)) \/ BumpVersion \/ UpdateChecksums \/ UpdateSnapshot
           \/ Commit \/ UNCHANGED vars
    BY <1>3, AuthorDoes DEF KeepsHeld, Running, files
<1> QED BY <1>1, <1>2, <1>3 DEF Next

(* When a seed gets to the database, its cache has all its rows.           *)
LEMMA LoadsWhatItHasNext == SeedInvariant /\ [Next]_vars => LoadsWhatItHas'
<1> SUFFICES ASSUME SeedTypeOK, AloneIsAlone, LoadsWhatItHas, [Next]_vars
             PROVE  LoadsWhatItHas'
    BY DEF SeedInvariant
<1> USE DEF LoadsWhatItHas
<1>1. ASSUME NEW s \in Seeds, Render(s) PROVE LoadsWhatItHas'
    BY <1>1, RenderDoes DEF KeepsHeld
<1>2. ASSUME NEW s \in Seeds, LoadSeedData(s), ~Render(s) PROVE LoadsWhatItHas'
  <2>1. seed'[s].pc = "load" => HasAll(seed'[s].cache, seed'[s].rows)
    <3>1. CASE OpenSql(s) \/ WriteSql(s) \/ ReadSql(s) \/ ChunkAgain(s)
        BY <3>1, SqlStepsDo DEF Goes
    <3>2. CASE LoadCache(s)
      <4>1. Missing(s, cacheFile) = {} => HasAll(cacheFile, seed[s].rows)
          BY DEF Missing, Key, CacheKey, HasAll
      <4> QED BY <3>2, <4>1, CacheStepsDo DEF Goes, Stops
    <3>3. CASE Embed(s) \/ OpenCache(s)
        BY <3>3, CacheStepsDo DEF Goes
    <3>4. CASE WriteCache(s)
      <4>1. \A id \in DOMAIN seed[s].rows :
               \/ seed[s].rows[id].content \in DOMAIN seed[s].cache
               \/ seed[s].rows[id].content \in Missing(s, seed[s].cache)
          BY DEF Missing, Key, CacheKey
      <4>2. HasAll(Extended(s), seed[s].rows)
          BY <4>1, ExtendedIsACache DEF HasAll
      <4> QED BY <3>4, <4>2, CacheStepsDo
    <3>5. CASE Load(s) \/ Die(s)
        BY <3>5, CacheStepsDo
    <3> QED BY <1>2, <3>1, <3>2, <3>3, <3>4, <3>5 DEF LoadSeedData
  <2> QED BY <1>2, <2>1, OthersKeep DEF KeepsHeld
<1>3. CASE (\E t \in Texts : EditText(t)) \/ BumpVersion \/ UpdateChecksums \/ UpdateSnapshot
           \/ Commit \/ UNCHANGED vars
    BY <1>3, AuthorDoes DEF KeepsHeld
<1> QED BY <1>1, <1>2, <1>3 DEF Next

(* Only a seed that empties the file, or one beside others, leaves it half. *)
LEMMA HalfHasAReasonNext ==
    SeedInvariant /\ [Next]_vars => HalfHasAReason' /\ CacheBreaksOnlyInACrash'
<1> SUFFICES ASSUME SeedTypeOK, OneAtATime, AloneIsAlone, FileIsOwn, HalfHasAReason,
                    CacheBreaksOnlyInACrash, [Next]_vars
             PROVE  HalfHasAReason' /\ CacheBreaksOnlyInACrash'
    BY DEF SeedInvariant
<1> USE DEF HalfHasAReason, CacheBreaksOnlyInACrash
<1>1. ASSUME NEW s \in Seeds, Render(s) PROVE HalfHasAReason' /\ CacheBreaksOnlyInACrash'
    BY <1>1, RenderDoes DEF files, Running
<1>2. ASSUME NEW s \in Seeds, LoadSeedData(s), ~Render(s)
      PROVE  HalfHasAReason' /\ CacheBreaksOnlyInACrash'
  <2>1. UNCHANGED overlapped /\ Running(s) /\ \A r \in Seeds \ {s} : seed'[r].pc = seed[r].pc
      BY <1>2, LoadSeedDataLeaves, OthersKeep
  <2>2. CASE OpenSql(s) \/ WriteSql(s) \/ ReadSql(s) \/ ChunkAgain(s)
    <3>1. UNCHANGED <<cacheFile, crashed>>
        BY <2>2 DEF OpenSql, WriteSql, ReadSql, ChunkAgain, files, past
    <3> QED BY <2>1, <2>2, <3>1, SqlStepsDo DEF Goes
  <2>3. CASE LoadCache(s)
    <3>1. UNCHANGED <<cacheFile, crashed>>
        BY <2>3 DEF LoadCache, files, past
    <3>2. seed[s].pc = "load_cache" /\ seed'[s].pc # "write_cache"
        BY <2>3, CacheStepsDo DEF Goes, Stops
    <3>3. seed'[s].pc = "broken" => cacheFile = Half
        BY <2>3, CacheStepsDo DEF Goes
    <3>4. cacheFile = Half => crashed \/ overlapped
        BY <2>1, <3>2 DEF OneAtATime, Running
    <3> QED BY <2>1, <3>1, <3>2, <3>3, <3>4
  <2>4. CASE Embed(s)
    <3>1. UNCHANGED <<cacheFile, crashed>>
        BY <2>4 DEF Embed, files
    <3> QED BY <2>1, <2>4, <3>1, CacheStepsDo DEF Goes
  <2>5. CASE OpenCache(s)
    <3>1. UNCHANGED crashed
        BY <2>5 DEF OpenCache, past
    <3> QED BY <2>1, <2>5, <3>1, CacheStepsDo DEF Goes
  <2>6. CASE WriteCache(s)
    <3>1. UNCHANGED crashed /\ seed[s].pc = "write_cache" /\ seed'[s].pc = "load"
        BY <2>6, CacheStepsDo DEF WriteCache, Goes
    <3>2. overlapped \/ cacheFile' # Half
        BY <2>6, <3>1, ExtendedIsACache, CacheIsExact
        DEF WriteCache, Written, ToSave, FileIsOwn
    <3> QED BY <2>1, <3>1, <3>2
  <2>7. CASE Load(s)
    <3>1. UNCHANGED <<cacheFile, crashed>> /\ seed[s].pc = "load"
        BY <2>7 DEF Load, files, past
    <3> QED BY <2>1, <2>7, <3>1, CacheStepsDo
  <2>8. CASE Die(s)
    <3>1. UNCHANGED cacheFile /\ crashed' = (crashed \/ seed[s].pc = "write_cache")
        BY <2>8 DEF Die, files
    <3> QED BY <2>1, <2>8, <3>1, CacheStepsDo
  <2> QED BY <1>2, <2>2, <2>3, <2>4, <2>5, <2>6, <2>7, <2>8 DEF LoadSeedData
<1>3. CASE (\E t \in Texts : EditText(t)) \/ BumpVersion \/ UpdateChecksums \/ UpdateSnapshot
           \/ Commit \/ UNCHANGED vars
    BY <1>3, AuthorDoes DEF files
<1> QED BY <1>1, <1>2, <1>3 DEF Next

(* Without two seeds at a time, what was saved is in the cache that the    *)
(* next one loads.                                                         *)
LEMMA SavedIsCachedNext ==
    SeedInvariant /\ [Next]_vars => SavedIsCached' /\ TextIsEmbeddedOnce'
<1> SUFFICES ASSUME SeedTypeOK, OneAtATime, AloneIsAlone, SavedIsCached, TextIsEmbeddedOnce,
                    [Next]_vars
             PROVE  SavedIsCached' /\ TextIsEmbeddedOnce'
    BY DEF SeedInvariant
<1> USE DEF SavedIsCached, TextIsEmbeddedOnce
<1>1. ASSUME NEW s \in Seeds, Render(s) PROVE SavedIsCached' /\ TextIsEmbeddedOnce'
    BY <1>1, RenderDoes DEF files, Running
<1>2. ASSUME NEW s \in Seeds, LoadSeedData(s), ~Render(s), ~overlapped'
      PROVE  /\ cacheFile' # Half => saved' \subseteq DOMAIN cacheFile'
             /\ \A r \in Seeds : seed'[r].pc \in {"embed", "open_cache", "write_cache"}
                   => saved' \subseteq DOMAIN seed'[r].cache
             /\ resent' = {}
  <2>1. ~overlapped /\ resent = {}
      BY <1>2, LoadSeedDataLeaves
  <2>2. \A r \in Seeds \ {s} : seed'[r].pc \notin {"embed", "open_cache", "write_cache"}
      BY <1>2, <2>1, LoadSeedDataLeaves, OthersKeep DEF OneAtATime, Running
  <2>3. CASE OpenSql(s) \/ WriteSql(s) \/ ReadSql(s) \/ ChunkAgain(s)
    <3>1. UNCHANGED <<cacheFile, saved, resent>>
        BY <2>3 DEF OpenSql, WriteSql, ReadSql, ChunkAgain, files, past
    <3> QED BY <2>1, <2>2, <2>3, <3>1, SqlStepsDo DEF Goes
  <2>4. CASE LoadCache(s)
    <3>1. UNCHANGED <<cacheFile, saved, resent>>
        BY <2>4 DEF LoadCache, files, past
    <3> QED BY <2>1, <2>2, <2>4, <3>1, CacheStepsDo DEF Goes, Stops
  <2>5. CASE Embed(s)
    <3>1. UNCHANGED <<cacheFile, saved>>
        BY <2>5 DEF Embed, files
    <3>2. seed[s].pc = "embed"
        BY <2>5, CacheStepsDo DEF Goes
    <3>3. Missing(s, seed[s].cache) \cap DOMAIN seed[s].cache = {}
        BY DEF Missing, Key, CacheKey
    <3>4. resent' = {}
        BY <2>1, <2>5, <3>2, <3>3, CacheStepsDo
    <3>5. \/ seed'[s].pc = "idle"
          \/ seed'[s].pc = "open_cache" /\ seed'[s].cache = seed[s].cache
        BY <2>5, CacheStepsDo DEF Goes, KeepsHeld
    <3> QED BY <2>1, <2>2, <3>1, <3>2, <3>4, <3>5
  <2>6. CASE OpenCache(s)
    <3>1. cacheFile' = Half /\ UNCHANGED <<saved, resent>>
        BY <2>6 DEF OpenCache, past
    <3> QED BY <2>1, <2>2, <2>6, <3>1, CacheStepsDo DEF Goes, KeepsHeld
  <2>7. CASE WriteCache(s)
    <3>1. /\ cacheFile' \in {Extended(s), Half} /\ UNCHANGED resent
          /\ saved' = saved \cup Missing(s, seed[s].cache)
        BY <2>7 DEF WriteCache, Written, ToSave
    <3>2. seed[s].pc = "write_cache" /\ seed'[s].pc = "load"
        BY <2>7, CacheStepsDo DEF Goes
    <3> QED BY <2>1, <2>2, <3>1, <3>2, ExtendedIsACache
  <2>8. CASE Load(s) \/ Die(s)
    <3>1. UNCHANGED <<cacheFile, saved, resent>>
        BY <2>8 DEF Load, Die, files, past
    <3> QED BY <2>1, <2>2, <2>8, <3>1, CacheStepsDo
  <2> QED BY <1>2, <2>3, <2>4, <2>5, <2>6, <2>7, <2>8 DEF LoadSeedData
<1>3. CASE (\E t \in Texts : EditText(t)) \/ BumpVersion \/ UpdateChecksums \/ UpdateSnapshot
           \/ Commit \/ UNCHANGED vars
    BY <1>3, AuthorDoes DEF KeepsHeld, files
<1> QED BY <1>1, <1>2, <1>3 DEF Next

LEMMA UndisturbedNext == SeedInvariant /\ [Next]_vars => UndisturbedSeedIsExact'
<1> SUFFICES ASSUME AuthorTypeOK, SeedTypeOK, AloneIsAlone, AloneHasThePolicy, LoadsWhatItHas,
                    UndisturbedSeedIsExact, [Next]_vars
             PROVE  UndisturbedSeedIsExact'
    BY DEF SeedInvariant
<1>1. ASSUME UNCHANGED db PROVE UndisturbedSeedIsExact'
    BY <1>1 DEF UndisturbedSeedIsExact
<1>2. ASSUME NEW s \in Seeds, Load(s) PROVE UndisturbedSeedIsExact'
  <2> DEFINE sql == IF seed[s].sql = Half THEN NoRows ELSE seed[s].sql
  <2>1. db' = [rows |-> Loaded(s, sql), alone |-> seed[s].alone, began |-> seed[s].began]
      BY <1>2 DEF Load
  <2> SUFFICES ASSUME seed[s].alone
               PROVE  /\ DOMAIN db'.rows = DOMAIN Rows(policy)
                      /\ \A id \in DOMAIN db'.rows :
                            /\ db'.rows[id].content = Rows(policy)[id].content
                            /\ db'.rows[id].version = policy.version
                            /\ db'.rows[id].embedding = {Rows(policy)[id].content}
                      /\ seed[s].began = {policy}
    <3> HIDE DEF sql
    <3> QED BY <2>1 DEF UndisturbedSeedIsExact
  <2>2. /\ seed[s].sql = Rows(policy) /\ seed[s].rows = Rows(policy)
        /\ seed[s].began = {policy} /\ HasAll(seed[s].cache, seed[s].rows)
      BY <1>2 DEF Load, Running, AloneIsAlone, AloneHasThePolicy, LoadsWhatItHas
  <2>3. policy \in Policies /\ Rows(policy) # Half
      BY HalfIsNoRows DEF AuthorTypeOK, RowSets
  <2>4. db'.rows = Loaded(s, Rows(policy))
      BY <2>1, <2>2, <2>3
  <2>5. \A id \in DOMAIN Rows(policy) : seed[s].cache[Key(s, id)] = Rows(policy)[id].content
    <3> TAKE id \in DOMAIN Rows(policy)
    <3>1. seed[s].cache \in Caches
        BY DEF SeedTypeOK, Processes
    <3>2. seed[s].cache = [key \in DOMAIN seed[s].cache |-> key]
        BY <3>1, CacheIsExact
    <3> DEFINE content == Rows(policy)[id].content
    <3>3. Key(s, id) = content /\ content \in DOMAIN seed[s].cache
        BY <2>2 DEF Key, CacheKey, HasAll
    <3> HIDE DEF content
    <3>4. seed[s].cache[content] = content
        BY <3>2, <3>3
    <3> QED BY <3>3, <3>4 DEF content
  <2>6. \A id \in DOMAIN Rows(policy) : Rows(policy)[id].version = policy.version
      BY <2>3, RowsAreOfChunks
  <2> QED BY <2>2, <2>4, <2>5, <2>6 DEF Loaded
<1>3. ASSUME NEW s \in Seeds, LoadSeedData(s) PROVE UndisturbedSeedIsExact'
  <2>1. CASE Load(s)
      BY <1>2, <2>1
  <2>2. CASE ~Load(s)
      BY <1>1, <1>3, <2>2 DEF LoadSeedData, Render, OpenSql, WriteSql, ReadSql, ChunkAgain,
          LoadCache, Embed, OpenCache, WriteCache, Die
  <2> QED BY <2>1, <2>2
<1>4. CASE (\E t \in Texts : EditText(t)) \/ BumpVersion \/ UpdateChecksums \/ UpdateSnapshot
           \/ Commit \/ UNCHANGED vars
    BY <1>1, <1>4, AuthorDoes
<1> QED BY <1>3, <1>4 DEF Next

-----------------------------------------------------------------------------
(* The inductive invariant holds, for any processes and texts.             *)
THEOREM SeedInvariantHolds == Spec => []SeedInvariant
<1>1. SeedInvariant /\ [Next]_vars => SeedInvariant'
  <2>1. SeedInvariant /\ [Next]_vars => AuthorTypeOK' /\ SeedTypeOK'
      BY AuthorTypeNext, SeedTypeNext DEF SeedInvariant
  <2> QED BY <2>1, AloneNext, FileIsOwnNext, AloneHasThePolicyNext, LoadsWhatItHasNext,
             HalfHasAReasonNext, SavedIsCachedNext, UndisturbedNext DEF SeedInvariant
<1> QED BY InvInit, <1>1, PTL DEF Spec

(* An undisturbed seed loads the policy as it is, each chunk with the      *)
(* vector of its own text (load_seed_data), whatever files it found.       *)
THEOREM UndisturbedSeedHolds == Spec => []UndisturbedSeedIsExact
<1>1. SeedInvariant => UndisturbedSeedIsExact
    BY DEF SeedInvariant
<1> QED BY SeedInvariantHolds, <1>1, PTL

(* One seed after the other never sends a text to the model again          *)
(* (embed_policy_chunks, _save_cache).                                     *)
THEOREM TextIsEmbeddedOnceHolds == Spec => []TextIsEmbeddedOnce
<1>1. SeedInvariant => TextIsEmbeddedOnce
    BY DEF SeedInvariant
<1> QED BY SeedInvariantHolds, <1>1, PTL

(* No failure but a death while the cache is written, or seeds side by     *)
(* side, leaves a cache file on which _load_cache raises.                  *)
THEOREM CacheBreaksHolds == Spec => []CacheBreaksOnlyInACrash
<1>1. SeedInvariant => CacheBreaksOnlyInACrash
    BY DEF SeedInvariant
<1> QED BY SeedInvariantHolds, <1>1, PTL

=============================================================================
