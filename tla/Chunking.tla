------------------------------- MODULE Chunking -------------------------------
(***************************************************************************)
(* StructuralChunker.chunk (chunking/structural.py): the sections of one   *)
(* policy are cut into windows of words that overlap.  A section is a      *)
(* number of words and the slug of its heading; a chunk is a range of the  *)
(* words of a section, with the id under which it is cited.  What stands   *)
(* before the first heading of a policy is in no section.                  *)
(***************************************************************************)
EXTENDS Integers

CONSTANTS
    MaxTokens,   \* MAX_CHUNK_TOKENS
    Overlap,     \* CHUNK_OVERLAP_TOKENS
    Sections,    \* the number of sections
    MaxWords,    \* bound: no section is longer
    Slugs        \* what headings become in an id

ASSUME ChunkingAssumption ==
    /\ MaxTokens \in Nat
    /\ Overlap \in Nat
    /\ Overlap < MaxTokens
    /\ Sections \in Nat
    /\ MaxWords \in Nat

VARIABLES
    words,     \* the words of each section
    slug,      \* its slug
    section,   \* the section that is cut now
    start,     \* where its next window starts
    number,    \* the windows cut from it so far
    chunks     \* all chunks so far

chunkingVars == <<words, slug, section, start, number, chunks>>

(* A chunk has the words from + 1 .. to of its section.                    *)
Chunks == [section : 1..Sections, id : Slugs \X Nat, from : Nat, to : Nat]

(* The number of the window is left out of the id.                         *)
ChunkWithoutNumber(from, to) ==
    [section |-> section, id |-> <<slug[section], 0>>, from |-> from, to |-> to]

(* The chunks of one section differ in their number, those of two sections *)
(* in the slug.                                                            *)
Chunk(from, to) ==
    [section |-> section, id |-> <<slug[section], number>>, from |-> from, to |-> to]

ChunkingInit ==
    /\ words \in [1..Sections -> 0..MaxWords]
    /\ slug \in [1..Sections -> Slugs]
    /\ section = 1
    /\ start = 0
    /\ number = 0
    /\ chunks = {}

-----------------------------------------------------------------------------
NextSection ==
    /\ section' = section + 1
    /\ start' = 0
    /\ number' = 0

(* A section that fits is one chunk, also when it has no words.            *)
KeepWhole ==
    /\ section <= Sections
    /\ words[section] <= MaxTokens
    /\ chunks' = chunks \cup {Chunk(0, words[section])}
    /\ NextSection
    /\ UNCHANGED <<words, slug>>

(* A stride that adds the overlap. *)
NextStartTooFar(s) == s + MaxTokens + Overlap

(* The stride. *)
NextStart(s) == s + (MaxTokens - Overlap)

ReachesEnd(to) == to >= words[section]

(* A full window that does not reach the end.                              *)
CutWindow ==
    /\ section <= Sections
    /\ words[section] > MaxTokens
    /\ start < words[section]
    /\ ~ReachesEnd(start + MaxTokens)
    /\ chunks' = chunks \cup {Chunk(start, start + MaxTokens)}
    /\ start' = NextStart(start)
    /\ number' = number + 1
    /\ UNCHANGED <<words, slug, section>>

(* The window that reaches the end is the last one; a slice that goes past *)
(* the end stops there.  Nothing is cut when no word is left.              *)
EndSection ==
    /\ section <= Sections
    /\ words[section] > MaxTokens
    /\ start < words[section] => ReachesEnd(start + MaxTokens)
    /\ chunks' = IF start < words[section] THEN chunks \cup {Chunk(start, words[section])}
                 ELSE chunks
    /\ NextSection
    /\ UNCHANGED <<words, slug>>

ChunkingNext == KeepWhole \/ CutWindow \/ EndSection

ChunkingSpec == ChunkingInit /\ [][ChunkingNext]_chunkingVars

-----------------------------------------------------------------------------
TypeOK ==
    /\ words \in [1..Sections -> 0..MaxWords]
    /\ slug \in [1..Sections -> Slugs]
    /\ section \in 1..(Sections + 1)
    /\ start \in Nat
    /\ number \in Nat
    /\ chunks \subseteq Chunks

(* Chunk c has word w of section i.                                        *)
Holds(c, i, w) == c.section = i /\ c.from < w /\ w <= c.to

(* No word of a section that is done is lost: each is in a chunk, also at  *)
(* the end of a section and where two windows meet.                        *)
NoWordIsLost ==
    \A i \in 1..(section - 1) : \A w \in 1..words[i] : \E c \in chunks : Holds(c, i, w)

(* A chunk fits the embedding model and stays inside its section, and the  *)
(* next chunk of the section repeats exactly its last Overlap words, so    *)
(* that no boundary loses context.                                         *)
WindowsOverlap ==
    /\ \A c \in chunks : c.to - c.from <= MaxTokens /\ c.to <= words[c.section]
    /\ \A c, d \in chunks :
          c.section = d.section /\ d.id[2] = c.id[2] + 1 => d.from = c.to - Overlap

(* No chunk repeats a part of another chunk and nothing else.              *)
NoneIsRedundant ==
    \A c, d \in chunks :
       c.section = d.section /\ d.from <= c.from /\ c.to <= d.to => c = d

SlugsDiffer == \A i, j \in 1..Sections : slug[i] = slug[j] => i = j

(* Ids are unique, as the primary key of policy_chunks and every citation  *)
(* need it, when no two headings of the policy become the same slug.       *)
IdsAreUnique == SlugsDiffer => \A c, d \in chunks : c.id = d.id => c = d

(* The loop comes to an end: as long as it stays in a section, each window *)
(* starts after the one before it.                                         *)
EachWindowAdvances == [][section' = section => start' > start]_chunkingVars

-----------------------------------------------------------------------------
(* The inductive invariant.                                                *)

(* In the section that is cut now, the words before the next window are in *)
(* a chunk.                                                                *)
CoveredSoFar ==
    section <= Sections => \A w \in 1..start : \E c \in chunks : Holds(c, section, w)

(* A section that fits in one chunk is never cut.                          *)
WholeIsUncut ==
    section <= Sections /\ words[section] <= MaxTokens => start = 0 /\ number = 0

(* The chunks of this section are numbered below the next one, start       *)
(* before it, and do not reach further than it does.                       *)
ChunksAreBehind ==
    \A c \in chunks :
       /\ c.section <= section
       /\ c.id[1] = slug[c.section]
       /\ c.section = section =>
             /\ c.id[2] < number
             /\ c.from < start
             /\ c.to <= start + Overlap
             /\ c.to < words[section]
             /\ c.id[2] + 1 = number => c.to = start + Overlap

ChunkingInvariant ==
    /\ TypeOK /\ CoveredSoFar /\ WholeIsUncut /\ ChunksAreBehind
    /\ NoWordIsLost /\ WindowsOverlap /\ NoneIsRedundant /\ IdsAreUnique

=============================================================================
