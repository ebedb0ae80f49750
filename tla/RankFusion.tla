------------------------------ MODULE RankFusion ------------------------------
(***************************************************************************)
(* fuse (tools/policy_search.py): reciprocal rank fusion of the vector and *)
(* the keyword ranking of one search.  A ranking is a sequence of ids.     *)
(* Scores are exact here: they are fractions of natural numbers.           *)
(***************************************************************************)
EXTENDS Integers, Sequences, FiniteSetsExt, SequencesExt, Functions

CONSTANTS
    K,            \* RRF_K
    Candidates    \* CANDIDATES_PER_RANKING: no ranking is longer

(* 20 candidates and k = 60. *)
ASSUME RankFusionAssumption ==
    /\ K \in Nat
    /\ Candidates \in 1..(K + 1)

(* The rankings of members of a set.  No statement returns an id twice: it *)
(* is the primary key.                                                     *)
Rankings(S) == {r \in UNION {[1..n -> S] : n \in 0..Candidates} : IsInjective(r)}

In(ranking, i) == \E n \in DOMAIN ranking : ranking[n] = i
Rank(ranking, i) == CHOOSE n \in DOMAIN ranking : ranking[n] = i

(* The ids of either ranking: the keys of the dict.                        *)
Listed(lists) == ToSet(lists[1]) \cup ToSet(lists[2])

Sides == 1..2
SidesWith(lists, i) == {s \in Sides : In(lists[s], i)}

(* A score is a fraction: the sum of 1 / (k + rank) over the rankings.     *)
Share(ranking, i) == [num |-> 1, den |-> K + Rank(ranking, i)]
Plus(x, y) == [num |-> x.num * y.den + y.num * x.den, den |-> x.den * y.den]

(* The share of a later ranking replaces the score. *)
ScoreOverwritten(lists, i) ==
    IF In(lists[2], i) THEN Share(lists[2], i) ELSE Share(lists[1], i)

Score(lists, i) ==
    IF ~In(lists[2], i) THEN Share(lists[1], i)
    ELSE IF ~In(lists[1], i) THEN Share(lists[2], i)
    ELSE Plus(Share(lists[1], i), Share(lists[2], i))

Higher(x, y) == x.num * y.den > y.num * x.den

(* The dict keeps an id where it was first seen.                           *)
FirstSeen(lists, i) ==
    IF In(lists[1], i) THEN Rank(lists[1], i) ELSE Len(lists[1]) + Rank(lists[2], i)

(* sorted is stable, also with reverse=True.                               *)
Before(lists, i, j) ==
    LET x == Score(lists, i)
        y == Score(lists, j)
    IN  Higher(x, y) \/ (~Higher(y, x) /\ FirstSeen(lists, i) < FirstSeen(lists, j))

(* The place of an id in the sorted list: behind all that come before it.  *)
Place(lists, i) == Cardinality({j \in Listed(lists) : Before(lists, j, i)}) + 1

Fuse(lists) ==
    [n \in 1..Cardinality(Listed(lists)) |->
        CHOOSE i \in Listed(lists) : Place(lists, i) = n]

-----------------------------------------------------------------------------
(* What the fused ranking should keep of the two rankings.                 *)

(* Each id of either ranking once, and no other.                           *)
NothingLostOrDoubled(lists, result) ==
    /\ IsInjective(result)
    /\ ToSet(result) = ToSet(lists[1]) \cup ToSet(lists[2])

(* An id that both rankings found comes before every id that one found,    *)
(* however low it was ranked.                                              *)
AgreementComesFirst(lists, result) ==
    \A i, j \in ToSet(result) :
       SidesWith(lists, i) = Sides /\ SidesWith(lists, j) # Sides =>
          Rank(result, i) < Rank(result, j)

(* An id that is ranked better wherever another one is ranked comes before *)
(* it.                                                                     *)
BetterRanksFirst(lists, result) ==
    \A i, j \in ToSet(result) :
       (\A s \in SidesWith(lists, j) :
           s \in SidesWith(lists, i) /\ Rank(lists[s], i) < Rank(lists[s], j)) =>
          Rank(result, i) < Rank(result, j)

(* Two ids that hold each other's rank in the other ranking; two that hold *)
(* the same rank in one ranking each.  i is ranked better by vector.       *)
SwappedRanks(lists, i, j) ==
    /\ SidesWith(lists, i) = Sides /\ SidesWith(lists, j) = Sides
    /\ \A s \in Sides : Rank(lists[s], i) = Rank(lists[3 - s], j)
    /\ Rank(lists[1], i) < Rank(lists[1], j)
SameRankApart(lists, i, j) ==
    /\ SidesWith(lists, i) = {1} /\ SidesWith(lists, j) = {2}
    /\ Rank(lists[1], i) = Rank(lists[2], j)

(* Such ids have equal scores, and come in the order of the vector ranking *)
(* (fuse: "Ties keep the order in which ids were first seen").             *)
TiesFollowVector(lists, result) ==
    \A i, j \in ToSet(result) :
       SwappedRanks(lists, i, j) \/ SameRankApart(lists, i, j) =>
          Rank(result, i) < Rank(result, j)

=============================================================================
