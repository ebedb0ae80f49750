-------------------------- MODULE PolicyIndex_proofs --------------------------
(***************************************************************************)
(* For every k, rankings of up to k + 1 ids, every set of corpora and any  *)
(* number of searches and seeds: fuse keeps what the two rankings say, and *)
(* what the searches and the record of one request name was in the         *)
(* database together.                                                      *)
(***************************************************************************)
EXTENDS PolicyIndex, FiniteSetTheorems, SequenceTheorems, TLAPS

USE RankFusionAssumption

-----------------------------------------------------------------------------
(* Products. *)

LEMMA TimesKeepsOrder ==
    ASSUME NEW a \in Nat, NEW b \in Nat, NEW c \in Nat, a <= b
    PROVE  a * c <= b * c /\ c * a <= c * b
OBVIOUS

LEMMA TimesKeepsStrictOrder ==
    ASSUME NEW a \in Nat, NEW b \in Nat, NEW c \in Nat \ {0}, a < b
    PROVE  a * c < b * c /\ c * a < c * b
OBVIOUS

LEMMA TimesCancels ==
    ASSUME NEW a \in Nat, NEW b \in Nat, NEW c \in Nat \ {0}, a * c <= b * c
    PROVE  a <= b
BY TimesKeepsStrictOrder

LEMMA TimesPositive ==
    ASSUME NEW a \in Nat \ {0}, NEW b \in Nat \ {0}
    PROVE  a * b \in Nat \ {0}
OBVIOUS

-----------------------------------------------------------------------------
(* Scores: fractions, compared crosswise. *)

Fractions == [num : Nat \ {0}, den : Nat \ {0}]

LEMMA HigherTotal ==
    ASSUME NEW x \in Fractions, NEW y \in Fractions
    PROVE  ~Higher(x, y) \/ ~Higher(y, x)
<1>1. x.num * y.den \in Nat /\ y.num * x.den \in Nat
    BY DEF Fractions
<1> QED BY <1>1 DEF Higher

(* Not lower than, and not lower than, is not lower than.                  *)
LEMMA NotLowerTransitive ==
    ASSUME NEW x \in Fractions, NEW y \in Fractions, NEW z \in Fractions,
           ~Higher(y, x), ~Higher(z, y)
    PROVE  ~Higher(z, x)
<1> DEFINE a == x.num b == x.den c == y.num d == y.den e == z.num f == z.den
<1>1. /\ a \in Nat \ {0} /\ b \in Nat \ {0} /\ c \in Nat \ {0}
      /\ d \in Nat \ {0} /\ e \in Nat \ {0} /\ f \in Nat \ {0}
    BY DEF Fractions
<1>2. c * b <= a * d /\ e * d <= c * f
    BY <1>1 DEF Higher
<1> SUFFICES e * b <= a * f
    BY <1>1 DEF Higher
<1> HIDE DEF a, b, c, d, e, f
<1>3. (e * d) * b <= (c * f) * b
    BY <1>1, <1>2, TimesKeepsOrder, TimesPositive
<1>4. (c * b) * f <= (a * d) * f
    BY <1>1, <1>2, TimesKeepsOrder, TimesPositive
<1>5. (e * b) * d = (e * d) * b /\ (c * f) * b = (c * b) * f /\ (a * d) * f = (a * f) * d
    BY <1>1
<1>6. (e * b) * d <= (a * f) * d
  <2>1. \A n \in {e * d, c * f, c * b, a * d, e * b, a * f} : n \in Nat
      BY <1>1
  <2>2. \A n \in Nat : n * b \in Nat /\ n * d \in Nat /\ n * f \in Nat
      BY <1>1
  <2> QED BY <1>3, <1>4, <1>5, <2>1, <2>2
<1> QED BY <1>1, <1>6, TimesCancels, TimesPositive

-----------------------------------------------------------------------------
(* Rankings. *)

LEMMA RankingIsSequence ==
    ASSUME NEW S, NEW r \in Rankings(S)
    PROVE  /\ r \in Seq(S) /\ Len(r) \in 0..Candidates
           /\ DOMAIN r = 1..Len(r) /\ r \in [1..Len(r) -> S]
           /\ IsInjective(r)
<1>1. PICK n \in 0..Candidates : r \in [1..n -> S]
    BY DEF Rankings
<1>2. r \in Seq(S)
    BY <1>1, SeqDef
<1>3. Len(r) \in Nat /\ r \in [1..Len(r) -> S] /\ DOMAIN r = 1..Len(r)
    BY <1>2, LenProperties
<1>4. Len(r) = n
    BY <1>1, <1>3
<1> QED BY <1>2, <1>3, <1>4 DEF Rankings

LEMMA InIsMember ==
    ASSUME NEW r, NEW i
    PROVE  In(r, i) <=> i \in ToSet(r)
BY DEF In, ToSet

LEMMA RankIsPosition ==
    ASSUME NEW r, NEW i, In(r, i)
    PROVE  Rank(r, i) \in DOMAIN r /\ r[Rank(r, i)] = i
BY DEF In, Rank

LEMMA RankOfRanked ==
    ASSUME NEW S, NEW r \in Rankings(S), NEW i, In(r, i)
    PROVE  /\ Rank(r, i) \in 1..Len(r) /\ Len(r) \in Nat
           /\ K + Rank(r, i) \in (K + 1)..(2 * K + 1)
           /\ K + Rank(r, i) \in Nat \ {0}
<1>1. Rank(r, i) \in 1..Len(r) /\ Len(r) \in 0..Candidates
    BY RankingIsSequence, RankIsPosition
<1> QED BY <1>1

LEMMA RankedIsElement ==
    ASSUME NEW S, NEW r \in Rankings(S), NEW i, In(r, i)
    PROVE  i \in S
BY RankingIsSequence, RankIsPosition

-----------------------------------------------------------------------------
(* Two rankings. *)

Pairs(S) == Rankings(S) \X Rankings(S)

LEMMA SidesAreRankings ==
    ASSUME NEW S, NEW lists \in Pairs(S)
    PROVE  /\ lists[1] \in Rankings(S) /\ lists[2] \in Rankings(S)
           /\ lists = <<lists[1], lists[2]>>
           /\ \A s \in Sides : lists[s] \in Rankings(S)
BY DEF Pairs, Sides

LEMMA ListedIsIn ==
    ASSUME NEW lists, NEW i
    PROVE  i \in Listed(lists) <=> In(lists[1], i) \/ In(lists[2], i)
BY InIsMember DEF Listed

LEMMA ScoreIsFraction ==
    ASSUME NEW S, NEW lists \in Pairs(S), NEW i \in Listed(lists)
    PROVE  Score(lists, i) \in Fractions
<1> DEFINE A == K + Rank(lists[1], i)
           B == K + Rank(lists[2], i)
<1>1. In(lists[1], i) => A \in Nat \ {0} /\ Share(lists[1], i) \in Fractions
    BY RankOfRanked, SidesAreRankings DEF Share, Fractions
<1>2. In(lists[2], i) => B \in Nat \ {0} /\ Share(lists[2], i) \in Fractions
    BY RankOfRanked, SidesAreRankings DEF Share, Fractions
<1>3. In(lists[1], i) \/ In(lists[2], i)
    BY ListedIsIn
<1>4. \A x, y \in Fractions : Plus(x, y) \in Fractions
    BY TimesPositive DEF Plus, Fractions
<1> QED BY <1>1, <1>2, <1>3, <1>4 DEF Score

LEMMA FirstSeenIsNumber ==
    ASSUME NEW S, NEW lists \in Pairs(S), NEW i \in Listed(lists)
    PROVE  FirstSeen(lists, i) \in Nat
<1>1. In(lists[1], i) \/ In(lists[2], i)
    BY ListedIsIn
<1>2. Len(lists[1]) \in Nat
    BY RankingIsSequence, SidesAreRankings
<1> QED BY <1>1, <1>2, RankOfRanked, SidesAreRankings DEF FirstSeen

LEMMA FirstSeenTellsApart ==
    ASSUME NEW S, NEW lists \in Pairs(S), NEW i \in Listed(lists), NEW j \in Listed(lists),
           FirstSeen(lists, i) = FirstSeen(lists, j)
    PROVE  i = j
<1>1. /\ In(lists[1], i) => Rank(lists[1], i) \in 1..Len(lists[1]) /\ lists[1][Rank(lists[1], i)] = i
      /\ In(lists[2], i) => Rank(lists[2], i) \in 1..Len(lists[2]) /\ lists[2][Rank(lists[2], i)] = i
      /\ In(lists[1], j) => Rank(lists[1], j) \in 1..Len(lists[1]) /\ lists[1][Rank(lists[1], j)] = j
      /\ In(lists[2], j) => Rank(lists[2], j) \in 1..Len(lists[2]) /\ lists[2][Rank(lists[2], j)] = j
    BY RankOfRanked, RankIsPosition, SidesAreRankings
<1>2. Len(lists[1]) \in Nat /\ Len(lists[2]) \in Nat
    BY RankingIsSequence, SidesAreRankings
<1>3. CASE In(lists[1], i) /\ In(lists[1], j)
    BY <1>1, <1>3 DEF FirstSeen
<1>4. CASE ~In(lists[1], i) /\ ~In(lists[1], j)
  <2>1. In(lists[2], i) /\ In(lists[2], j)
      BY <1>4, ListedIsIn
  <2>2. Rank(lists[2], i) = Rank(lists[2], j)
      BY <1>1, <1>2, <1>4, <2>1 DEF FirstSeen
  <2> QED BY <1>1, <2>1, <2>2
<1>5. CASE In(lists[1], i) /\ ~In(lists[1], j)
  <2>1. In(lists[2], j)
      BY <1>5, ListedIsIn
  <2> QED BY <1>1, <1>2, <1>5, <2>1 DEF FirstSeen
<1>6. CASE ~In(lists[1], i) /\ In(lists[1], j)
  <2>1. In(lists[2], i)
      BY <1>6, ListedIsIn
  <2> QED BY <1>1, <1>2, <1>6, <2>1 DEF FirstSeen
<1> QED BY <1>3, <1>4, <1>5, <1>6

-----------------------------------------------------------------------------
(* Before orders the listed ids. *)

LEMMA BeforeByScore ==
    ASSUME NEW S, NEW lists \in Pairs(S), NEW i \in Listed(lists), NEW j \in Listed(lists)
    PROVE  Before(lists, i, j) <=>
              /\ ~Higher(Score(lists, j), Score(lists, i))
              /\ \/ Higher(Score(lists, i), Score(lists, j))
                 \/ FirstSeen(lists, i) < FirstSeen(lists, j)
BY ScoreIsFraction, HigherTotal DEF Before

LEMMA BeforeIsTransitive ==
    ASSUME NEW S, NEW lists \in Pairs(S),
           NEW i \in Listed(lists), NEW j \in Listed(lists), NEW k \in Listed(lists),
           Before(lists, i, j), Before(lists, j, k)
    PROVE  Before(lists, i, k)
<1> DEFINE x == Score(lists, i)
           y == Score(lists, j)
           z == Score(lists, k)
<1>1. x \in Fractions /\ y \in Fractions /\ z \in Fractions
    BY ScoreIsFraction
<1>2. ~Higher(y, x) /\ ~Higher(z, y)
    BY BeforeByScore
<1>3. ~Higher(z, x)
    BY <1>1, <1>2, NotLowerTransitive
<1>4. ASSUME ~Higher(x, z)
      PROVE  FirstSeen(lists, i) < FirstSeen(lists, k)
  <2>1. ~Higher(x, y)
      BY <1>1, <1>2, <1>4, NotLowerTransitive
  <2>2. ~Higher(y, z)
      BY <1>1, <1>2, <1>4, NotLowerTransitive
  <2>3. FirstSeen(lists, i) < FirstSeen(lists, j) /\ FirstSeen(lists, j) < FirstSeen(lists, k)
      BY <2>1, <2>2, BeforeByScore
  <2> QED BY <2>3, FirstSeenIsNumber
<1> QED BY <1>3, <1>4, BeforeByScore

LEMMA BeforeIsStrict ==
    ASSUME NEW S, NEW lists \in Pairs(S), NEW i \in Listed(lists)
    PROVE  ~Before(lists, i, i)
BY ScoreIsFraction, HigherTotal, FirstSeenIsNumber DEF Before

LEMMA BeforeIsTotal ==
    ASSUME NEW S, NEW lists \in Pairs(S), NEW i \in Listed(lists), NEW j \in Listed(lists),
           i # j
    PROVE  Before(lists, i, j) \/ Before(lists, j, i)
<1>1. FirstSeen(lists, i) < FirstSeen(lists, j) \/ FirstSeen(lists, j) < FirstSeen(lists, i)
    BY FirstSeenIsNumber, FirstSeenTellsApart
<1> QED BY <1>1 DEF Before

-----------------------------------------------------------------------------
(* The place of an id counts the ids before it, so the places of the       *)
(* listed ids are the numbers from 1 to their count.                       *)

LEMMA ImageOfRankingIsFinite ==
    ASSUME NEW S, NEW r \in Rankings(S)
    PROVE  IsFiniteSet(ToSet(r))
<1>1. r \in Surjection(DOMAIN r, ToSet(r))
    BY RankingIsSequence DEF Surjection, ToSet
<1>2. IsFiniteSet(DOMAIN r)
    BY RankingIsSequence, FS_Interval
<1> QED BY <1>1, <1>2, FS_Surjection

LEMMA ListedIsFinite ==
    ASSUME NEW S, NEW lists \in Pairs(S)
    PROVE  IsFiniteSet(Listed(lists)) /\ Cardinality(Listed(lists)) \in Nat
<1>1. IsFiniteSet(ToSet(lists[1])) /\ IsFiniteSet(ToSet(lists[2]))
    BY ImageOfRankingIsFinite, SidesAreRankings
<1>2. IsFiniteSet(Listed(lists))
    BY <1>1, FS_Union DEF Listed
<1> QED BY <1>2, FS_CardinalityType

Ahead(lists, i) == {j \in Listed(lists) : Before(lists, j, i)}

LEMMA AheadIsFinite ==
    ASSUME NEW S, NEW lists \in Pairs(S), NEW i \in Listed(lists)
    PROVE  /\ IsFiniteSet(Ahead(lists, i)) /\ Cardinality(Ahead(lists, i)) \in Nat
           /\ Place(lists, i) = Cardinality(Ahead(lists, i)) + 1
           /\ Place(lists, i) \in Nat
           /\ i \notin Ahead(lists, i)
           /\ IsFiniteSet(Ahead(lists, i) \cup {i})
           /\ Cardinality(Ahead(lists, i) \cup {i}) = Place(lists, i)
<1>1. IsFiniteSet(Ahead(lists, i))
    BY ListedIsFinite, FS_Subset DEF Ahead
<1>2. i \notin Ahead(lists, i)
    BY BeforeIsStrict DEF Ahead
<1>3. Place(lists, i) = Cardinality(Ahead(lists, i)) + 1
    BY DEF Place, Ahead
<1>4. Cardinality(Ahead(lists, i)) \in Nat
    BY <1>1, FS_CardinalityType
<1> QED BY <1>1, <1>2, <1>3, <1>4, FS_AddElement

LEMMA PlaceIsPosition ==
    ASSUME NEW S, NEW lists \in Pairs(S), NEW i \in Listed(lists)
    PROVE  Place(lists, i) \in 1..Cardinality(Listed(lists))
<1>1. Ahead(lists, i) \cup {i} \in SUBSET Listed(lists)
    BY DEF Ahead
<1>2. Cardinality(Ahead(lists, i) \cup {i}) <= Cardinality(Listed(lists))
    BY <1>1, ListedIsFinite, FS_Subset
<1>3. /\ Cardinality(Ahead(lists, i)) \in Nat
      /\ Place(lists, i) = Cardinality(Ahead(lists, i)) + 1
      /\ Cardinality(Ahead(lists, i) \cup {i}) = Place(lists, i)
    BY AheadIsFinite
<1> QED BY <1>2, <1>3, ListedIsFinite

LEMMA BeforeHasLowerPlace ==
    ASSUME NEW S, NEW lists \in Pairs(S), NEW i \in Listed(lists), NEW j \in Listed(lists),
           Before(lists, i, j)
    PROVE  Place(lists, i) < Place(lists, j)
<1>1. Ahead(lists, i) \cup {i} \in SUBSET Ahead(lists, j)
    BY BeforeIsTransitive DEF Ahead
<1>2. /\ IsFiniteSet(Ahead(lists, j)) /\ Cardinality(Ahead(lists, j)) \in Nat
      /\ Place(lists, j) = Cardinality(Ahead(lists, j)) + 1
    BY AheadIsFinite
<1>3. Place(lists, i) \in Nat /\ Place(lists, i) = Cardinality(Ahead(lists, i) \cup {i})
    BY AheadIsFinite
<1>4. Place(lists, i) <= Cardinality(Ahead(lists, j))
    BY <1>1, <1>2, <1>3, FS_Subset
<1> QED BY <1>2, <1>3, <1>4

LEMMA PlacesDiffer ==
    ASSUME NEW S, NEW lists \in Pairs(S), NEW i \in Listed(lists), NEW j \in Listed(lists),
           Place(lists, i) = Place(lists, j)
    PROVE  i = j
<1>1. Place(lists, i) \in Nat
    BY AheadIsFinite
<1> QED BY <1>1, BeforeIsTotal, BeforeHasLowerPlace

LEMMA EveryPlaceIsTaken ==
    ASSUME NEW S, NEW lists \in Pairs(S), NEW n \in 1..Cardinality(Listed(lists))
    PROVE  \E i \in Listed(lists) : Place(lists, i) = n
<1> DEFINE L == Listed(lists)
           P == 1..Cardinality(L)
           f == [i \in L |-> Place(lists, i)]
<1>1. f \in Injection(L, P)
  <2>1. f \in [L -> P]
      BY PlaceIsPosition
  <2>2. \A i, j \in L : f[i] = f[j] => i = j
      BY PlacesDiffer
  <2> HIDE DEF f, L, P
  <2> QED BY <2>1, <2>2 DEF Injection, IsInjective
<1>2. IsFiniteSet(P) /\ Cardinality(P) = Cardinality(L)
    BY FS_Interval, ListedIsFinite
<1>3. f \in Surjection(L, P)
  <2> HIDE DEF f, L, P
  <2> QED BY <1>1, <1>2, FS_Injection
<1>4. \E i \in L : f[i] = n
  <2>1. n \in P
      OBVIOUS
  <2> HIDE DEF f, L, P
  <2> QED BY <1>3, <2>1 DEF Surjection
<1> QED BY <1>4

(* fuse puts every listed id at its place.                                 *)
LEMMA FuseIsAtPlace ==
    ASSUME NEW S, NEW lists \in Pairs(S)
    PROVE  LET result == Fuse(lists)
           IN  /\ DOMAIN result = 1..Cardinality(Listed(lists))
               /\ \A n \in DOMAIN result :
                     result[n] \in Listed(lists) /\ Place(lists, result[n]) = n
               /\ IsInjective(result)
               /\ ToSet(result) = Listed(lists)
               /\ \A i \in Listed(lists) : In(result, i) /\ Rank(result, i) = Place(lists, i)
<1> DEFINE result == Fuse(lists)
<1>1. DOMAIN result = 1..Cardinality(Listed(lists))
    BY DEF Fuse
<1>2. ASSUME NEW n \in DOMAIN result
      PROVE  result[n] \in Listed(lists) /\ Place(lists, result[n]) = n
  <2>1. \E i \in Listed(lists) : Place(lists, i) = n
      BY <1>1, EveryPlaceIsTaken
  <2>2. result[n] = CHOOSE i \in Listed(lists) : Place(lists, i) = n
      BY <1>1 DEF Fuse
  <2> QED BY <2>1, <2>2
<1>3. ASSUME NEW i \in Listed(lists)
      PROVE  Place(lists, i) \in DOMAIN result /\ result[Place(lists, i)] = i
  <2>1. Place(lists, i) \in DOMAIN result
      BY <1>1, PlaceIsPosition
  <2> QED BY <2>1, <1>2, PlacesDiffer
<1> HIDE DEF result
<1>4. IsInjective(result)
    BY <1>2 DEF IsInjective
<1>5. ToSet(result) = Listed(lists)
    BY <1>2, <1>3 DEF ToSet
<1>6. ASSUME NEW i \in Listed(lists)
      PROVE  In(result, i) /\ Rank(result, i) = Place(lists, i)
  <2>1. In(result, i)
      BY <1>5, InIsMember
  <2> QED BY <2>1, <1>2, RankIsPosition
<1> QED BY <1>1, <1>2, <1>4, <1>5, <1>6 DEF result

LEMMA BeforeIsRankedHigher ==
    ASSUME NEW S, NEW lists \in Pairs(S), NEW i \in Listed(lists), NEW j \in Listed(lists),
           Before(lists, i, j)
    PROVE  Rank(Fuse(lists), i) < Rank(Fuse(lists), j)
BY BeforeHasLowerPlace, FuseIsAtPlace

-----------------------------------------------------------------------------
(* The order of scores, from the order of ranks. *)

(* 1/A + 1/B > 1/C, when C is more than half of A and of B. *)
LEMMA TwoSharesBeatOne ==
    ASSUME NEW A \in Nat \ {0}, NEW B \in Nat \ {0}, NEW C \in Nat \ {0},
           A < C + C, B < C + C
    PROVE  A * B < (A + B) * C
<1>1. A * B < A * (C + C) /\ B * A < B * (C + C)
    BY TimesKeepsStrictOrder
<1>2. A * (C + C) = A * C + A * C /\ B * (C + C) = B * C + B * C
    OBVIOUS
<1>3. (A + B) * C = A * C + B * C /\ B * A = A * B
    OBVIOUS
<1>4. A * B \in Nat /\ A * C \in Nat /\ B * C \in Nat
    OBVIOUS
<1> QED BY <1>1, <1>2, <1>3, <1>4

(* 1/A + 1/B > 1/C + 1/D, when A < C and B < D. *)
LEMMA SumKeepsOrder ==
    ASSUME NEW A \in Nat \ {0}, NEW B \in Nat \ {0}, NEW C \in Nat \ {0}, NEW D \in Nat \ {0},
           A < C, B < D
    PROVE  (C + D) * (A * B) < (A + B) * (C * D)
<1> DEFINE AC == A * C
           BD == B * D
<1>1. AC \in Nat \ {0} /\ BD \in Nat \ {0}
    BY TimesPositive
<1>2. AC * B < AC * D /\ BD * A < BD * C
    BY <1>1, TimesKeepsStrictOrder
<1>3. (C + D) * (A * B) = AC * B + BD * A /\ (A + B) * (C * D) = AC * D + BD * C
    OBVIOUS
<1>4. AC * B \in Nat /\ AC * D \in Nat /\ BD * A \in Nat /\ BD * C \in Nat
    BY <1>1
<1> HIDE DEF AC, BD
<1> QED BY <1>2, <1>3, <1>4

LEMMA ScoreOfBoth ==
    ASSUME NEW lists, NEW i, In(lists[1], i), In(lists[2], i),
           NEW A, NEW B, A = K + Rank(lists[1], i), B = K + Rank(lists[2], i),
           A \in Nat, B \in Nat
    PROVE  Score(lists, i).num = A + B /\ Score(lists, i).den = A * B
<1>1. 1 * B + 1 * A = A + B
    OBVIOUS
<1> QED BY <1>1 DEF Score, Plus, Share

LEMMA ScoreOfOne ==
    ASSUME NEW lists, NEW i, NEW s \in Sides, In(lists[s], i), ~In(lists[3 - s], i)
    PROVE  Score(lists, i).num = 1 /\ Score(lists, i).den = K + Rank(lists[s], i)
BY DEF Score, Share, Sides

(* A listed id that is not on both sides is on one. *)
LEMMA OnOneSide ==
    ASSUME NEW lists, NEW i \in Listed(lists), SidesWith(lists, i) # Sides
    PROVE  \E s \in Sides : In(lists[s], i) /\ ~In(lists[3 - s], i)
<1>1. In(lists[1], i) \/ In(lists[2], i)
    BY ListedIsIn
<1>2. ~In(lists[1], i) \/ ~In(lists[2], i)
    BY DEF SidesWith, Sides
<1>3. 1 \in Sides /\ 2 \in Sides /\ 3 - 1 = 2 /\ 3 - 2 = 1
    BY DEF Sides
<1> QED BY <1>1, <1>2, <1>3

LEMMA OnBothSides ==
    ASSUME NEW lists, NEW i
    PROVE  SidesWith(lists, i) = Sides <=> In(lists[1], i) /\ In(lists[2], i)
BY DEF SidesWith, Sides

LEMMA HigherComesBefore ==
    ASSUME NEW S, NEW lists \in Pairs(S), NEW i \in Listed(lists), NEW j \in Listed(lists),
           Higher(Score(lists, i), Score(lists, j))
    PROVE  Rank(Fuse(lists), i) < Rank(Fuse(lists), j)
BY BeforeIsRankedHigher DEF Before

(* Whatever their ranks are: with at most k + 1 candidates a rank is at    *)
(* most k + 1, and 1 / (k + rank) is at most twice as high for one rank as *)
(* for another.                                                            *)
LEMMA AgreementHolds ==
    ASSUME NEW S, NEW lists \in Pairs(S)
    PROVE  AgreementComesFirst(lists, Fuse(lists))
<1> SUFFICES ASSUME NEW i \in Listed(lists), NEW j \in Listed(lists),
                    SidesWith(lists, i) = Sides, SidesWith(lists, j) # Sides
             PROVE  Rank(Fuse(lists), i) < Rank(Fuse(lists), j)
    BY FuseIsAtPlace DEF AgreementComesFirst
<1> DEFINE A == K + Rank(lists[1], i)
           B == K + Rank(lists[2], i)
<1>1. PICK s \in Sides : In(lists[s], j) /\ ~In(lists[3 - s], j)
    BY OnOneSide
<1> DEFINE C == K + Rank(lists[s], j)
<1>2. In(lists[1], i) /\ In(lists[2], i)
    BY OnBothSides
<1>3. A \in (K + 1)..(2 * K + 1) /\ B \in (K + 1)..(2 * K + 1) /\ C \in (K + 1)..(2 * K + 1)
    BY <1>1, <1>2, RankOfRanked, SidesAreRankings
<1>4. /\ A \in Nat \ {0} /\ B \in Nat \ {0} /\ C \in Nat \ {0}
      /\ A < C + C /\ B < C + C
  <2> HIDE DEF A, B, C
  <2> QED BY <1>3
<1>5. Score(lists, i).num = A + B /\ Score(lists, i).den = A * B
    BY <1>2, <1>4, ScoreOfBoth
<1>6. Score(lists, j).num = 1 /\ Score(lists, j).den = C
    BY <1>1, ScoreOfOne
<1>7. Higher(Score(lists, i), Score(lists, j))
  <2> HIDE DEF A, B, C
  <2>1. A * B < (A + B) * C
      BY <1>4, TwoSharesBeatOne
  <2>2. 1 * (A * B) = A * B /\ A * B \in Nat /\ (A + B) * C \in Nat
      BY <1>4
  <2> QED BY <1>5, <1>6, <2>1, <2>2 DEF Higher
<1> QED BY <1>7, HigherComesBefore

LEMMA BetterRanksHold ==
    ASSUME NEW S, NEW lists \in Pairs(S)
    PROVE  BetterRanksFirst(lists, Fuse(lists))
<1> SUFFICES ASSUME NEW i \in Listed(lists), NEW j \in Listed(lists),
                    \A s \in SidesWith(lists, j) :
                       s \in SidesWith(lists, i) /\ Rank(lists[s], i) < Rank(lists[s], j)
             PROVE  Higher(Score(lists, i), Score(lists, j))
    BY FuseIsAtPlace, HigherComesBefore DEF BetterRanksFirst
<1> DEFINE rank(s, c) == K + Rank(lists[s], c)
<1>1. \A s \in Sides : In(lists[s], j) => In(lists[s], i) /\ rank(s, i) < rank(s, j)
  <2> SUFFICES ASSUME NEW s \in Sides, In(lists[s], j)
               PROVE  In(lists[s], i) /\ rank(s, i) < rank(s, j)
      OBVIOUS
  <2>1. In(lists[s], i) /\ Rank(lists[s], i) < Rank(lists[s], j)
      BY DEF SidesWith
  <2>2. lists[s] \in Rankings(S)
      BY SidesAreRankings
  <2>3. /\ Rank(lists[s], i) \in 1..Len(lists[s]) /\ Rank(lists[s], j) \in 1..Len(lists[s])
        /\ Len(lists[s]) \in Nat
      BY <2>1, <2>2, RankOfRanked
  <2> QED BY <2>1, <2>3
<1>2. \A s \in Sides, c \in {i, j} : In(lists[s], c) => rank(s, c) \in (K + 1)..(2 * K + 1)
    BY RankOfRanked, SidesAreRankings
<1>3. 1 \in Sides /\ 2 \in Sides
    BY DEF Sides
<1>4. CASE SidesWith(lists, j) = Sides
  <2> DEFINE A == rank(1, i) B == rank(2, i) C == rank(1, j) D == rank(2, j)
  <2>1. In(lists[1], j) /\ In(lists[2], j)
      BY <1>4, OnBothSides
  <2>2. In(lists[1], i) /\ In(lists[2], i) /\ A < C /\ B < D
      BY <1>1, <1>3, <2>1
  <2>3. A \in Nat \ {0} /\ B \in Nat \ {0} /\ C \in Nat \ {0} /\ D \in Nat \ {0}
      BY <2>1, <2>2, RankOfRanked, SidesAreRankings
  <2>4. /\ Score(lists, i).num = A + B /\ Score(lists, i).den = A * B
        /\ Score(lists, j).num = C + D /\ Score(lists, j).den = C * D
      BY <2>1, <2>2, <2>3, ScoreOfBoth
  <2> HIDE DEF A, B, C, D
  <2>5. (C + D) * (A * B) < (A + B) * (C * D)
      BY <2>2, <2>3, SumKeepsOrder
  <2> QED BY <2>4, <2>5 DEF Higher
<1>5. CASE SidesWith(lists, j) # Sides
  <2>1. PICK s \in Sides : In(lists[s], j) /\ ~In(lists[3 - s], j)
      BY <1>5, OnOneSide
  <2> DEFINE A == rank(1, i) B == rank(2, i) C == rank(s, j) R == rank(s, i)
  <2>2. In(lists[s], i) /\ R < C
      BY <1>1, <2>1
  <2>3. Score(lists, j).num = 1 /\ Score(lists, j).den = C
      BY <2>1, ScoreOfOne
  <2>4. CASE SidesWith(lists, i) = Sides
    <3>1. In(lists[1], i) /\ In(lists[2], i)
        BY <2>4, OnBothSides
    <3>2. /\ A \in (K + 1)..(2 * K + 1) /\ B \in (K + 1)..(2 * K + 1)
          /\ C \in (K + 1)..(2 * K + 1)
        BY <1>2, <1>3, <2>1, <3>1
    <3>3. /\ A \in Nat \ {0} /\ B \in Nat \ {0} /\ C \in Nat \ {0}
          /\ A < C + C /\ B < C + C
      <4> HIDE DEF A, B, C
      <4> QED BY <3>2
    <3>4. Score(lists, i).num = A + B /\ Score(lists, i).den = A * B
        BY <3>1, <3>3, ScoreOfBoth
    <3> HIDE DEF A, B, C
    <3>5. A * B < (A + B) * C
        BY <3>3, TwoSharesBeatOne
    <3>6. 1 * (A * B) = A * B
        BY <3>3
    <3> QED BY <2>3, <3>4, <3>5, <3>6 DEF Higher
  <2>5. CASE SidesWith(lists, i) # Sides
    <3>1. ~In(lists[3 - s], i)
        BY <2>2, <2>5, OnBothSides DEF Sides
    <3>2. Score(lists, i).num = 1 /\ Score(lists, i).den = R
        BY <2>2, <3>1, ScoreOfOne
    <3>3. R \in Nat /\ C \in Nat
        BY <2>1, <2>2, RankOfRanked, SidesAreRankings
    <3> HIDE DEF R, C
    <3> QED BY <2>2, <2>3, <3>2, <3>3 DEF Higher
  <2> QED BY <2>4, <2>5
<1> QED BY <1>4, <1>5

(* Equal scores: the id that was first seen comes first.                   *)
LEMMA TiesHold ==
    ASSUME NEW S, NEW lists \in Pairs(S)
    PROVE  TiesFollowVector(lists, Fuse(lists))
<1> SUFFICES ASSUME NEW i \in Listed(lists), NEW j \in Listed(lists),
                    SwappedRanks(lists, i, j) \/ SameRankApart(lists, i, j)
             PROVE  Before(lists, i, j)
    BY FuseIsAtPlace, BeforeIsRankedHigher DEF TiesFollowVector
<1>1. CASE SwappedRanks(lists, i, j)
  <2> DEFINE A == K + Rank(lists[1], i)
             B == K + Rank(lists[2], i)
  <2>1. In(lists[1], i) /\ In(lists[2], i) /\ In(lists[1], j) /\ In(lists[2], j)
      BY <1>1, OnBothSides DEF SwappedRanks
  <2>2. /\ Rank(lists[1], i) = Rank(lists[2], j) /\ Rank(lists[2], i) = Rank(lists[1], j)
        /\ Rank(lists[1], i) < Rank(lists[1], j)
      BY <1>1 DEF SwappedRanks, Sides
  <2>3. A \in Nat \ {0} /\ B \in Nat \ {0}
      BY <2>1, RankOfRanked, SidesAreRankings
  <2>4. /\ Score(lists, i).num = A + B /\ Score(lists, i).den = A * B
        /\ Score(lists, j).num = B + A /\ Score(lists, j).den = B * A
      BY <2>1, <2>2, <2>3, ScoreOfBoth
  <2>5. ~Higher(Score(lists, j), Score(lists, i))
    <3> HIDE DEF A, B
    <3>1. B + A = A + B /\ B * A = A * B /\ (A + B) * (A * B) \in Nat
        BY <2>3
    <3> QED BY <2>4, <3>1 DEF Higher
  <2>6. FirstSeen(lists, i) < FirstSeen(lists, j)
      BY <2>1, <2>2 DEF FirstSeen
  <2> QED BY <2>5, <2>6 DEF Before
<1>2. CASE SameRankApart(lists, i, j)
  <2>1. In(lists[1], i) /\ ~In(lists[2], i) /\ ~In(lists[1], j) /\ In(lists[2], j)
      BY <1>2 DEF SameRankApart, SidesWith, Sides
  <2>2. Rank(lists[1], i) = Rank(lists[2], j)
      BY <1>2 DEF SameRankApart
  <2>3. Score(lists, i) = Score(lists, j)
      BY <2>1, <2>2 DEF Score, Share
  <2>4. ~Higher(Score(lists, j), Score(lists, i))
      BY <2>3, ScoreIsFraction, HigherTotal
  <2>5. /\ Rank(lists[1], i) \in 1..Len(lists[1]) /\ Rank(lists[2], j) \in 1..Len(lists[2])
        /\ Len(lists[1]) \in Nat /\ Len(lists[2]) \in Nat
      BY <2>1, RankOfRanked, SidesAreRankings
  <2>6. FirstSeen(lists, i) < FirstSeen(lists, j)
      BY <2>1, <2>5 DEF FirstSeen
  <2> QED BY <2>4, <2>6 DEF Before
<1> QED BY <1>1, <1>2

(* What a call of fuse leaves is what RanksAreRespected asks for.          *)
KeepsRanks(f) ==
    /\ NothingLostOrDoubled(f.lists, f.result)
    /\ AgreementComesFirst(f.lists, f.result)
    /\ BetterRanksFirst(f.lists, f.result)
    /\ TiesFollowVector(f.lists, f.result)

(* For any two rankings of ids, fuse (policy_search.py) returns each id     *)
(* once, agreement before single finds, better ranks before worse ones,    *)
(* and ties in the order of the vector ranking.                            *)
THEOREM FusionKeepsRanks ==
    ASSUME NEW fusion \in Fusions
    PROVE  KeepsRanks(fusion)
<1>1. PICK lists \in Pairs(ChunkIds) : fusion = [lists |-> lists, result |-> Fuse(lists)]
    BY DEF Fusions, Pairs
<1>2. NothingLostOrDoubled(lists, Fuse(lists))
    BY FuseIsAtPlace DEF NothingLostOrDoubled, Listed
<1> QED BY <1>1, <1>2, AgreementHolds, BetterRanksHold, TiesHold DEF KeepsRanks

-----------------------------------------------------------------------------
(* The inductive invariant. *)

Items == [chunks : Found, build : Builds, since : Nat, until : Nat]

IndexTypes == TypeOK /\ evidence \in Seq(Items)

AreOf(chunks, k) == DOMAIN chunks \subseteq DOMAIN k /\ chunks = Restrict(k, DOMAIN chunks)

(* What a search has found, and has not recorded yet, is of one corpus.    *)
FoundIsOfOneCorpus ==
    \A s \in Searches : pc[s] = "record" =>
       \E j \in since[s]..Len(corpora) : AreOf(found[s], corpora[j])

(* A build id is read when a search ends.                                  *)
ItemsFit ==
    \A i \in 1..Len(evidence) :
       /\ evidence[i].since <= evidence[i].until
       /\ evidence[i].build = BuildOf(corpora[evidence[i].until])
       /\ \E j \in evidence[i].since..evidence[i].until : AreOf(evidence[i].chunks, corpora[j])

(* The request is saved once, after the searches.                          *)
RequestFits ==
    /\ request # "saving" => version = {}
    /\ request # "recorded" => records = {}
    /\ request \in {"saving", "recorded"} => \A s \in Searches : pc[s] \in {"idle", "done"}

(* A version is read after the last search.                                *)
VersionFits ==
    \A v \in version \cup records :
       \E j \in 1..Len(corpora) :
          /\ v = BuildOf(corpora[j])
          /\ \A i \in 1..Len(evidence) : evidence[i].until <= j

FusedFits == fused \subseteq Fusions

IndexInvariant ==
    IndexTypes /\ FoundIsOfOneCorpus /\ ItemsFit /\ RequestFits /\ VersionFits /\ FusedFits

LEMMA CorpusIsTyped ==
    ASSUME NEW k \in Corpora
    PROVE  /\ DOMAIN k \subseteq ChunkIds
           /\ \A c \in DOMAIN k : k[c] \in Versions
           /\ BuildOf(k) \in Builds
           /\ \A S \in SUBSET (DOMAIN k) : Restrict(k, S) \in [S -> Versions]
                                           /\ Restrict(k, S) \in Found
<1>1. DOMAIN k \subseteq ChunkIds
    BY PolicyIndexAssumption
<1>2. \A c \in DOMAIN k : k[c] \in Versions
    BY DEF Versions, Range
<1>3. \A c \in DOMAIN k : PolicyOf[c] \in Range(PolicyOf)
    BY <1>1 DEF ChunkIds, Range
<1>4. BuildOf(k) \in Builds
    BY <1>2, <1>3 DEF BuildOf, Builds
<1>5. \A S \in SUBSET (DOMAIN k) : Restrict(k, S) \in [S -> Versions]
    BY <1>2 DEF Restrict
<1>6. \A S \in SUBSET (DOMAIN k) : [S -> Versions] \subseteq Found
    BY <1>1 DEF Found
<1> QED BY <1>1, <1>2, <1>4, <1>5, <1>6

LEMMA RankingsGrow ==
    ASSUME NEW S, NEW T, S \subseteq T
    PROVE  Rankings(S) \subseteq Rankings(T)
<1> SUFFICES ASSUME NEW r \in Rankings(S)
             PROVE  r \in Rankings(T)
    OBVIOUS
<1>1. Len(r) \in 0..Candidates /\ r \in [1..Len(r) -> S] /\ IsInjective(r)
    BY RankingIsSequence
<1>2. r \in [1..Len(r) -> T]
    BY <1>1
<1> QED BY <1>1, <1>2 DEF Rankings

LEMMA FusionIsTyped ==
    ASSUME NEW fusion \in Fusions
    PROVE  /\ fusion \in [lists : Rankings(ChunkIds) \X Rankings(ChunkIds), result : Seq(ChunkIds)]
           /\ FirstIds(fusion.result) \subseteq ChunkIds
<1>1. PICK lists \in Pairs(ChunkIds) : fusion = [lists |-> lists, result |-> Fuse(lists)]
    BY DEF Fusions, Pairs
<1>2. \A i \in Listed(lists) : i \in ChunkIds
    BY ListedIsIn, RankedIsElement, SidesAreRankings
<1>3. /\ DOMAIN Fuse(lists) = 1..Cardinality(Listed(lists))
      /\ \A n \in DOMAIN Fuse(lists) : Fuse(lists)[n] \in ChunkIds
    BY <1>2, FuseIsAtPlace
<1>4. Fuse(lists) \in [1..Cardinality(Listed(lists)) -> ChunkIds]
    BY <1>3 DEF Fuse
<1>5. Fuse(lists) \in Seq(ChunkIds)
    BY <1>4, ListedIsFinite, SeqDef
<1> QED BY <1>1, <1>3, <1>5 DEF FirstIds, Pairs

(* What the types say of the sequences.                                    *)
LEMMA SequencesAreTyped ==
    ASSUME IndexTypes
    PROVE  /\ Len(corpora) \in Nat /\ Len(corpora) >= 1
           /\ corpora \in Seq(Corpora)
           /\ \A j \in 1..Len(corpora) : corpora[j] \in Corpora
           /\ Current = corpora[Len(corpora)] /\ Current \in Corpora
           /\ Len(evidence) \in Nat /\ evidence \in Seq(Items)
           /\ \A i \in 1..Len(evidence) :
                 /\ evidence[i] \in Items
                 /\ evidence[i].since \in 1..Len(corpora) /\ evidence[i].until \in 1..Len(corpora)
           /\ \A s \in Searches : since[s] \in 1..Len(corpora)
<1> USE PolicyIndexAssumption
<1>1. corpora \in Seq(Corpora) /\ Len(corpora) \in 1..(MaxSeeds + 1) /\ evidence \in Seq(Items)
    BY DEF IndexTypes, TypeOK
<1>2. \A j \in 1..Len(corpora) : corpora[j] \in Corpora
    BY <1>1, ElementOfSeq
<1>3. \A i \in 1..Len(evidence) : evidence[i] \in Items
    BY <1>1, ElementOfSeq
<1>4. Len(evidence) \in Nat
    BY <1>1, LenProperties
<1>5. Current = corpora[Len(corpora)] /\ Current \in Corpora
    BY <1>1, <1>2 DEF Current, Last
<1>6. \A i \in 1..Len(evidence) :
         evidence[i].since \in 1..Len(corpora) /\ evidence[i].until \in 1..Len(corpora)
    BY DEF IndexTypes, TypeOK
<1>7. \A s \in Searches : since[s] \in 1..Len(corpora)
    BY DEF IndexTypes, TypeOK
<1> QED BY <1>1, <1>2, <1>3, <1>4, <1>5, <1>6, <1>7

-----------------------------------------------------------------------------
LEMMA InitIndex == Init => IndexInvariant
<1> SUFFICES ASSUME Init PROVE IndexInvariant
    OBVIOUS
<1>1. PICK k \in Corpora : corpora = <<k>>
    BY DEF Init
<1>2. corpora \in Seq(Corpora) /\ Len(corpora) = 1
    BY <1>1
<1>3. evidence = <<>> /\ Len(evidence) = 0 /\ evidence \in Seq(Items)
    BY DEF Init
<1>4. <<>> \in Rankings(ChunkIds)
  <2>1. <<>> \in [1..0 -> ChunkIds] /\ 0 \in 0..Candidates
      OBVIOUS
  <2>2. IsInjective(<<>>)
      BY DEF IsInjective
  <2> QED BY <2>1, <2>2 DEF Rankings
<1>5. <<>> \in Found
  <2>1. <<>> \in [{} -> Versions] /\ {} \in SUBSET ChunkIds
      OBVIOUS
  <2> QED BY <2>1 DEF Found
<1>6. IndexTypes
    BY <1>2, <1>3, <1>4, <1>5, PolicyIndexAssumption DEF Init, IndexTypes, TypeOK, Underway
<1>7. FoundIsOfOneCorpus
    BY DEF Init, FoundIsOfOneCorpus
<1> QED BY <1>3, <1>6, <1>7
        DEF Init, IndexInvariant, ItemsFit, RequestFits, VersionFits, FusedFits

-----------------------------------------------------------------------------
(* Every step keeps the types. *)

LEMMA FusedStep ==
    ASSUME IndexInvariant, Next
    PROVE  fused' \subseteq Fusions
<1>1. ASSUME NEW s \in Searches, RankByKeyword(s)
      PROVE  fused' \subseteq Fusions
    BY <1>1 DEF RankByKeyword
<1> QED BY <1>1 DEF Next

(* The parts of the state beside the corpora and the evidence.             *)
SearchTypes ==
    /\ pc \in [Searches -> Underway \cup {"idle", "done", "missing", "failed"}]
    /\ byVector \in [Searches -> Rankings(ChunkIds)]
    /\ ids \in [Searches -> SUBSET ChunkIds]
    /\ found \in [Searches -> Found]
    /\ request \in {"running", "saving", "recorded", "failed"}
    /\ version \subseteq Builds /\ records \subseteq Builds

LEMMA SearchTypesStep ==
    ASSUME IndexInvariant, Next
    PROVE  SearchTypes'
<1>1. IndexTypes /\ SearchTypes
    BY DEF IndexInvariant, IndexTypes, TypeOK, SearchTypes
<1>2. /\ pc \in [Searches -> Underway \cup {"idle", "done", "missing", "failed"}]
      /\ byVector \in [Searches -> Rankings(ChunkIds)]
      /\ ids \in [Searches -> SUBSET ChunkIds]
      /\ found \in [Searches -> Found]
      /\ request \in {"running", "saving", "recorded", "failed"}
      /\ version \subseteq Builds /\ records \subseteq Builds
    BY <1>1 DEF SearchTypes
<1>3. Current \in Corpora /\ DOMAIN Current \subseteq ChunkIds /\ BuildOf(Current) \in Builds
    BY <1>1, SequencesAreTyped, CorpusIsTyped
<1>4. <<>> \in Rankings(ChunkIds) /\ <<>> \in Found /\ {} \in SUBSET ChunkIds
  <2>1. <<>> \in [1..0 -> ChunkIds] /\ 0 \in 0..Candidates
      OBVIOUS
  <2>2. IsInjective(<<>>)
      BY DEF IsInjective
  <2>3. <<>> \in [{} -> Versions] /\ {} \in SUBSET ChunkIds
      OBVIOUS
  <2> QED BY <2>1, <2>2, <2>3 DEF Rankings, Found
<1>5. ASSUME NEW s \in Searches, Begin(s)
      PROVE  SearchTypes'
    BY <1>2, <1>5 DEF Begin, Goto, Underway, SearchTypes
<1>6. ASSUME NEW s \in Searches, RankByVector(s)
      PROVE  SearchTypes'
  <2>1. PICK ranking \in Rankings(DOMAIN Current) : byVector' = [byVector EXCEPT ![s] = ranking]
      BY <1>6 DEF RankByVector
  <2>2. ranking \in Rankings(ChunkIds)
      BY <1>3, RankingsGrow
  <2> QED BY <1>2, <1>6, <2>1, <2>2 DEF RankByVector, Goto, Underway, SearchTypes
<1>7. ASSUME NEW s \in Searches, RankByKeyword(s)
      PROVE  SearchTypes'
  <2>1. PICK fusion \in Fusions : ids' = [ids EXCEPT ![s] = FirstIds(fusion.result)]
      BY <1>7 DEF RankByKeyword
  <2>2. FirstIds(fusion.result) \in SUBSET ChunkIds
      BY FusionIsTyped
  <2> QED BY <1>2, <1>4, <1>7, <2>1, <2>2 DEF RankByKeyword, Goto, Underway, SearchTypes
<1>8. ASSUME NEW s \in Searches, FetchChunks(s)
      PROVE  SearchTypes'
  <2>1. PICK versions \in [ids[s] -> Versions] : found' = [found EXCEPT ![s] = versions]
      BY <1>8 DEF FetchChunks
  <2>2. versions \in Found
      BY <1>2 DEF Found
  <2> QED BY <1>2, <1>4, <1>8, <2>1, <2>2 DEF FetchChunks, Goto, Underway, SearchTypes
<1>9. ASSUME NEW s \in Searches, NEW label \in {"missing", "failed"}, Raise(s, label)
      PROVE  SearchTypes'
    BY <1>2, <1>4, <1>9 DEF Raise, Goto, SearchTypes
<1>10. ASSUME NEW s \in Searches, RecordSearch(s)
       PROVE  SearchTypes'
    BY <1>2, <1>4, <1>10 DEF RecordSearch, Goto, SearchTypes
<1>11. CASE ReadPolicyVersion
    BY <1>2, <1>3, <1>11 DEF ReadPolicyVersion, PolicyVersion, SearchTypes
<1>12. CASE SaveRecord
    BY <1>2, <1>12 DEF SaveRecord, SearchTypes
<1>13. CASE RequestFails
    BY <1>2, <1>13 DEF RequestFails, SearchTypes
<1>14. CASE LoadSeed
    BY <1>2, <1>14 DEF LoadSeed, SearchTypes
<1> QED BY <1>5, <1>6, <1>7, <1>8, <1>9, <1>10, <1>11, <1>12, <1>13, <1>14
        DEF Next, Search, ChunkIsMissing, SearchFails

(* Corpora are only added, and a search remembers the last one.            *)
LEMMA CorporaStep ==
    ASSUME IndexInvariant, Next
    PROVE  /\ corpora' \in Seq(Corpora) /\ Len(corpora') \in 1..(MaxSeeds + 1)
           /\ Len(corpora) <= Len(corpora')
           /\ \A j \in 1..Len(corpora) : corpora'[j] = corpora[j]
           /\ since' \in [Searches -> 1..Len(corpora')]
<1> USE PolicyIndexAssumption
<1>1. /\ corpora \in Seq(Corpora) /\ Len(corpora) \in 1..(MaxSeeds + 1)
      /\ since \in [Searches -> 1..Len(corpora)]
    BY DEF IndexInvariant, IndexTypes, TypeOK
<1>2. CASE LoadSeed
  <2>1. PICK k \in Corpora : corpora' = Append(corpora, k)
      BY <1>2 DEF LoadSeed
  <2>2. /\ corpora' \in Seq(Corpora) /\ Len(corpora') = Len(corpora) + 1
        /\ \A j \in 1..Len(corpora) : corpora'[j] = corpora[j]
      BY <1>1, <2>1, AppendProperties
  <2>3. Len(corpora) <= MaxSeeds /\ since' = since
      BY <1>2 DEF LoadSeed
  <2> QED BY <1>1, <2>2, <2>3
<1>3. CASE corpora' = corpora /\ since' = since
    BY <1>1, <1>3
<1>4. ASSUME NEW s \in Searches, Begin(s)
      PROVE  corpora' = corpora /\ since' \in [Searches -> 1..Len(corpora)]
    BY <1>1, <1>4 DEF Begin
<1>5. LoadSeed \/ (corpora' = corpora /\ since' = since) \/ \E s \in Searches : Begin(s)
    BY DEF Next, Search, RankByVector, RankByKeyword, FetchChunks, ChunkIsMissing, RecordSearch,
           SearchFails, Raise, ReadPolicyVersion, SaveRecord, RequestFails
<1> QED BY <1>1, <1>2, <1>3, <1>4, <1>5

ItemOf(s) ==
    [chunks |-> found[s], build |-> IndexBuildId, since |-> since[s], until |-> Len(corpora)]

LEMMA RecordedItem ==
    ASSUME IndexInvariant, NEW s \in Searches, RecordSearch(s)
    PROVE  /\ ItemOf(s) \in Items
           /\ evidence' \in Seq(Items) /\ Len(evidence') = Len(evidence) + 1
           /\ \A i \in 1..Len(evidence) : evidence'[i] = evidence[i]
           /\ evidence'[Len(evidence) + 1] = ItemOf(s)
           /\ corpora' = corpora
<1>1. IndexTypes /\ found[s] \in Found /\ since[s] \in 1..Len(corpora)
    BY DEF IndexInvariant, IndexTypes, TypeOK
<1>2. Len(corpora) \in Nat /\ BuildOf(Current) \in Builds /\ evidence \in Seq(Items)
    BY <1>1, SequencesAreTyped, CorpusIsTyped
<1>3. ItemOf(s) \in Items
    BY <1>1, <1>2 DEF ItemOf, Items, IndexBuildId
<1>4. evidence' = Append(evidence, ItemOf(s)) /\ corpora' = corpora
    BY DEF RecordSearch, ItemOf
<1> QED BY <1>2, <1>3, <1>4, AppendProperties

LEMMA EvidenceOnlyGrows ==
    ASSUME Next
    PROVE  evidence' = evidence \/ \E s \in Searches : RecordSearch(s)
BY DEF Next, Search, Begin, RankByVector, RankByKeyword, FetchChunks, ChunkIsMissing,
       SearchFails, Raise, ReadPolicyVersion, SaveRecord, RequestFails, LoadSeed

LEMMA EvidenceTypesStep ==
    ASSUME IndexInvariant, Next
    PROVE  /\ evidence' \in Seq(Items)
           /\ \A i \in 1..Len(evidence') :
                 evidence'[i] \in [chunks : Found, build : Builds,
                                   since : 1..Len(corpora'), until : 1..Len(corpora')]
<1>1. IndexTypes
    BY DEF IndexInvariant
<1>2. Len(corpora) \in Nat /\ Len(corpora') \in Nat /\ Len(corpora) <= Len(corpora')
    BY <1>1, SequencesAreTyped, CorporaStep, PolicyIndexAssumption
<1>3. \A i \in 1..Len(evidence) :
         evidence[i] \in [chunks : Found, build : Builds,
                          since : 1..Len(corpora), until : 1..Len(corpora)]
    BY <1>1 DEF IndexTypes, TypeOK
<1>4. 1..Len(corpora) \subseteq 1..Len(corpora')
    BY <1>2
<1>5. [chunks : Found, build : Builds, since : 1..Len(corpora), until : 1..Len(corpora)]
         \subseteq [chunks : Found, build : Builds,
                    since : 1..Len(corpora'), until : 1..Len(corpora')]
    BY <1>4
<1>6. CASE evidence' = evidence
    BY <1>1, <1>3, <1>5, <1>6, SequencesAreTyped
<1>7. ASSUME NEW s \in Searches, RecordSearch(s)
      PROVE  /\ evidence' \in Seq(Items)
             /\ \A i \in 1..Len(evidence') :
                   evidence'[i] \in [chunks : Found, build : Builds,
                                     since : 1..Len(corpora'), until : 1..Len(corpora')]
  <2>1. /\ evidence' \in Seq(Items) /\ Len(evidence') = Len(evidence) + 1
        /\ \A i \in 1..Len(evidence) : evidence'[i] = evidence[i]
        /\ evidence'[Len(evidence) + 1] = ItemOf(s) /\ ItemOf(s) \in Items
        /\ corpora' = corpora
      BY <1>7, RecordedItem
  <2>2. since[s] \in 1..Len(corpora) /\ Len(corpora) \in 1..Len(corpora)
      BY <1>1, SequencesAreTyped
  <2>3. ItemOf(s) \in [chunks : Found, build : Builds,
                       since : 1..Len(corpora), until : 1..Len(corpora)]
      BY <2>1, <2>2 DEF ItemOf, Items
  <2>4. Len(evidence) \in Nat
      BY <1>1, SequencesAreTyped
  <2>5. \A i \in 1..Len(evidence') : i \in 1..Len(evidence) \/ i = Len(evidence) + 1
      BY <2>1, <2>4
  <2> QED BY <1>3, <2>1, <2>3, <2>5
<1> QED BY <1>6, <1>7, EvidenceOnlyGrows

LEMMA TypesStep ==
    ASSUME IndexInvariant, Next
    PROVE  IndexTypes'
<1>1. fused' \subseteq [lists : Rankings(ChunkIds) \X Rankings(ChunkIds), result : Seq(ChunkIds)]
    BY FusedStep, FusionIsTyped
<1> QED BY <1>1, SearchTypesStep, CorporaStep, EvidenceTypesStep
        DEF SearchTypes, IndexTypes, TypeOK

-----------------------------------------------------------------------------
(* Every step keeps the other parts. *)

(* The rows are read in one statement, of the corpus that is current.      *)
LEMMA FoundStep ==
    ASSUME IndexInvariant, Next
    PROVE  FoundIsOfOneCorpus'
<1>1. IndexTypes /\ FoundIsOfOneCorpus
    BY DEF IndexInvariant
<1>2. /\ Len(corpora) \in Nat /\ Len(corpora') \in Nat /\ Len(corpora) <= Len(corpora')
      /\ \A j \in 1..Len(corpora) : corpora'[j] = corpora[j]
    BY <1>1, SequencesAreTyped, CorporaStep, PolicyIndexAssumption
<1> SUFFICES ASSUME NEW t \in Searches, pc'[t] = "record"
             PROVE  \E j \in since'[t]..Len(corpora') : AreOf(found'[t], corpora'[j])
    BY DEF FoundIsOfOneCorpus
<1>3. /\ pc \in [Searches -> Underway \cup {"idle", "done", "missing", "failed"}]
      /\ since \in [Searches -> 1..Len(corpora)] /\ found \in [Searches -> Found]
    BY <1>1 DEF IndexTypes, TypeOK
<1>4. CASE pc[t] = "record" /\ found'[t] = found[t] /\ since'[t] = since[t]
  <2>1. PICK j \in since[t]..Len(corpora) : AreOf(found[t], corpora[j])
      BY <1>1, <1>4 DEF FoundIsOfOneCorpus
  <2>2. j \in 1..Len(corpora) /\ j \in since'[t]..Len(corpora')
      BY <1>2, <1>3, <1>4
  <2> QED BY <1>2, <1>4, <2>1, <2>2
<1>5. CASE FetchChunks(t)
  <2>1. PICK versions \in [ids[t] -> Versions] :
            Fetched(t, versions) /\ found' = [found EXCEPT ![t] = versions]
      BY <1>5 DEF FetchChunks
  <2>2. versions = Restrict(Current, ids[t]) /\ found'[t] = versions
      BY <1>3, <2>1 DEF Fetched
  <2>3. ids[t] \subseteq DOMAIN Current /\ corpora' = corpora /\ since' = since
      BY <1>5 DEF FetchChunks
  <2>4. AreOf(found'[t], Current)
      BY <2>2, <2>3 DEF AreOf, Restrict
  <2>5. Current = corpora[Len(corpora)] /\ Len(corpora) \in since[t]..Len(corpora)
      BY <1>1, <1>2, <1>3, SequencesAreTyped
  <2> QED BY <2>3, <2>4, <2>5
<1>6. FetchChunks(t) \/ (pc[t] = "record" /\ found'[t] = found[t] /\ since'[t] = since[t])
  <2>1. ASSUME NEW s \in Searches, Begin(s)
        PROVE  pc[t] = "record" /\ found'[t] = found[t] /\ since'[t] = since[t]
      BY <1>3, <2>1 DEF Begin, Goto
  <2>2. ASSUME NEW s \in Searches, RankByVector(s)
        PROVE  pc[t] = "record" /\ found'[t] = found[t] /\ since'[t] = since[t]
      BY <1>3, <2>2 DEF RankByVector, Goto
  <2>3. ASSUME NEW s \in Searches, RankByKeyword(s)
        PROVE  pc[t] = "record" /\ found'[t] = found[t] /\ since'[t] = since[t]
      BY <1>3, <2>3 DEF RankByKeyword, Goto
  <2>4. ASSUME NEW s \in Searches, FetchChunks(s), s # t
        PROVE  pc[t] = "record" /\ found'[t] = found[t] /\ since'[t] = since[t]
      BY <1>3, <2>4 DEF FetchChunks, Goto
  <2>5. ASSUME NEW s \in Searches, NEW label \in {"missing", "failed"}, Raise(s, label)
        PROVE  pc[t] = "record" /\ found'[t] = found[t] /\ since'[t] = since[t]
      BY <1>3, <2>5 DEF Raise, Goto
  <2>6. ASSUME NEW s \in Searches, RecordSearch(s)
        PROVE  pc[t] = "record" /\ found'[t] = found[t] /\ since'[t] = since[t]
      BY <1>3, <2>6 DEF RecordSearch, Goto
  <2>7. CASE ReadPolicyVersion \/ SaveRecord \/ RequestFails \/ LoadSeed
      BY <2>7 DEF ReadPolicyVersion, SaveRecord, RequestFails, LoadSeed
  <2> QED BY <2>1, <2>2, <2>3, <2>4, <2>5, <2>6, <2>7
          DEF Next, Search, ChunkIsMissing, SearchFails
<1> QED BY <1>4, <1>5, <1>6

LEMMA ItemsStep ==
    ASSUME IndexInvariant, Next
    PROVE  ItemsFit'
<1>1. IndexTypes /\ ItemsFit /\ FoundIsOfOneCorpus
    BY DEF IndexInvariant
<1>2. /\ Len(corpora) \in Nat /\ Len(corpora') \in Nat /\ Len(corpora) <= Len(corpora')
      /\ \A j \in 1..Len(corpora) : corpora'[j] = corpora[j]
    BY <1>1, SequencesAreTyped, CorporaStep, PolicyIndexAssumption
<1> DEFINE Fits(item) ==
        /\ item.since <= item.until
        /\ item.build = BuildOf(corpora'[item.until])
        /\ \E j \in item.since..item.until : AreOf(item.chunks, corpora'[j])
<1>3. \A i \in 1..Len(evidence) : Fits(evidence[i])
  <2> SUFFICES ASSUME NEW i \in 1..Len(evidence)
               PROVE  Fits(evidence[i])
      OBVIOUS
  <2>1. evidence[i].since \in 1..Len(corpora) /\ evidence[i].until \in 1..Len(corpora)
      BY <1>1, SequencesAreTyped
  <2>2. PICK j \in evidence[i].since..evidence[i].until : AreOf(evidence[i].chunks, corpora[j])
      BY <1>1 DEF ItemsFit
  <2>3. corpora'[j] = corpora[j]
      BY <1>2, <2>1
  <2>4. corpora'[evidence[i].until] = corpora[evidence[i].until]
      BY <1>2, <2>1
  <2> QED BY <1>1, <2>2, <2>3, <2>4 DEF ItemsFit
<1>4. CASE evidence' = evidence
    BY <1>3, <1>4 DEF ItemsFit
<1>5. ASSUME NEW s \in Searches, RecordSearch(s)
      PROVE  \A i \in 1..Len(evidence') : Fits(evidence'[i])
  <2>1. /\ Len(evidence') = Len(evidence) + 1
        /\ \A i \in 1..Len(evidence) : evidence'[i] = evidence[i]
        /\ evidence'[Len(evidence) + 1] = ItemOf(s)
        /\ corpora' = corpora
      BY <1>5, RecordedItem
  <2>2. PICK j \in since[s]..Len(corpora) : AreOf(found[s], corpora[j])
      BY <1>1, <1>5 DEF FoundIsOfOneCorpus, RecordSearch
  <2>3. since[s] \in 1..Len(corpora) /\ Current = corpora[Len(corpora)]
      BY <1>1, SequencesAreTyped
  <2>4. Fits(ItemOf(s))
      BY <1>2, <2>1, <2>2, <2>3 DEF ItemOf, IndexBuildId
  <2>5. \A i \in 1..Len(evidence') : i \in 1..Len(evidence) \/ i = Len(evidence) + 1
      BY <1>1, <2>1, SequencesAreTyped
  <2> QED BY <1>3, <2>1, <2>4, <2>5
<1> QED BY <1>4, <1>5, EvidenceOnlyGrows DEF ItemsFit

(* A search ends before the version is read, and none begins after it.     *)
LEMMA RequestStep ==
    ASSUME IndexInvariant, Next
    PROVE  RequestFits'
<1>1. RequestFits /\ pc \in [Searches -> Underway \cup {"idle", "done", "missing", "failed"}]
    BY DEF IndexInvariant, IndexTypes, TypeOK
<1>2. /\ request # "saving" => version = {}
      /\ request # "recorded" => records = {}
      /\ request \in {"saving", "recorded"} => \A s \in Searches : pc[s] \in {"idle", "done"}
    BY <1>1 DEF RequestFits
<1>3. ASSUME NEW s \in Searches, pc[s] \in Underway
      PROVE  request \notin {"saving", "recorded"} /\ version = {} /\ records = {}
    BY <1>2, <1>3 DEF Underway
<1>4. ASSUME NEW s \in Searches, pc[s] \in Underway,
             request' = request \/ request' = "failed", version' = version, records' = records
      PROVE  RequestFits'
    BY <1>3, <1>4 DEF RequestFits
<1>5. ASSUME NEW s \in Searches, Begin(s)
      PROVE  RequestFits'
    BY <1>2, <1>5 DEF Begin, RequestFits
<1>6. ASSUME NEW s \in Searches, RankByVector(s)
      PROVE  RequestFits'
    BY <1>4, <1>6 DEF RankByVector, Underway
<1>7. ASSUME NEW s \in Searches, RankByKeyword(s)
      PROVE  RequestFits'
    BY <1>4, <1>7 DEF RankByKeyword, Underway
<1>8. ASSUME NEW s \in Searches, FetchChunks(s)
      PROVE  RequestFits'
    BY <1>4, <1>8 DEF FetchChunks, Underway
<1>9. ASSUME NEW s \in Searches, ChunkIsMissing(s) \/ SearchFails(s)
      PROVE  RequestFits'
    BY <1>4, <1>9 DEF ChunkIsMissing, SearchFails, Raise, Underway
<1>10. ASSUME NEW s \in Searches, RecordSearch(s)
       PROVE  RequestFits'
    BY <1>4, <1>10 DEF RecordSearch, Underway
<1>11. CASE ReadPolicyVersion
    BY <1>2, <1>11 DEF ReadPolicyVersion, RequestFits
<1>12. CASE SaveRecord
    BY <1>2, <1>12 DEF SaveRecord, RequestFits
<1>13. CASE RequestFails
    BY <1>2, <1>13 DEF RequestFails, RequestFits
<1>14. CASE LoadSeed
    BY <1>2, <1>14 DEF LoadSeed, RequestFits
<1> QED BY <1>5, <1>6, <1>7, <1>8, <1>9, <1>10, <1>11, <1>12, <1>13, <1>14 DEF Next, Search

LEMMA VersionStep ==
    ASSUME IndexInvariant, Next
    PROVE  VersionFits'
<1>1. IndexTypes /\ VersionFits /\ RequestFits
    BY DEF IndexInvariant
<1>2. /\ Len(corpora) \in Nat /\ Len(corpora) >= 1
      /\ Len(corpora') \in Nat /\ Len(corpora) <= Len(corpora')
      /\ \A j \in 1..Len(corpora) : corpora'[j] = corpora[j]
    BY <1>1, SequencesAreTyped, CorporaStep, PolicyIndexAssumption
<1>3. CASE evidence' = evidence /\ version' \cup records' \subseteq version \cup records
  <2> SUFFICES ASSUME NEW v \in version \cup records
               PROVE  \E j \in 1..Len(corpora') :
                         /\ v = BuildOf(corpora'[j])
                         /\ \A i \in 1..Len(evidence) : evidence[i].until <= j
      BY <1>3 DEF VersionFits
  <2>1. PICK j \in 1..Len(corpora) :
            /\ v = BuildOf(corpora[j])
            /\ \A i \in 1..Len(evidence) : evidence[i].until <= j
      BY <1>1 DEF VersionFits
  <2>2. j \in 1..Len(corpora') /\ corpora'[j] = corpora[j]
      BY <1>2
  <2> QED BY <2>1, <2>2
<1>4. CASE ReadPolicyVersion
  <2>1. /\ version' = {BuildOf(Current)} /\ evidence' = evidence
        /\ corpora' = corpora /\ records' = records
      BY <1>4 DEF ReadPolicyVersion, PolicyVersion
  <2>2. records = {}
      BY <1>1, <1>4 DEF ReadPolicyVersion, RequestFits
  <2>3. /\ Current = corpora[Len(corpora)]
        /\ \A i \in 1..Len(evidence) : evidence[i].until \in 1..Len(corpora)
      BY <1>1, SequencesAreTyped
  <2>4. Len(corpora) \in 1..Len(corpora)
      BY <1>2
  <2> QED BY <1>2, <2>1, <2>2, <2>3, <2>4 DEF VersionFits
<1>5. ASSUME NEW s \in Searches, RecordSearch(s)
      PROVE  VersionFits'
  <2>1. version = {} /\ records = {}
      BY <1>1, <1>5 DEF RecordSearch, RequestFits
  <2> QED BY <1>5, <2>1 DEF RecordSearch, VersionFits
<1>6. CASE SaveRecord
    BY <1>3, <1>6 DEF SaveRecord
<1>7. CASE RequestFails
    BY <1>3, <1>7 DEF RequestFails
<1>8. CASE LoadSeed
    BY <1>3, <1>8 DEF LoadSeed
<1>9. ASSUME NEW s \in Searches,
             \/ Begin(s) \/ RankByVector(s) \/ RankByKeyword(s)
             \/ FetchChunks(s) \/ ChunkIsMissing(s) \/ SearchFails(s)
      PROVE  VersionFits'
    BY <1>3, <1>9 DEF Begin, RankByVector, RankByKeyword, FetchChunks, ChunkIsMissing,
                      SearchFails, Raise
<1> QED BY <1>4, <1>5, <1>6, <1>7, <1>8, <1>9 DEF Next, Search

LEMMA IndexStutters ==
    ASSUME IndexInvariant, UNCHANGED vars
    PROVE  IndexInvariant'
BY DEF vars, IndexInvariant, IndexTypes, TypeOK, FoundIsOfOneCorpus, ItemsFit, RequestFits,
       VersionFits, FusedFits, Current

-----------------------------------------------------------------------------
(* However seeds come between the statements of searches and of finalize,  *)
(* the rows of a search are of one corpus, the build id of an item is that *)
(* of the corpus when it was recorded, and the version of the record is    *)
(* that of a corpus no older than any item.                                *)
THEOREM IndexInvariantHolds == Spec => []IndexInvariant
<1>1. Init => IndexInvariant
    BY InitIndex
<1>2. IndexInvariant /\ [Next]_vars => IndexInvariant'
    BY FusedStep, TypesStep, FoundStep, ItemsStep, RequestStep, VersionStep, IndexStutters
    DEF IndexInvariant, FusedFits
<1> QED BY <1>1, <1>2, PTL DEF Spec

(* fuse in every search, whatever the database holds meanwhile:            *)
(* no id is lost or doubled, what both rankings found comes before what    *)
(* one found, what is ranked better comes before what is ranked worse, and *)
(* ties follow the vector ranking.                                         *)
THEOREM RanksAreRespectedHolds == Spec => []RanksAreRespected
<1>1. IndexInvariant => RanksAreRespected
    BY FusionKeepsRanks DEF IndexInvariant, FusedFits, RanksAreRespected, KeepsRanks
<1> QED BY <1>1, IndexInvariantHolds, PTL

(* The passages of one search are of one corpus that was in the database   *)
(* during the search, however seeds and searches interleave.               *)
THEOREM PassagesOfOneCorpusHolds == Spec => []PassagesOfOneCorpus
<1>1. IndexInvariant => PassagesOfOneCorpus
    BY DEF IndexInvariant, ItemsFit, AreOf, PassagesOfOneCorpus, ComesFrom
<1> QED BY <1>1, IndexInvariantHolds, PTL

(* A search that no seed disturbed names the index that it read.           *)
THEOREM UndisturbedSearchIsExactHolds == Spec => []UndisturbedSearchIsExact
<1>1. IndexInvariant => UndisturbedSearchIsExact
    BY DEF IndexInvariant, ItemsFit, UndisturbedSearchIsExact
<1> QED BY <1>1, IndexInvariantHolds, PTL

(* When no seed was loaded since the searches began, the record names the  *)
(* version of every passage.                                               *)
THEOREM UndisturbedRecordIsExactHolds == Spec => []UndisturbedRecordIsExact
<1>1. IndexInvariant => UndisturbedRecordIsExact
  <2> SUFFICES ASSUME IndexInvariant,
                      NEW record \in records, NEW i \in 1..Len(evidence),
                      evidence[i].since = Len(corpora)
               PROVE  /\ record = evidence[i].build
                      /\ \A c \in DOMAIN evidence[i].chunks :
                            <<PolicyOf[c], evidence[i].chunks[c]>> \in record
      BY DEF UndisturbedRecordIsExact
  <2>1. Len(corpora) \in Nat /\ evidence[i].until \in 1..Len(corpora)
      BY SequencesAreTyped DEF IndexInvariant
  <2>2. PICK v \in 1..Len(corpora) :
            record = BuildOf(corpora[v]) /\ evidence[i].until <= v
      BY DEF IndexInvariant, VersionFits
  <2>3. /\ evidence[i].since <= evidence[i].until
        /\ evidence[i].build = BuildOf(corpora[evidence[i].until])
      BY DEF IndexInvariant, ItemsFit
  <2>4. PICK j \in evidence[i].since..evidence[i].until : AreOf(evidence[i].chunks, corpora[j])
      BY DEF IndexInvariant, ItemsFit
  <2>5. evidence[i].until = Len(corpora) /\ v = Len(corpora) /\ j = Len(corpora)
      BY <2>1, <2>2, <2>3, <2>4
  <2>6. \A c \in DOMAIN evidence[i].chunks :
           <<PolicyOf[c], evidence[i].chunks[c]>> \in BuildOf(corpora[j])
      BY <2>4 DEF AreOf, Restrict, BuildOf
  <2> QED BY <2>2, <2>3, <2>5, <2>6
<1> QED BY <1>1, IndexInvariantHolds, PTL

=============================================================================
