-------------------------- MODULE ModelClient_proofs --------------------------
(***************************************************************************)
(* For every number of retries and every timeout: no model is passed over, *)
(* what a request knows is in the audit log first, and one create waits no *)
(* longer than its tries and delays add up to.                             *)
(***************************************************************************)
EXTENDS ModelClient, FiniteSetTheorems, FunctionTheorems, TLAPS

USE ModelClientAssumption

-----------------------------------------------------------------------------
(* Powers of two count subsets. *)

LEMMA PowerCounts ==
    ASSUME NEW n \in Nat
    PROVE  /\ IsFiniteSet(SUBSET (1..n))
           /\ 2 ^ n = Cardinality(SUBSET (1..n))
           /\ 2 ^ n \in Nat
<1>1. IsFiniteSet(1..n) /\ Cardinality(1..n) = n
    BY FS_Interval
<1>2. /\ IsFiniteSet(SUBSET (1..n))
      /\ Cardinality(SUBSET (1..n)) = 2 ^ Cardinality(1..n)
    BY <1>1, FS_SUBSET
<1>3. Cardinality(SUBSET (1..n)) \in Nat
    BY <1>2, FS_CardinalityType
<1> QED BY <1>1, <1>2, <1>3

LEMMA PowerOfZero == 2 ^ 0 = 1
<1>1. 1..0 = {} /\ SUBSET {} = {{}}
    OBVIOUS
<1>2. Cardinality({{}}) = 1
    BY FS_Singleton
<1> QED BY <1>1, <1>2, PowerCounts

LEMMA PowersGrow ==
    ASSUME NEW m \in Nat, NEW n \in Nat, m <= n
    PROVE  2 ^ m <= 2 ^ n
<1>1. SUBSET (1..m) \in SUBSET (SUBSET (1..n))
    OBVIOUS
<1> QED BY <1>1, PowerCounts, FS_Subset

(* Half of the subsets of 1..(n + 1) have n + 1 in them.                   *)
LEMMA PowersDouble ==
    ASSUME NEW n \in Nat
    PROVE  2 ^ (n + 1) = 2 ^ n + 2 ^ n
<1> DEFINE without == SUBSET (1..n)
           with == {S \cup {n + 1} : S \in without}
           f == [S \in without |-> S \cup {n + 1}]
<1>1. IsFiniteSet(without) /\ Cardinality(without) = 2 ^ n /\ 2 ^ n \in Nat
    BY PowerCounts
<1>2. \A S \in without : n + 1 \notin S
    OBVIOUS
<1>3. f \in Bijection(without, with)
  <2>1. f \in [without -> with]
      OBVIOUS
  <2>2. \A S, T \in without : f[S] = f[T] => S = T
      BY <1>2
  <2>3. \A T \in with : \E S \in without : f[S] = T
      OBVIOUS
  <2> HIDE DEF without, with, f
  <2> QED BY <2>1, <2>2, <2>3, Fun_IsBij
<1>4. IsFiniteSet(with) /\ Cardinality(with) = 2 ^ n
    BY <1>1, <1>3, FS_Bijection DEF ExistsBijection
<1>5. without \cap with = {}
    BY <1>2
<1>6. SUBSET (1..(n + 1)) = without \cup with
  <2>1. 1..(n + 1) = (1..n) \cup {n + 1}
      OBVIOUS
  <2>2. ASSUME NEW S \in SUBSET (1..(n + 1)), n + 1 \in S PROVE S \in with
    <3>1. S \ {n + 1} \in without /\ S = (S \ {n + 1}) \cup {n + 1}
        BY <2>1, <2>2
    <3> QED BY <3>1
  <2>3. ASSUME NEW S \in SUBSET (1..(n + 1)), n + 1 \notin S PROVE S \in without
      BY <2>1, <2>3
  <2>4. \A S \in without \cup with : S \in SUBSET (1..(n + 1))
      BY <2>1
  <2> QED BY <2>2, <2>3, <2>4
<1> HIDE DEF without, with
<1>7. Cardinality(without \cup with) = 2 ^ n + 2 ^ n
    BY <1>1, <1>4, <1>5, FS_Union, FS_EmptySet
<1>8. 2 ^ (n + 1) = Cardinality(SUBSET (1..(n + 1)))
  <2>1. n + 1 \in Nat
      OBVIOUS
  <2> QED BY <2>1, PowerCounts
<1> QED BY <1>6, <1>7, <1>8

-----------------------------------------------------------------------------
(* The inductive invariant.                                                *)

Recording == {"saving", "adding", "added"}

(* Two different models at most are tried, one after the other. *)
ModelsDiffer == \A p, q \in DOMAIN models : models[p] = models[q] => p = q

(* The two writes of an item come one after the other. *)
WritesAgree ==
    /\ pc \in {"calling", "saving", "added", "answered", "unavailable"} => audit = evidence
    /\ pc = "adding" => audit = Append(evidence, item)
    /\ pc = "failed" => audit \in {evidence, Append(evidence, item)}

(* What create records is about the model that it tries. *)
ItemIsCurrent ==
    pc \in Recording =>
        /\ item.type = "model_call" => item.model = models[position] /\ item.attempt = attempt
        /\ item.type = "model_fallback" => position < Len(models) /\ FailedForGood(models[position])
        /\ item = GivenUp => position = Len(models) /\ FailedForGood(models[position])

ItemIsKnown == pc = "added" => \E i \in DOMAIN evidence : evidence[i] = item

(* Every model before this one has failed, and none after it was tried. *)
TriedInOrder ==
    /\ \A q \in 1..(position - 1) : FailedForGood(models[q])
    /\ \A i \in DOMAIN evidence : evidence[i].type = "model_call" =>
          \E p \in 1..position : evidence[i].model = models[p]

EndIsReached ==
    pc = "unavailable" => position = Len(models) /\ FailedForGood(models[position])

(* The longest time that one model can take. *)
ModelTime == Tries * Timeout + 2 ^ MaxRetries - 1

SpentFits ==
    LET tried == IF pc = "calling" THEN attempt - 1 ELSE attempt
    IN  spent <= (position - 1) * ModelTime + tried * Timeout + 2 ^ (attempt - 1) - 1

ClientInvariant ==
    /\ TypeOK /\ ModelsDiffer /\ WritesAgree /\ ItemIsCurrent /\ ItemIsKnown
    /\ TriedInOrder /\ EndIsReached /\ SpentFits

-----------------------------------------------------------------------------
(* The items and what is recorded of them. *)

LEMMA ItemKinds ==
    /\ \A i \in Calls : /\ i.type = "model_call" /\ i.model \in Models /\ i # GivenUp
                        /\ i.attempt \in 1..Tries /\ i.status \in CallStatuses
    /\ \A i \in Changes : i.type = "model_fallback" /\ i # GivenUp
    /\ GivenUp.type = "model_degraded"
    /\ \A i \in Items : /\ i.type = "model_call" => i \in Calls
                        /\ i.type = "model_fallback" => i \in Changes
    BY DEF Calls, Changes, GivenUp, Items

(* A model that failed for good stays failed. *)
LEMMA FailuresStay ==
    ASSUME evidence \in Seq(Items), item \in Items,
           evidence' = evidence \/ evidence' = Append(evidence, item),
           NEW model, FailedForGood(model)
    PROVE  FailedForGood(model)'
<1>1. \A i \in DOMAIN evidence : i \in DOMAIN evidence' /\ evidence'[i] = evidence[i]
    OBVIOUS
<1> QED BY <1>1 DEF FailedForGood, TriesOf

(* A model whose last try is not worth another has failed for good.        *)
LEMMA ExhaustedFails ==
    ASSUME ClientInvariant, pc = "added", Exhausted
    PROVE  FailedForGood(models[position])
<1>1. item \in Calls /\ item.model = models[position]
    BY ItemKinds DEF ClientInvariant, TypeOK, Exhausted, ItemIsCurrent, Recording
<1>2. PICK i \in DOMAIN evidence : evidence[i] = item
    BY DEF ClientInvariant, ItemIsKnown
<1>3. i \in TriesOf(models[position])
    BY <1>1, <1>2, ItemKinds DEF TriesOf
<1>4. item.status = "error" \/ (item.status = "retryable_error" /\ item.attempt = Tries)
    BY <1>1, ItemKinds DEF Exhausted, WorthRetry, CallStatuses, Tries
<1> QED BY <1>2, <1>3, <1>4 DEF FailedForGood

-----------------------------------------------------------------------------
(* The time. *)

LEMMA PowerOfAttempt ==
    ASSUME TypeOK
    PROVE  /\ 2 ^ (attempt - 1) \in Nat /\ 2 ^ (attempt - 1) >= 1
           /\ 2 ^ (attempt - 1) <= 2 ^ MaxRetries
           /\ 2 ^ attempt = 2 ^ (attempt - 1) + 2 ^ (attempt - 1)
           /\ 2 ^ MaxRetries \in Nat
<1>1. /\ attempt - 1 \in Nat /\ 0 <= attempt - 1 /\ attempt - 1 <= MaxRetries
      /\ attempt = (attempt - 1) + 1 /\ 0 \in Nat
    BY DEF TypeOK, Tries
<1>2. 2 ^ 0 <= 2 ^ (attempt - 1) /\ 2 ^ (attempt - 1) <= 2 ^ MaxRetries
    BY <1>1, PowersGrow
<1>3. 2 ^ ((attempt - 1) + 1) = 2 ^ (attempt - 1) + 2 ^ (attempt - 1)
    BY <1>1, PowersDouble
<1>4. 2 ^ (attempt - 1) \in Nat /\ 2 ^ MaxRetries \in Nat
    BY <1>1, PowerCounts
<1> QED BY <1>1, <1>2, <1>3, <1>4, PowerOfZero

LEMMA ModelTimeType ==
    ASSUME TypeOK
    PROVE  /\ ModelTime \in Nat
           /\ attempt * Timeout + 2 ^ (attempt - 1) - 1 <= ModelTime
<1>1. attempt \in Nat /\ attempt <= Tries /\ Tries \in Nat
    BY DEF TypeOK, Tries
<1>2. attempt * Timeout \in Nat /\ Tries * Timeout \in Nat
    BY <1>1
<1>3. attempt * Timeout <= Tries * Timeout
  <2>1. Tries * Timeout = attempt * Timeout + (Tries - attempt) * Timeout
      BY <1>1
  <2>2. Tries - attempt \in Nat
      BY <1>1
  <2>3. (Tries - attempt) * Timeout \in Nat
      BY <2>2
  <2> QED BY <1>2, <2>1, <2>3
<1> QED BY <1>2, <1>3, PowerOfAttempt DEF ModelTime

-----------------------------------------------------------------------------
(* The steps. *)

LEMMA InvInit == Init => ClientInvariant
<1> SUFFICES ASSUME Init PROVE ClientInvariant
    OBVIOUS
<1>1. PICK model \in Models, fallback \in Models \cup {NoModel} :
         models = IF fallback \in {NoModel, model} THEN <<model>> ELSE <<model, fallback>>
    BY DEF Init
<1>2. models \in Seq(Models) /\ 1 \in DOMAIN models /\ ModelsDiffer
  <2>1. CASE fallback \in {NoModel, model}
      BY <1>1, <2>1 DEF ModelsDiffer
  <2>2. CASE fallback \notin {NoModel, model}
      BY <1>1, <2>2 DEF ModelsDiffer
  <2> QED BY <2>1, <2>2
<1>3. /\ position = 1 /\ attempt = 1 /\ pc = "calling" /\ item = GivenUp
      /\ audit = <<>> /\ evidence = <<>> /\ spent = 0
    BY DEF Init
<1>4. TypeOK
    BY <1>2, <1>3 DEF TypeOK, Tries, Running, Items
<1>5. WritesAgree /\ ItemIsCurrent /\ ItemIsKnown /\ TriedInOrder /\ EndIsReached
    BY <1>3 DEF WritesAgree, ItemIsCurrent, Recording, ItemIsKnown, TriedInOrder, EndIsReached
<1>6. SpentFits
    BY <1>3, <1>4, ModelTimeType, PowerOfAttempt DEF SpentFits
<1> QED BY <1>2, <1>4, <1>5, <1>6 DEF ClientInvariant

(* Try and the three steps that announce a change.                         *)
LEMMA RecordKeeps ==
    ASSUME ClientInvariant, Try \/ AnnounceFallback \/ AnnounceEnd
    PROVE  ClientInvariant'
<1>1. /\ pc' = "saving" /\ pc \in {"calling", "added"}
      /\ UNCHANGED <<models, position, attempt, audit, evidence>>
    BY DEF Try, AnnounceFallback, AnnounceEnd, Record
<1>2. /\ models \in Seq(Models) /\ position \in DOMAIN models /\ attempt \in 1..Tries
      /\ models[position] \in Models
    BY DEF ClientInvariant, TypeOK
<1>3. /\ item' \in Items
      /\ item'.type = "model_call" => item'.model = models[position] /\ item'.attempt = attempt
      /\ item'.type = "model_fallback" => position < Len(models) /\ FailedForGood(models[position])
      /\ item' = GivenUp => position = Len(models) /\ FailedForGood(models[position])
  <2>1. CASE Try
    <3>1. item' \in Calls /\ item'.model = models[position] /\ item'.attempt = attempt
        BY <1>2, <2>1 DEF Try, Record, Calls
    <3> QED BY <3>1, ItemKinds DEF Items
  <2>2. CASE AnnounceFallback
    <3>1. /\ item' = [type |-> "model_fallback", model |-> models[position + 1]]
          /\ position < Len(models) /\ FailedForGood(models[position])
        BY <2>2, ExhaustedFails DEF AnnounceFallback, Record
    <3>2. item' \in Changes
        BY <1>2, <3>1 DEF Changes
    <3> QED BY <3>1, <3>2, ItemKinds DEF Items
  <2>3. CASE AnnounceEnd
    <3>1. item' = GivenUp /\ position = Len(models) /\ FailedForGood(models[position])
        BY <2>3, ExhaustedFails DEF AnnounceEnd, Record
    <3> QED BY <3>1, ItemKinds DEF Items
  <2> QED BY <2>1, <2>2, <2>3
<1>4. FailedForGood(models[position])' <=> FailedForGood(models[position])
    BY <1>1 DEF FailedForGood, TriesOf
<1>5. spent' = (IF pc = "calling" THEN spent + Timeout ELSE spent) /\ spent' \in Nat
    BY DEF Try, AnnounceFallback, AnnounceEnd, ClientInvariant, TypeOK
<1>6. TypeOK'
    BY <1>1, <1>3, <1>5 DEF ClientInvariant, TypeOK, Running
<1>7. WritesAgree' /\ ItemIsKnown' /\ EndIsReached' /\ ModelsDiffer'
    BY <1>1 DEF ClientInvariant, WritesAgree, ItemIsKnown, EndIsReached, ModelsDiffer
<1>8. ItemIsCurrent'
    BY <1>1, <1>3, <1>4 DEF ItemIsCurrent
<1>9. TriedInOrder'
    BY <1>1 DEF ClientInvariant, TriedInOrder, FailedForGood, TriesOf
<1>10. SpentFits'
  <2>1. attempt * Timeout = (attempt - 1) * Timeout + Timeout
      BY <1>2 DEF Tries
  <2>2. /\ spent \in Nat /\ (position - 1) * ModelTime \in Int /\ attempt * Timeout \in Int
        /\ (attempt - 1) * Timeout \in Int /\ 2 ^ (attempt - 1) \in Nat
      BY <1>2, ModelTimeType, PowerOfAttempt DEF ClientInvariant, TypeOK, Tries
  <2> QED BY <1>1, <1>5, <2>1, <2>2 DEF ClientInvariant, SpentFits
<1> QED BY <1>6, <1>7, <1>8, <1>9, <1>10 DEF ClientInvariant

LEMMA WritesKeep ==
    ASSUME ClientInvariant, SaveItem \/ AddItem
    PROVE  ClientInvariant'
<1>1. UNCHANGED <<models, position, attempt, item, spent>>
    BY DEF SaveItem, AddItem
<1>2. /\ evidence \in Seq(Items) /\ audit \in Seq(Items) /\ item \in Items
      /\ models \in Seq(Models) /\ position \in DOMAIN models
    BY DEF ClientInvariant, TypeOK
<1>3. /\ pc \in Recording /\ pc' \in {"adding", "added"}
      /\ evidence' = evidence \/ evidence' = Append(evidence, item)
    BY DEF SaveItem, AddItem, Recording
<1>4. TypeOK'
  <2>1. Append(evidence, item) \in Seq(Items) /\ Append(audit, item) \in Seq(Items)
      BY <1>2
  <2>2. evidence' \in Seq(Items) /\ audit' \in Seq(Items) /\ pc' \in Running
      BY <1>2, <2>1 DEF SaveItem, AddItem, Running
  <2> QED BY <1>1, <2>2 DEF ClientInvariant, TypeOK
<1>5. WritesAgree'
    BY <1>1 DEF SaveItem, AddItem, ClientInvariant, WritesAgree
<1>6. \A model : FailedForGood(model) => FailedForGood(model)'
    BY <1>2, <1>3, FailuresStay
<1>7. ItemIsCurrent'
    BY <1>1, <1>3, <1>6 DEF ClientInvariant, ItemIsCurrent, Recording
<1>8. ItemIsKnown'
  <2>1. CASE AddItem
    <3>1. evidence' = Append(evidence, item)
        BY <2>1 DEF AddItem
    <3>2. Len(evidence') \in DOMAIN evidence' /\ evidence'[Len(evidence')] = item
        BY <1>2, <3>1
    <3> QED BY <1>1, <3>2 DEF ItemIsKnown
  <2>2. CASE SaveItem
      BY <2>2 DEF SaveItem, ItemIsKnown
  <2> QED BY <2>1, <2>2
<1>9. TriedInOrder'
  <2>1. \A i \in DOMAIN evidence' :
           (i \in DOMAIN evidence /\ evidence'[i] = evidence[i]) \/ evidence'[i] = item
    <3>1. CASE evidence' = evidence
        BY <3>1
    <3>2. CASE evidence' = Append(evidence, item)
      <4>1. /\ DOMAIN evidence = 1..Len(evidence) /\ Len(evidence) \in Nat
            /\ DOMAIN Append(evidence, item) = 1..(Len(evidence) + 1)
          BY <1>2
      <4>2. \A i \in 1..(Len(evidence) + 1) :
               Append(evidence, item)[i] = IF i <= Len(evidence) THEN evidence[i] ELSE item
          BY <1>2, <4>1
      <4> QED BY <3>2, <4>1, <4>2
    <3> QED BY <1>3, <3>1, <3>2
  <2>2. item.type = "model_call" => item.model = models[position]
      BY <1>3 DEF ClientInvariant, ItemIsCurrent
  <2>3. position \in 1..position
      BY <1>2
  <2>4. \A i \in DOMAIN evidence' : evidence'[i].type = "model_call" =>
           \E p \in 1..position : evidence'[i].model = models[p]
      BY <2>1, <2>2, <2>3 DEF ClientInvariant, TriedInOrder
  <2> QED BY <1>1, <1>6, <2>4 DEF ClientInvariant, TriedInOrder
<1>10. EndIsReached' /\ ModelsDiffer'
    BY <1>1, <1>3 DEF EndIsReached, ClientInvariant, ModelsDiffer
<1>11. SpentFits'
    BY <1>1, <1>3 DEF ClientInvariant, SpentFits, Recording
<1> QED BY <1>4, <1>5, <1>7, <1>8, <1>9, <1>10, <1>11 DEF ClientInvariant

LEMMA EndsKeep ==
    ASSUME ClientInvariant, Answer \/ GiveUp \/ Fail
    PROVE  ClientInvariant'
<1>1. /\ pc \in Running /\ pc' \in Ended
      /\ UNCHANGED <<models, position, attempt, item, audit, evidence, spent>>
    BY DEF Answer, GiveUp, Fail, Running, Ended
<1>2. \A model : FailedForGood(model)' <=> FailedForGood(model)
    BY <1>1 DEF FailedForGood, TriesOf
<1>3. TypeOK'
    BY <1>1 DEF ClientInvariant, TypeOK
<1>4. WritesAgree'
    BY DEF Answer, GiveUp, Fail, Running, ClientInvariant, WritesAgree
<1>5. EndIsReached'
  <2>1. CASE GiveUp
      BY <1>1, <1>2, <2>1 DEF GiveUp, ClientInvariant, ItemIsCurrent, Recording, EndIsReached
  <2>2. CASE Answer \/ Fail
      BY <2>2 DEF Answer, Fail, EndIsReached
  <2> QED BY <2>1, <2>2
<1>6. ItemIsCurrent' /\ ItemIsKnown' /\ ModelsDiffer'
    BY <1>1 DEF ItemIsCurrent, ItemIsKnown, ModelsDiffer, Recording, Ended, ClientInvariant
<1>7. TriedInOrder'
    BY <1>1, <1>2 DEF ClientInvariant, TriedInOrder
<1>8. SpentFits'
  <2>1. (attempt - 1) * Timeout <= attempt * Timeout /\ attempt * Timeout \in Nat
    <3>1. attempt \in Nat
        BY DEF ClientInvariant, TypeOK, Tries
    <3>2. attempt * Timeout = (attempt - 1) * Timeout + Timeout /\ attempt * Timeout \in Nat
        BY <3>1
    <3> QED BY <3>1, <3>2
  <2>2. /\ spent \in Nat /\ (position - 1) * ModelTime \in Int
        /\ (attempt - 1) * Timeout \in Int /\ 2 ^ (attempt - 1) \in Nat
      BY ModelTimeType, PowerOfAttempt DEF ClientInvariant, TypeOK, Tries
  <2>3. pc' # "calling"
      BY <1>1 DEF Ended
  <2> QED BY <1>1, <2>1, <2>2, <2>3 DEF ClientInvariant, SpentFits
<1> QED BY <1>3, <1>4, <1>5, <1>6, <1>7, <1>8 DEF ClientInvariant

LEMMA RetryKeeps ==
    ASSUME ClientInvariant, Retry
    PROVE  ClientInvariant'
<1>1. /\ pc = "added" /\ pc' = "calling" /\ attempt' = attempt + 1
      /\ item.type = "model_call" /\ WorthRetry(item)
      /\ spent' = spent + 2 ^ (attempt - 1)
      /\ UNCHANGED <<models, position, item, audit, evidence>>
    BY DEF Retry, Delay
<1>2. attempt \in 1..Tries /\ attempt < Tries
    BY <1>1 DEF ClientInvariant, TypeOK, ItemIsCurrent, Recording, WorthRetry
<1>3. \A model : FailedForGood(model)' <=> FailedForGood(model)
    BY <1>1 DEF FailedForGood, TriesOf
<1>4. TypeOK'
    BY <1>1, <1>2, PowerOfAttempt DEF ClientInvariant, TypeOK, Running, Tries
<1>5. WritesAgree' /\ ItemIsCurrent' /\ ItemIsKnown' /\ EndIsReached' /\ ModelsDiffer'
    BY <1>1 DEF ClientInvariant, WritesAgree, ItemIsCurrent, Recording, ItemIsKnown,
        EndIsReached, ModelsDiffer
<1>6. TriedInOrder'
    BY <1>1, <1>3 DEF ClientInvariant, TriedInOrder
<1>7. SpentFits'
  <2>1. /\ spent \in Nat /\ (position - 1) * ModelTime \in Int /\ attempt * Timeout \in Int
        /\ 2 ^ (attempt - 1) \in Nat /\ attempt \in Nat
        /\ 2 ^ attempt = 2 ^ (attempt - 1) + 2 ^ (attempt - 1)
      BY ModelTimeType, PowerOfAttempt DEF ClientInvariant, TypeOK, Tries
  <2>2. attempt' - 1 = attempt
      BY <1>1, <2>1
  <2>3. spent <= (position - 1) * ModelTime + attempt * Timeout + 2 ^ (attempt - 1) - 1
      BY <1>1 DEF ClientInvariant, SpentFits
  <2>4. spent' <= (position - 1) * ModelTime + attempt * Timeout + 2 ^ attempt - 1
      BY <1>1, <2>1, <2>3
  <2> QED BY <1>1, <2>2, <2>4 DEF SpentFits, ModelTime
<1> QED BY <1>4, <1>5, <1>6, <1>7 DEF ClientInvariant

LEMMA FallBackKeeps ==
    ASSUME ClientInvariant, FallBack
    PROVE  ClientInvariant'
<1>1. /\ pc = "added" /\ pc' = "calling" /\ position' = position + 1 /\ attempt' = 1
      /\ item.type = "model_fallback"
      /\ UNCHANGED <<models, item, audit, evidence, spent>>
    BY DEF FallBack
<1>2. position < Len(models) /\ FailedForGood(models[position])
    BY <1>1 DEF ClientInvariant, ItemIsCurrent, Recording
<1>3. \A model : FailedForGood(model)' <=> FailedForGood(model)
    BY <1>1 DEF FailedForGood, TriesOf
<1>4. position \in Nat /\ models \in Seq(Models)
    BY DEF ClientInvariant, TypeOK
<1>5. TypeOK'
    BY <1>1, <1>2 DEF ClientInvariant, TypeOK, Running, Tries
<1>6. WritesAgree' /\ ItemIsCurrent' /\ ItemIsKnown' /\ EndIsReached' /\ ModelsDiffer'
    BY <1>1 DEF ClientInvariant, WritesAgree, ItemIsCurrent, Recording, ItemIsKnown,
        EndIsReached, ModelsDiffer
<1>7. TriedInOrder'
  <2>1. \A q \in 1..(position' - 1) : q \in 1..(position - 1) \/ q = position
      BY <1>1, <1>4
  <2>2. \A p \in 1..position : p \in 1..position'
      BY <1>1, <1>4
  <2> QED BY <1>1, <1>2, <1>3, <2>1, <2>2 DEF ClientInvariant, TriedInOrder
<1>8. SpentFits'
  <2>1. /\ spent \in Nat /\ ModelTime \in Nat
        /\ attempt * Timeout + 2 ^ (attempt - 1) - 1 <= ModelTime
        /\ attempt * Timeout \in Int /\ 2 ^ (attempt - 1) \in Nat
      BY ModelTimeType, PowerOfAttempt DEF ClientInvariant, TypeOK, Tries
  <2>2. position * ModelTime = (position - 1) * ModelTime + ModelTime
        /\ (position - 1) * ModelTime \in Int
      BY <1>4, <2>1
  <2>3. spent <= (position - 1) * ModelTime + attempt * Timeout + 2 ^ (attempt - 1) - 1
      BY <1>1 DEF ClientInvariant, SpentFits
  <2>4. spent <= position * ModelTime
      BY <2>1, <2>2, <2>3
  <2>5. position' - 1 = position /\ attempt' - 1 = 0 /\ 0 * Timeout = 0
      BY <1>1, <1>4
  <2>6. position * ModelTime \in Int
      BY <1>4, <2>1
  <2> QED BY <1>1, <2>4, <2>5, <2>6, PowerOfZero DEF SpentFits, ModelTime
<1> QED BY <1>5, <1>6, <1>7, <1>8 DEF ClientInvariant

LEMMA NextKeeps == ClientInvariant /\ [Next]_vars => ClientInvariant'
<1> SUFFICES ASSUME ClientInvariant, [Next]_vars PROVE ClientInvariant'
    OBVIOUS
<1>1. CASE Next
    BY <1>1, RecordKeeps, WritesKeep, EndsKeep, RetryKeeps, FallBackKeeps DEF Next, Step
<1>2. CASE UNCHANGED vars
    BY <1>2 DEF vars, ClientInvariant, TypeOK, ModelsDiffer, WritesAgree, ItemIsCurrent,
        ItemIsKnown, TriedInOrder, EndIsReached, SpentFits, FailedForGood, TriesOf, ModelTime
<1> QED BY <1>1, <1>2

-----------------------------------------------------------------------------
(* The results. *)

LEMMA InvariantPassesNoModelOver == ClientInvariant => NoModelIsPassedOver
<1> SUFFICES ASSUME ClientInvariant PROVE NoModelIsPassedOver
    OBVIOUS
<1>1. models \in Seq(Models) /\ position \in DOMAIN models
    BY DEF ClientInvariant, TypeOK
<1>2. ASSUME NEW p \in DOMAIN models, TriesOf(models[p]) # {}, NEW q \in 1..(p - 1)
      PROVE  FailedForGood(models[q])
  <2>1. PICK i \in DOMAIN evidence :
           evidence[i].type = "model_call" /\ evidence[i].model = models[p]
      BY <1>2 DEF TriesOf
  <2>2. PICK r \in 1..position : models[p] = models[r]
      BY <2>1 DEF ClientInvariant, TriedInOrder
  <2>3. r \in DOMAIN models
      BY <1>1, <2>2
  <2>4. p = r
      BY <2>2, <2>3 DEF ClientInvariant, ModelsDiffer
  <2>5. q \in 1..(position - 1)
      BY <1>1, <2>4
  <2> QED BY <2>5 DEF ClientInvariant, TriedInOrder
<1>3. ASSUME pc = "unavailable", NEW p \in DOMAIN models PROVE FailedForGood(models[p])
  <2>1. p = position \/ p \in 1..(position - 1)
      BY <1>1, <1>3 DEF ClientInvariant, EndIsReached
  <2> QED BY <1>3, <2>1 DEF ClientInvariant, EndIsReached, TriedInOrder
<1> QED BY <1>2, <1>3 DEF NoModelIsPassedOver

LEMMA InvariantAudits == ClientInvariant => EvidenceIsAudited
<1> SUFFICES ASSUME ClientInvariant PROVE EvidenceIsAudited
    OBVIOUS
<1>1. /\ evidence \in Seq(Items) /\ item \in Items
      /\ audit = evidence \/ audit = Append(evidence, item)
    BY DEF ClientInvariant, TypeOK, WritesAgree, Running, Ended
<1>2. /\ Len(evidence) <= Len(audit) /\ Len(audit) <= Len(evidence) + 1
      /\ \A i \in 1..Len(evidence) : audit[i] = evidence[i]
    BY <1>1
<1>3. SubSeq(evidence, 1, Len(evidence)) = SubSeq(audit, 1, Len(evidence))
    BY <1>1, <1>2
<1> QED BY <1>2, <1>3 DEF EvidenceIsAudited, IsPrefix

LEMMA InvariantBoundsWait == ClientInvariant => WaitIsBounded
<1> SUFFICES ASSUME ClientInvariant PROVE WaitIsBounded
    OBVIOUS
<1>1. /\ spent \in Nat /\ ModelTime \in Nat /\ attempt \in Nat /\ position \in Nat
      /\ Len(models) \in Nat /\ position <= Len(models)
      /\ attempt * Timeout + 2 ^ (attempt - 1) - 1 <= ModelTime
      /\ attempt * Timeout \in Int /\ 2 ^ (attempt - 1) \in Nat
    BY ModelTimeType, PowerOfAttempt DEF ClientInvariant, TypeOK, Tries
<1>2. /\ position * ModelTime = (position - 1) * ModelTime + ModelTime
      /\ (position - 1) * ModelTime \in Int
    BY <1>1
<1>3. (attempt - 1) * Timeout <= attempt * Timeout /\ (attempt - 1) * Timeout \in Int
  <2>1. attempt * Timeout = (attempt - 1) * Timeout + Timeout /\ (attempt - 1) * Timeout \in Int
      BY <1>1
  <2> QED BY <1>1, <2>1
<1>4. spent <= position * ModelTime
    BY <1>1, <1>2, <1>3 DEF ClientInvariant, SpentFits
<1>5. position * ModelTime <= Len(models) * ModelTime
  <2>1. Len(models) * ModelTime = position * ModelTime + (Len(models) - position) * ModelTime
      BY <1>1
  <2>2. Len(models) - position \in Nat
      BY <1>1
  <2>3. (Len(models) - position) * ModelTime \in Nat /\ position * ModelTime \in Nat
      BY <1>1, <2>2
  <2> QED BY <2>1, <2>3
<1>6. position * ModelTime \in Int /\ Len(models) * ModelTime \in Int
    BY <1>1
<1> QED BY <1>1, <1>4, <1>5, <1>6 DEF WaitIsBounded, ModelTime

(* In every state of a create: what it records is about the model that it  *)
(* tries, the models before it have failed, and the time adds up.          *)
THEOREM ClientInvariantHolds == Spec => []ClientInvariant
    BY InvInit, NextKeeps, PTL DEF Spec

(* The fallback is tried, and LLMUnavailableError raised, only after an    *)
(* error that no other try cures, or the last try, of every model before.  *)
THEOREM NoModelIsPassedOverHolds == Spec => []NoModelIsPassedOver
    BY ClientInvariantHolds, InvariantPassesNoModelOver, PTL

(* The evidence of a request never has a model call that the audit log     *)
(* lacks, and lacks at most the one that is being recorded.                *)
THEOREM EvidenceIsAuditedHolds == Spec => []EvidenceIsAudited
    BY ClientInvariantHolds, InvariantAudits, PTL

(* The timeouts and the delays that double bound the time of one create.   *)
THEOREM WaitIsBoundedHolds == Spec => []WaitIsBounded
    BY ClientInvariantHolds, InvariantBoundsWait, PTL

=============================================================================
