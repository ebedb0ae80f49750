--------------------------- MODULE WriteGate_proofs ---------------------------
(***************************************************************************)
(* The write gate keeps its promises for every set of calls, deciders,     *)
(* employees, payloads and balances.                                       *)
(*                                                                         *)
(* GateInvariant is inductive.  Each of its parts has a lemma that says    *)
(* how a step preserves it, with one step of the proof per action that can *)
(* disturb it.                                                             *)
(***************************************************************************)
EXTENDS WriteGate, FiniteSetTheorems, SequenceTheorems, TLAPS

-----------------------------------------------------------------------------
(* How the sum of leave days changes when an action joins or leaves the    *)
(* actions that are summed.                                                *)

(* The tokens of finitely many actions are finitely many, so their number  *)
(* is a natural number: what `coalesce(sum(...), 0)` returns.              *)
LEMMA TotalDaysType ==
    ASSUME NEW wants, NEW S, IsFiniteSet(S), NEW x
    PROVE  /\ IsFiniteSet(DayTokens(wants, S, x))
           /\ TotalDays(wants, S, x) \in Nat
<1>1. IsFiniteSet(1..MaxDays)
    BY FS_Interval, PayloadAssumption
<1>2. IsFiniteSet(S \X (1..MaxDays))
    BY <1>1, FS_Product
<1>3. DayTokens(wants, S, x) \in SUBSET (S \X (1..MaxDays))
    BY DEF DayTokens
<1>4. IsFiniteSet(DayTokens(wants, S, x))
    BY <1>2, <1>3, FS_Subset
<1> QED
    BY <1>4, FS_CardinalityType DEF TotalDays

(* No actions ask for no days.                                             *)
LEMMA TotalDaysNone ==
    ASSUME NEW wants, NEW x
    PROVE  TotalDays(wants, {}, x) = 0
<1>1. DayTokens(wants, {}, x) = {}
    BY DEF DayTokens
<1> QED
    BY <1>1, FS_EmptySet DEF TotalDays

(* One action owns as many tokens as it wants for days.                     *)
LEMMA TotalDaysOne ==
    ASSUME NEW wants, NEW a, wants[a] \in Requests, NEW x
    PROVE  TotalDays(wants, {a}, x) = DaysAsked(wants[a], x)
<1>1. CASE ~DrawsOn(wants[a], x)
    <2>1. DayTokens(wants, {a}, x) = {}
        BY <1>1 DEF DayTokens
    <2> QED
        BY <1>1, <2>1, FS_EmptySet DEF TotalDays, DaysAsked
<1>2. CASE DrawsOn(wants[a], x)
    <2> DEFINE d == Days[wants[a].payload]
    <2>1. d \in 0..MaxDays
        BY <1>2, PayloadAssumption DEF DrawsOn, IsLeave
    <2>2. DayTokens(wants, {a}, x) = {a} \X (1..d)
        BY <1>2, <2>1, PayloadAssumption DEF DayTokens
    <2>3. d \in Nat
        BY <2>1, PayloadAssumption
    <2>4. IsFiniteSet(1..d) /\ Cardinality(1..d) = d
        <3> HIDE DEF d
        <3>1. IsFiniteSet(1..d) /\ Cardinality(1..d) = IF 1 > d THEN 0 ELSE d - 1 + 1
            BY <2>3, FS_Interval
        <3> QED
            BY <3>1, <2>3
    <2>5. IsFiniteSet({a}) /\ Cardinality({a}) = 1
        BY FS_Singleton
    <2>6. Cardinality({a} \X (1..d)) = 1 * d
        BY <2>4, <2>5, FS_Product
    <2>7. TotalDays(wants, {a}, x) = 1 * d
        BY <2>2, <2>6 DEF TotalDays
    <2>8. DaysAsked(wants[a], x) = d
        BY <1>2 DEF DaysAsked
    <2> HIDE DEF d
    <2> QED
        BY <2>7, <2>8, <2>3
<1> QED
    BY <1>1, <1>2

(* An action that joins adds its own days and nothing else.                *)
LEMMA TotalDaysAdd ==
    ASSUME NEW wants, NEW S, IsFiniteSet(S), NEW a, a \notin S,
           wants[a] \in Requests, NEW x
    PROVE  TotalDays(wants, S \cup {a}, x) = TotalDays(wants, S, x) + DaysAsked(wants[a], x)
<1> DEFINE T == DayTokens(wants, S, x)
           U == DayTokens(wants, {a}, x)
<1>1. DayTokens(wants, S \cup {a}, x) = T \cup U
    BY DEF DayTokens
<1>2. T \cap U = {}
    BY DEF DayTokens
<1>3. IsFiniteSet(T) /\ Cardinality(T) \in Nat
    BY TotalDaysType DEF TotalDays
<1>4. IsFiniteSet(U) /\ Cardinality(U) \in Nat
    <2>1. IsFiniteSet({a})
        BY FS_Singleton
    <2> QED
        BY <2>1, TotalDaysType DEF TotalDays
<1>5. Cardinality(T \cup U) = Cardinality(T) + Cardinality(U) - Cardinality(T \cap U)
    BY <1>3, <1>4, FS_Union
<1>6. Cardinality(T \cap U) = 0
    BY <1>2, FS_EmptySet
<1>7. Cardinality(U) = DaysAsked(wants[a], x)
    BY TotalDaysOne DEF TotalDays
<1>8. Cardinality(T \cup U) = Cardinality(T) + Cardinality(U)
    BY <1>3, <1>4, <1>5, <1>6
<1> QED
    BY <1>1, <1>7, <1>8 DEF TotalDays

(* An action that leaves takes its own days with it.                       *)
LEMMA TotalDaysRemove ==
    ASSUME NEW wants, NEW S, IsFiniteSet(S), NEW a \in S,
           wants[a] \in Requests, NEW x
    PROVE  TotalDays(wants, S, x) = TotalDays(wants, S \ {a}, x) + DaysAsked(wants[a], x)
<1>1. IsFiniteSet(S \ {a})
    BY FS_RemoveElement
<1>2. (S \ {a}) \cup {a} = S
    OBVIOUS
<1>3. a \notin S \ {a}
    OBVIOUS
<1>4. TotalDays(wants, (S \ {a}) \cup {a}, x) = TotalDays(wants, S \ {a}, x) + DaysAsked(wants[a], x)
    BY <1>1, <1>3, TotalDaysAdd
<1> QED
    BY <1>2, <1>4

(* The days a request wants for are a number; an accepted leave wants for    *)
(* at least one.                                                           *)
LEMMA DaysAskedType ==
    ASSUME NEW r \in Requests, NEW x
    PROVE  /\ DaysAsked(r, x) \in Nat
           /\ DrawsOn(r, x) => DaysAsked(r, x) = Days[r.payload]
           /\ (DrawsOn(r, x) /\ r.payload \notin Unacceptable) => DaysAsked(r, x) > 0
BY PayloadAssumption DEF DaysAsked, DrawsOn, IsLeave, Requests

-----------------------------------------------------------------------------
(* The steps. *)

(* The steps of a call or a decision that write no row.                    *)
QuietCall(c) ==
    \/ RefuseArguments(c) \/ LockRequester(c) \/ FindPending(c) \/ ReadBalance(c)
    \/ CommitAnswer(c) \/ AbortCall(c)

QuietDecide(d) ==
    \/ ValidateRole(d) \/ ValidateApprover(d) \/ LockAction(d) \/ LockBalance(d)
    \/ AbortDecision(d)

(* Every step is one of these, or changes nothing.                         *)
LEMMA StepCases ==
    ASSUME [Next]_vars
    PROVE  \/ \E c \in Calls : QuietCall(c)
           \/ \E c \in Calls : CommitProposal(c)
           \/ \E d \in Deciders : QuietDecide(d)
           \/ \E d \in Deciders : CommitRejection(d)
           \/ \E d \in Deciders : CommitExecution(d)
           \/ \E x \in Accounts : CorrectBalance(x)
           \/ \E x \in Accounts : RemoveBalance(x)
           \/ UNCHANGED vars
BY Zenon DEF Next, CallStep, DecideStep, QuietCall, QuietDecide

(* What the quiet steps leave alone.                                       *)
LEMMA QuietCallFrame ==
    ASSUME NEW c \in Calls, QuietCall(c)
    PROVE  UNCHANGED <<asks, decision, decidePc, actionVars, rowVars>>
BY DEF QuietCall, RefuseArguments, LockRequester, FindPending, ReadBalance, CommitAnswer,
       AbortCall

LEMMA QuietDecideFrame ==
    ASSUME NEW d \in Deciders, QuietDecide(d)
    PROVE  UNCHANGED <<asks, callVars, decision, actionVars, rowVars>>
BY DEF QuietDecide, ValidateRole, ValidateApprover, LockAction, LockBalance, AbortDecision

-----------------------------------------------------------------------------
(* Every variable keeps its type.                                          *)
LEMMA TypePreserved ==
    ASSUME TypeOK, [Next]_vars
    PROVE  TypeOK'
<1> USE DEF TypeOK, callVars, actionVars, rowVars
<1>1. ASSUME NEW c \in Calls, QuietCall(c)
      PROVE  TypeOK'
    <2>1. callPc' \in [Calls -> CallRunning \cup CallEnded]
        BY <1>1 DEF QuietCall, RefuseArguments, LockRequester, FindPending, ReadBalance,
            CommitAnswer, AbortCall, CallGoesTo, CallRunning, CallEnded
    <2>2. existing' \in [Calls -> Calls \cup {NoAction}]
        BY <1>1 DEF QuietCall, RefuseArguments, LockRequester, FindPending, ReadBalance,
            CommitAnswer, AbortCall, Pending
    <2> QED
        BY <1>1, <2>1, <2>2, QuietCallFrame
<1>2. ASSUME NEW c \in Calls, CommitProposal(c)
      PROVE  TypeOK'
    <2>1. <<"action_proposed", NoOne>> \in Events
        BY DEF Events, EventNames
    <2>2. trail' \in [Calls -> Seq(Events)]
        BY <1>2, <2>1 DEF CommitProposal
    <2> QED
        BY <1>2, <2>2 DEF CommitProposal, CallGoesTo, CallRunning, CallEnded, Statuses
<1>3. ASSUME NEW d \in Deciders, QuietDecide(d)
      PROVE  TypeOK'
    <2>1. decidePc' \in [Deciders -> DecideRunning \cup DecideEnded]
        BY <1>3 DEF QuietDecide, ValidateRole, ValidateApprover, LockAction, LockBalance,
            AbortDecision, DecideGoesTo, DecideRunning, DecideEnded
    <2> QED
        BY <1>3, <2>1, QuietDecideFrame
<1>4. ASSUME NEW d \in Deciders, CommitRejection(d)
      PROVE  TypeOK'
    <2> DEFINE a == decision[d].action
               e == decision[d].approver
    <2>1. a \in Calls /\ e \in Employees
        BY DEF Decisions
    <2>2. trail' \in [Calls -> Seq(Events)]
        <3>1. <<"action_rejected", e>> \in Events
            BY <2>1 DEF Events, EventNames
        <3>2. Append(trail[a], <<"action_rejected", e>>) \in Seq(Events)
            BY <2>1, <3>1
        <3> QED
            BY <1>4, <2>1, <3>2 DEF CommitRejection
    <2> QED
        BY <1>4, <2>1, <2>2
        DEF CommitRejection, DecideGoesTo, DecideRunning, DecideEnded, Statuses
<1>5. ASSUME NEW d \in Deciders, CommitExecution(d)
      PROVE  TypeOK'
    <2> DEFINE a == decision[d].action
               e == decision[d].approver
    <2>1. a \in Calls /\ e \in Employees
        BY DEF Decisions
    <2>2. trail' \in [Calls -> Seq(Events)]
        <3>1. <<"action_approved", e>> \in Events /\ <<"action_executed", e>> \in Events
            BY <2>1 DEF Events, EventNames
        <3>2. Append(Append(trail[a], <<"action_approved", e>>), <<"action_executed", e>>)
                \in Seq(Events)
            BY <2>1, <3>1
        <3> QED
            BY <1>5, <2>1, <3>2 DEF CommitExecution
    <2>3. approvedDays' \in [Accounts -> Nat]
        <3>1. \A x \in Accounts : DaysBooked(a, x) \in Nat
            BY <2>1, DaysAskedType DEF DaysBooked
        <3> QED
            BY <1>5, <3>1 DEF CommitExecution
    <2> QED
        BY <1>5, <2>1, <2>2, <2>3
        DEF CommitExecution, DecideGoesTo, DecideRunning, DecideEnded, Statuses
<1>6. ASSUME NEW x \in Accounts, CorrectBalance(x)
      PROVE  TypeOK'
    BY <1>6, WriteGateAssumption DEF CorrectBalance
<1>7. ASSUME NEW x \in Accounts, RemoveBalance(x)
      PROVE  TypeOK'
    BY <1>7 DEF RemoveBalance
<1>8. CASE UNCHANGED vars
    BY <1>8 DEF vars
<1> QED
    BY <1>1, <1>2, <1>3, <1>4, <1>5, <1>6, <1>7, <1>8, StepCases

-----------------------------------------------------------------------------
(* The waiting and the executed actions, and the days they ask for.        *)

LEMMA SumsAreNumbers ==
    ASSUME TypeOK, NEW x
    PROVE  /\ IsFiniteSet(Pending) /\ IsFiniteSet(Executed)
           /\ Awaiting(x) \in Nat
           /\ TotalDays(asks, Executed, x) \in Nat
<1>1. Pending \in SUBSET Calls /\ Executed \in SUBSET Calls
    BY DEF Pending, Executed
<1>2. IsFiniteSet(Pending) /\ IsFiniteSet(Executed)
    BY <1>1, FS_Subset, WriteGateAssumption
<1> QED
    BY <1>2, TotalDaysType DEF Awaiting

(* Nothing waits or is booked differently after a step that writes no      *)
(* action row.                                                             *)
LEMMA SumsKept ==
    ASSUME UNCHANGED <<asks, status>>
    PROVE  /\ Pending' = Pending
           /\ Executed' = Executed
           /\ \A x : Awaiting(x)' = Awaiting(x)
<1>1. Pending' = Pending /\ Executed' = Executed
    BY DEF Pending, Executed
<1> QED
    BY <1>1 DEF Awaiting

(* A committed proposal waits from then on.                                *)
LEMMA ProposalSums ==
    ASSUME TypeOK, NEW c \in Calls, status[c] = "none", CommitProposal(c)
    PROVE  /\ c \notin Pending
           /\ Pending' = Pending \cup {c}
           /\ Executed' = Executed
           /\ \A x : Awaiting(x)' = Awaiting(x) + DaysAsked(asks[c], x)
<1>1. c \notin Pending /\ Pending' = Pending \cup {c} /\ Executed' = Executed
    BY DEF CommitProposal, TypeOK, Pending, Executed
<1>2. ASSUME NEW x
      PROVE  Awaiting(x)' = Awaiting(x) + DaysAsked(asks[c], x)
    <2>1. asks' = asks /\ asks[c] \in Requests
        BY DEF CommitProposal, TypeOK
    <2>2. IsFiniteSet(Pending)
        BY SumsAreNumbers
    <2>3. TotalDays(asks, Pending \cup {c}, x) = TotalDays(asks, Pending, x) + DaysAsked(asks[c], x)
        BY <1>1, <2>1, <2>2, TotalDaysAdd
    <2> QED
        BY <1>1, <2>1, <2>3 DEF Awaiting
<1> QED
    BY <1>1, <1>2

(* A decided action waits no more; an executed one is booked.              *)
LEMMA DecisionSums ==
    ASSUME TypeOK, NEW d \in Deciders, NEW a \in Calls, a = decision[d].action,
           status[a] = "pending_approval",
           CommitRejection(d) \/ CommitExecution(d)
    PROVE  /\ a \in Pending
           /\ Pending' = Pending \ {a}
           /\ CommitRejection(d) => Executed' = Executed
           /\ CommitExecution(d) => a \notin Executed /\ Executed' = Executed \cup {a}
           /\ \A x : Awaiting(x) = Awaiting(x)' + DaysAsked(asks[a], x)
           /\ \A x : Awaiting(x)' \in Nat
           /\ \A x : CommitExecution(d) =>
                 TotalDays(asks', Executed', x) =
                    TotalDays(asks, Executed, x) + DaysAsked(asks[a], x)
<1>1. /\ asks' = asks
      /\ status' = [status EXCEPT ![a] = IF CommitExecution(d) THEN "executed" ELSE "rejected"]
      /\ asks[a] \in Requests
    BY DEF CommitRejection, CommitExecution, TypeOK
<1>2. a \in Pending /\ Pending' = Pending \ {a} /\ a \notin Executed
    BY <1>1 DEF TypeOK, Pending, Executed
<1>3. CommitRejection(d) => Executed' = Executed
    BY DEF TypeOK, Executed, CommitRejection
<1>4. CommitExecution(d) => Executed' = Executed \cup {a}
    BY <1>1 DEF TypeOK, Executed
<1>5. ASSUME NEW x
      PROVE  /\ Awaiting(x) = Awaiting(x)' + DaysAsked(asks[a], x)
             /\ Awaiting(x)' \in Nat
    <2>1. IsFiniteSet(Pending)
        BY SumsAreNumbers
    <2>2. TotalDays(asks, Pending, x) = TotalDays(asks, Pending \ {a}, x) + DaysAsked(asks[a], x)
        BY <1>1, <1>2, <2>1, TotalDaysRemove
    <2>3. IsFiniteSet(Pending \ {a})
        BY <2>1, FS_RemoveElement
    <2>4. TotalDays(asks, Pending \ {a}, x) \in Nat
        BY <2>3, TotalDaysType
    <2> QED
        BY <1>1, <1>2, <2>2, <2>4 DEF Awaiting
<1>6. ASSUME NEW x, CommitExecution(d)
      PROVE  TotalDays(asks', Executed', x) =
                TotalDays(asks, Executed, x) + DaysAsked(asks[a], x)
    <2>1. IsFiniteSet(Executed)
        BY SumsAreNumbers
    <2>2. TotalDays(asks, Executed \cup {a}, x) =
             TotalDays(asks, Executed, x) + DaysAsked(asks[a], x)
        BY <1>1, <1>2, <2>1, TotalDaysAdd
    <2> QED
        BY <1>1, <1>4, <1>6, <2>2
<1> QED
    BY <1>2, <1>3, <1>4, <1>5, <1>6

-----------------------------------------------------------------------------
(* Locks.                                                                  *)

(* Who holds the requester's lock after a step of call c.                  *)
LEMMA CallLock ==
    ASSUME TypeOK, NEW c \in Calls, QuietCall(c) \/ CommitProposal(c)
    PROVE  /\ \A o \in Calls \ {c} : callPc'[o] = callPc[o] /\ existing'[o] = existing[o]
           /\ HoldsRequester(c)' => HoldsRequester(c) \/ LockRequester(c)
BY DEF TypeOK, QuietCall, RefuseArguments, LockRequester, FindPending, ReadBalance,
       CommitAnswer, AbortCall, CommitProposal, CallGoesTo, HoldsRequester, CallRunning

(* Which rows decider d holds after a step of its own.                     *)
LEMMA DecideLock ==
    ASSUME TypeOK, DecidersKnow, NEW d \in Deciders,
           QuietDecide(d) \/ CommitRejection(d) \/ CommitExecution(d)
    PROVE  /\ \A o \in Deciders \ {d} : decidePc'[o] = decidePc[o]
           /\ HoldsAction(d)' => HoldsAction(d) \/ LockAction(d)
           /\ \A x \in Accounts :
                 HoldsBalance(d, x)' => HoldsBalance(d, x) \/ LockBalance(d)
<1> DEFINE a == decision[d].action
<1>1. a \in Calls /\ decision' = decision /\ asks' = asks
    BY DEF TypeOK, Decisions, QuietDecide, ValidateRole, ValidateApprover, LockAction,
        LockBalance, AbortDecision, CommitRejection, CommitExecution
<1>2. CASE ValidateRole(d)
    BY <1>1, <1>2 DEF TypeOK, ValidateRole, DecideGoesTo, HoldsAction, HoldsBalance
<1>3. CASE ValidateApprover(d)
    BY <1>1, <1>3 DEF TypeOK, ValidateApprover, DecideGoesTo, HoldsAction, HoldsBalance
<1>4. CASE LockAction(d)
    <2>1. ASSUME NEW x \in Accounts, HoldsBalance(d, x)'
          PROVE  FALSE
        BY <1>1, <1>4, <2>1
        DEF TypeOK, LockAction, DecideGoesTo, HoldsBalance, DrawsOn, Statuses
    <2> QED
        BY <1>1, <1>4, <2>1 DEF TypeOK, LockAction, DecideGoesTo
<1>5. CASE LockBalance(d)
    BY <1>1, <1>5 DEF TypeOK, LockBalance, DecideGoesTo, HoldsAction
<1>6. CASE AbortDecision(d)
    BY <1>1, <1>6 DEF TypeOK, AbortDecision, DecideGoesTo, HoldsAction, HoldsBalance
<1>7. CASE CommitRejection(d) \/ CommitExecution(d)
    BY <1>1, <1>7
    DEF TypeOK, CommitRejection, CommitExecution, DecideGoesTo, HoldsAction, HoldsBalance
<1> QED
    BY <1>2, <1>3, <1>4, <1>5, <1>6, <1>7 DEF QuietDecide

LEMMA LocksPreserved ==
    ASSUME TypeOK, LocksExclude, DecidersKnow, [Next]_vars
    PROVE  LocksExclude'
<1>1. ASSUME NEW c \in Calls, QuietCall(c) \/ CommitProposal(c)
      PROVE  LocksExclude'
    <2>1. UNCHANGED <<asks, decision, decidePc>>
        BY <1>1, QuietCallFrame DEF CommitProposal
    <2>2. ASSUME NEW o \in Calls, NEW p \in Calls,
                 HoldsRequester(o)', HoldsRequester(p)', Proposer(o)' = Proposer(p)'
          PROVE  o = p
        <3>1. Proposer(o) = Proposer(p)
            BY <2>1, <2>2 DEF Proposer
        <3>2. CASE o = c /\ p = c
            BY <3>2
        <3>3. CASE o # c /\ p # c
            BY <1>1, <2>2, <3>1, <3>3, CallLock DEF LocksExclude, HoldsRequester
        <3>4. CASE o = c /\ p # c
            BY <1>1, <2>2, <3>1, <3>4, CallLock DEF LocksExclude, HoldsRequester, LockRequester
        <3>5. CASE o # c /\ p = c
            BY <1>1, <2>2, <3>1, <3>5, CallLock DEF LocksExclude, HoldsRequester, LockRequester
        <3> QED
            BY <3>2, <3>3, <3>4, <3>5
    <2> QED
        BY <2>1, <2>2 DEF LocksExclude, HoldsAction, HoldsBalance
<1>2. ASSUME NEW d \in Deciders, QuietDecide(d) \/ CommitRejection(d) \/ CommitExecution(d)
      PROVE  LocksExclude'
    <2>1. UNCHANGED <<asks, decision, callPc>>
        BY <1>2, QuietDecideFrame DEF CommitRejection, CommitExecution, callVars
    <2>2. ASSUME NEW o \in Deciders, NEW p \in Deciders, HoldsAction(o)', HoldsAction(p)',
                 decision[o].action = decision[p].action
          PROVE  o = p
        <3>1. CASE o # d /\ p # d
            BY <1>2, <2>2, <3>1, DecideLock DEF LocksExclude, HoldsAction
        <3>2. CASE o = d /\ p # d
            BY <1>2, <2>2, <3>2, DecideLock DEF LocksExclude, HoldsAction, LockAction
        <3>3. CASE o # d /\ p = d
            BY <1>2, <2>2, <3>3, DecideLock DEF LocksExclude, HoldsAction, LockAction
        <3> QED
            BY <3>1, <3>2, <3>3
    <2>3. ASSUME NEW x \in Accounts, NEW o \in Deciders, NEW p \in Deciders,
                 HoldsBalance(o, x)', HoldsBalance(p, x)'
          PROVE  o = p
        <3>1. \A q \in Deciders \ {d} : HoldsBalance(q, x)' => HoldsBalance(q, x)
            BY <1>2, <2>1, DecideLock DEF HoldsBalance
        <3>2. HoldsBalance(d, x)' /\ ~HoldsBalance(d, x) =>
                 LockBalance(d) /\ x = Account(asks[decision[d].action])
            BY <1>2, <2>1, DecideLock DEF HoldsBalance, DrawsOn
        <3>3. HoldsBalance(d, x)' /\ ~HoldsBalance(d, x) =>
                 \A q \in Deciders : ~HoldsBalance(q, x)
            BY <3>2 DEF LockBalance
        <3> QED
            BY <2>3, <3>1, <3>3 DEF LocksExclude
    <2> QED
        BY <2>1, <2>2, <2>3 DEF LocksExclude, HoldsRequester, Proposer
<1>3. ASSUME NEW x \in Accounts, CorrectBalance(x) \/ RemoveBalance(x)
      PROVE  LocksExclude'
    BY <1>3 DEF CorrectBalance, RemoveBalance, LocksExclude, callVars, HoldsRequester, Proposer,
        HoldsAction, HoldsBalance
<1>4. CASE UNCHANGED vars
    BY <1>4 DEF vars, LocksExclude, callVars, HoldsRequester, Proposer, HoldsAction, HoldsBalance
<1> QED
    BY <1>1, <1>2, <1>3, <1>4, StepCases

-----------------------------------------------------------------------------
(* What calls know.                                                        *)

(* Requests never change, and no row ever disappears.                      *)
LEMMA RowsStay ==
    ASSUME TypeOK, [Next]_vars
    PROVE  /\ asks' = asks /\ decision' = decision
           /\ \A a \in Calls : status[a] # "none" => status'[a] # "none"
<1>1. ASSUME NEW c \in Calls, QuietCall(c)
      PROVE  asks' = asks /\ decision' = decision /\ status' = status
    BY <1>1, QuietCallFrame DEF actionVars
<1>2. ASSUME NEW d \in Deciders, QuietDecide(d)
      PROVE  asks' = asks /\ decision' = decision /\ status' = status
    BY <1>2, QuietDecideFrame DEF actionVars
<1> DEFINE Stays == /\ asks' = asks /\ decision' = decision
                    /\ \A a \in Calls : status[a] # "none" => status'[a] # "none"
<1>3. ASSUME NEW c \in Calls, CommitProposal(c)
      PROVE  Stays
    BY <1>3 DEF TypeOK, CommitProposal
<1>4. ASSUME NEW d \in Deciders, CommitRejection(d) \/ CommitExecution(d)
      PROVE  Stays
    BY <1>4 DEF TypeOK, CommitRejection, CommitExecution
<1>5. ASSUME NEW x \in Accounts, CorrectBalance(x) \/ RemoveBalance(x)
      PROVE  Stays
    BY <1>5 DEF CorrectBalance, RemoveBalance, actionVars
<1>6. CASE UNCHANGED vars
    BY <1>6 DEF vars, actionVars
<1> QED
    BY <1>1, <1>2, <1>3, <1>4, <1>5, <1>6, StepCases

LEMMA AnswersPreserved ==
    ASSUME TypeOK, CallsKnow, DecidersKnow, AnswersHaveRows, [Next]_vars
    PROVE  AnswersHaveRows'
<1>1. ASSUME NEW c \in Calls, QuietCall(c)
      PROVE  AnswersHaveRows'
    <2>1. asks' = asks /\ status' = status
        BY <1>1, QuietCallFrame DEF actionVars
    <2>2. callPc[c] # "proposed" /\ callPc'[c] # "proposed"
        BY <1>1 DEF QuietCall, RefuseArguments, LockRequester, FindPending, ReadBalance,
            CommitAnswer, AbortCall, CallGoesTo, CallRunning, TypeOK
    <2>3. callPc'[c] = "already_sent" => callPc[c] = "repeating" /\ existing'[c] = existing[c]
        BY <1>1 DEF QuietCall, RefuseArguments, LockRequester, FindPending, ReadBalance,
            CommitAnswer, AbortCall, CallGoesTo, CallRunning, TypeOK
    <2>4. callPc'[c] \notin {"repeating", "already_sent"} => existing'[c] = NoAction
        <3>1. CASE AbortCall(c)
            BY <3>1 DEF AbortCall, TypeOK
        <3>2. CASE ~AbortCall(c)
            BY <1>1, <3>2 DEF QuietCall, RefuseArguments, LockRequester, FindPending,
                ReadBalance, CommitAnswer, CallGoesTo, TypeOK, AnswersHaveRows
        <3> QED
            BY <3>1, <3>2
    <2> QED
        BY <1>1, <2>1, <2>2, <2>3, <2>4, CallLock DEF AnswersHaveRows, CallsKnow
<1>2. ASSUME NEW c \in Calls, CommitProposal(c)
      PROVE  AnswersHaveRows'
    BY <1>2, CallLock, RowsStay DEF CommitProposal, CallGoesTo, AnswersHaveRows, TypeOK
<1>3. ASSUME NEW d \in Deciders, QuietDecide(d)
      PROVE  AnswersHaveRows'
    BY <1>3, QuietDecideFrame DEF AnswersHaveRows, callVars, actionVars
<1>4. ASSUME NEW d \in Deciders, CommitRejection(d) \/ CommitExecution(d)
      PROVE  AnswersHaveRows'
    <2>1. status[decision[d].action] # "none"
        BY <1>4 DEF DecidersKnow, HoldsAction, CommitRejection, CommitExecution
    <2> QED
        BY <1>4, <2>1, RowsStay DEF CommitRejection, CommitExecution, callVars, AnswersHaveRows,
            TypeOK, Decisions
<1>5. ASSUME NEW x \in Accounts, CorrectBalance(x) \/ RemoveBalance(x)
      PROVE  AnswersHaveRows'
    BY <1>5 DEF CorrectBalance, RemoveBalance, AnswersHaveRows, callVars, actionVars
<1>6. CASE UNCHANGED vars
    BY <1>6 DEF vars, AnswersHaveRows, callVars, actionVars
<1> QED
    BY <1>1, <1>2, <1>3, <1>4, <1>5, <1>6, StepCases

(* A request that waits was proposed by the call of the same name, and a   *)
(* step makes at most that call's request wait.                            *)
LEMMA PendingGrows ==
    ASSUME TypeOK, [Next]_vars, NEW a \in Calls, a \in Pending', a \notin Pending
    PROVE  CommitProposal(a)
<1>1. ASSUME NEW c \in Calls, QuietCall(c)
      PROVE  FALSE
    BY <1>1, QuietCallFrame DEF actionVars, Pending
<1>2. ASSUME NEW d \in Deciders, QuietDecide(d)
      PROVE  FALSE
    BY <1>2, QuietDecideFrame DEF actionVars, Pending
<1>3. ASSUME NEW c \in Calls, CommitProposal(c)
      PROVE  a = c
    BY <1>3 DEF CommitProposal, Pending, TypeOK
<1>4. ASSUME NEW d \in Deciders, CommitRejection(d) \/ CommitExecution(d)
      PROVE  FALSE
    BY <1>4 DEF CommitRejection, CommitExecution, Pending, TypeOK
<1>5. ASSUME NEW x \in Accounts, CorrectBalance(x) \/ RemoveBalance(x)
      PROVE  FALSE
    BY <1>5 DEF CorrectBalance, RemoveBalance, Pending, actionVars
<1>6. CASE UNCHANGED vars
    BY <1>6 DEF vars, actionVars, Pending
<1> QED
    BY <1>1, <1>2, <1>3, <1>4, <1>5, <1>6, StepCases

(* Two requests wait only if they differ: the second one was compared with *)
(* the first under the lock that the first one's call had released.        *)
LEMMA OneOpenPreserved ==
    ASSUME TypeOK, CallsKnow, OneOpenProposal, [Next]_vars
    PROVE  OneOpenProposal'
<1>1. SUFFICES ASSUME NEW a \in Pending', NEW b \in Pending', asks'[a] = asks'[b]
               PROVE  a = b
    BY DEF OneOpenProposal
<1>2. a \in Calls /\ b \in Calls /\ asks' = asks
    BY RowsStay DEF Pending
<1>3. CASE a \in Pending /\ b \in Pending
    BY <1>1, <1>2, <1>3 DEF OneOpenProposal
<1>4. CASE a \notin Pending /\ b \in Pending
    BY <1>1, <1>2, <1>4, PendingGrows DEF CommitProposal, CallsKnow
<1>5. CASE a \in Pending /\ b \notin Pending
    BY <1>1, <1>2, <1>5, PendingGrows DEF CommitProposal, CallsKnow
<1>6. CASE a \notin Pending /\ b \notin Pending
    <2>1. CommitProposal(a) /\ CommitProposal(b)
        BY <1>2, <1>6, PendingGrows
    <2> QED
        BY <1>2, <2>1 DEF CommitProposal, CallGoesTo, TypeOK
<1> QED
    BY <1>3, <1>4, <1>5, <1>6

LEMMA CallsKnowPreserved ==
    ASSUME TypeOK, LocksExclude, CallsKnow, AnswersHaveRows, [Next]_vars
    PROVE  CallsKnow'
<1>1. asks' = asks /\ \A a \in Calls : status[a] # "none" => status'[a] # "none"
    BY RowsStay
(* A call keeps what it knows while others step.                           *)
<1>2. ASSUME NEW c \in Calls, callPc'[c] = callPc[c], existing'[c] = existing[c],
             HoldsRequester(c)
      PROVE  /\ callPc'[c] \in {"no_duplicate", "proposing"} =>
                    \A a \in Pending' : asks'[a] # asks'[c]
             /\ callPc'[c] = "repeating" =>
                   /\ existing'[c] \in Calls \ {c}
                   /\ asks'[existing'[c]] = asks'[c]
                   /\ status'[existing'[c]] # "none"
    <2>1. ASSUME NEW a \in Pending', asks[a] = asks[c],
                 callPc[c] \in {"no_duplicate", "proposing"}
          PROVE  FALSE
        <3>1. a \in Calls
            BY DEF Pending
        <3>2. a \notin Pending
            BY <2>1 DEF CallsKnow
        <3>3. CommitProposal(a)
            BY <3>1, <3>2, PendingGrows
        <3>4. a # c
            BY <3>3, <1>2 DEF CommitProposal, CallGoesTo, TypeOK
        <3>5. HoldsRequester(a) /\ Proposer(a) = Proposer(c)
            BY <2>1, <3>3 DEF CommitProposal, HoldsRequester, CallRunning, Proposer
        <3> QED
            BY <1>2, <3>1, <3>4, <3>5 DEF LocksExclude
    <2> QED
        BY <1>1, <1>2, <2>1 DEF CallsKnow
<1>3. ASSUME NEW c \in Calls, callPc'[c] = callPc[c], existing'[c] = existing[c]
      PROVE  /\ HoldsRequester(c)' => asks'[c].payload \notin Unacceptable
             /\ callPc'[c] = "no_duplicate" => IsLeave(asks'[c])
             /\ callPc'[c] \in {"no_duplicate", "proposing"} =>
                    \A a \in Pending' : asks'[a] # asks'[c]
             /\ callPc'[c] = "repeating" =>
                   /\ existing'[c] \in Calls \ {c}
                   /\ asks'[existing'[c]] = asks'[c]
                   /\ status'[existing'[c]] # "none"
    BY <1>1, <1>2, <1>3 DEF CallsKnow, HoldsRequester, CallRunning
<1>4. ASSUME NEW c \in Calls, QuietCall(c) \/ CommitProposal(c)
      PROVE  CallsKnow'
    <2>1. HoldsRequester(c)' => asks[c].payload \notin Unacceptable
        BY <1>4, CallLock DEF CallsKnow, LockRequester
    <2>2. callPc'[c] = "no_duplicate" => FindPending(c)
        BY <1>4 DEF QuietCall, RefuseArguments, LockRequester, FindPending, ReadBalance,
            CommitAnswer, AbortCall, CommitProposal, CallGoesTo, TypeOK
    <2>3. callPc'[c] = "repeating" => FindPending(c)
        BY <1>4 DEF QuietCall, RefuseArguments, LockRequester, FindPending, ReadBalance,
            CommitAnswer, AbortCall, CommitProposal, CallGoesTo, TypeOK
    <2>4. callPc'[c] = "proposing" => FindPending(c) \/ ReadBalance(c)
        BY <1>4 DEF QuietCall, RefuseArguments, LockRequester, FindPending, ReadBalance,
            CommitAnswer, AbortCall, CommitProposal, CallGoesTo, TypeOK
    <2>5. FindPending(c) => Pending' = Pending /\ status' = status
        BY DEF FindPending, Pending, actionVars
    <2>6. ReadBalance(c) => Pending' = Pending /\ callPc[c] = "no_duplicate"
        BY DEF ReadBalance, Pending, actionVars
    <2>7. callPc'[c] = "no_duplicate" => IsLeave(asks[c])
        BY <2>2 DEF FindPending, CallGoesTo, TypeOK
    <2>8. callPc'[c] \in {"no_duplicate", "proposing"} => \A a \in Pending' : asks[a] # asks[c]
        <3>1. CASE FindPending(c)
            BY <3>1, <2>5 DEF FindPending, CallGoesTo, TypeOK
        <3>2. CASE ReadBalance(c)
            BY <3>2, <2>6 DEF CallsKnow
        <3> QED
            BY <3>1, <3>2, <2>2, <2>4
    <2>9. callPc'[c] = "repeating" =>
             /\ existing'[c] \in Calls \ {c}
             /\ asks[existing'[c]] = asks[c]
             /\ status'[existing'[c]] # "none"
        <3>1. FindPending(c) => status[c] = "none"
            BY DEF FindPending, AnswersHaveRows
        <3> QED
            BY <2>3, <2>5, <3>1 DEF FindPending, CallGoesTo, TypeOK, Pending
    <2>10. \A o \in Calls \ {c} : callPc'[o] = callPc[o] /\ existing'[o] = existing[o]
        BY <1>4, CallLock
    <2> QED
        BY <1>1, <1>3, <2>1, <2>7, <2>8, <2>9, <2>10 DEF CallsKnow
<1>5. CASE UNCHANGED callVars
    BY <1>3, <1>5 DEF CallsKnow, callVars
<1>6. ASSUME NEW d \in Deciders, QuietDecide(d) \/ CommitRejection(d) \/ CommitExecution(d)
      PROVE  UNCHANGED callVars
    BY <1>6, QuietDecideFrame DEF CommitRejection, CommitExecution
<1> QED
    BY <1>4, <1>5, <1>6, StepCases DEF CorrectBalance, RemoveBalance, vars

-----------------------------------------------------------------------------
(* What deciders know.                                                     *)

(* Only the decider that holds its row changes the status of a waiting     *)
(* action.                                                                 *)
LEMMA WaitingUntilDecided ==
    ASSUME TypeOK, [Next]_vars, NEW a \in Calls,
           status[a] = "pending_approval", status'[a] # "pending_approval"
    PROVE  \E d \in Deciders :
              /\ CommitRejection(d) \/ CommitExecution(d)
              /\ decision[d].action = a
<1>1. ASSUME NEW c \in Calls, QuietCall(c)
      PROVE  FALSE
    BY <1>1, QuietCallFrame DEF actionVars
<1>2. ASSUME NEW d \in Deciders, QuietDecide(d)
      PROVE  FALSE
    BY <1>2, QuietDecideFrame DEF actionVars
<1>3. ASSUME NEW c \in Calls, CommitProposal(c)
      PROVE  FALSE
    BY <1>3 DEF CommitProposal, TypeOK
<1>4. ASSUME NEW d \in Deciders, CommitRejection(d) \/ CommitExecution(d)
      PROVE  decision[d].action = a
    BY <1>4 DEF CommitRejection, CommitExecution, TypeOK
<1>5. ASSUME NEW x \in Accounts, CorrectBalance(x) \/ RemoveBalance(x)
      PROVE  FALSE
    BY <1>5 DEF CorrectBalance, RemoveBalance, actionVars
<1>6. CASE UNCHANGED vars
    BY <1>6 DEF vars, actionVars
<1> QED
    BY <1>1, <1>2, <1>3, <1>4, <1>5, <1>6, StepCases

LEMMA DecidersKnowPreserved ==
    ASSUME TypeOK, LocksExclude, DecidersKnow, [Next]_vars
    PROVE  DecidersKnow'
<1>1. asks' = asks /\ decision' = decision
    BY RowsStay
<1>2. \A d \in Deciders : decision[d].action \in Calls
    BY DEF TypeOK, Decisions
(* A decider keeps what it knows while others step.                        *)
<1>3. ASSUME NEW d \in Deciders, decidePc'[d] = decidePc[d]
      PROVE  LET a == decision[d].action
                 e == decision[d].approver
             IN  /\ decidePc'[d] = "role_ok" => e \in Approvers
                 /\ decidePc'[d] = "validated" => e \in Approvers \ {Proposer(a)}
                 /\ HoldsAction(d)' => /\ e \in Approvers \ {Proposer(a)}
                                       /\ status'[a] = "pending_approval"
                 /\ decidePc'[d] = "approving" => IsLeave(asks[a])
    <2> DEFINE a == decision[d].action
    <2>1. ASSUME HoldsAction(d), status'[a] # "pending_approval"
          PROVE  FALSE
        <3>1. status[a] = "pending_approval"
            BY <2>1 DEF DecidersKnow
        <3>2. PICK o \in Deciders :
                 /\ CommitRejection(o) \/ CommitExecution(o)
                 /\ decision[o].action = a
            BY <1>2, <2>1, <3>1, WaitingUntilDecided
        <3>3. HoldsAction(o)
            BY <3>2 DEF CommitRejection, CommitExecution, HoldsAction
        <3>4. o = d
            BY <2>1, <3>2, <3>3 DEF LocksExclude
        <3> QED
            BY <1>3, <3>2, <3>4, <2>1 DEF CommitRejection, CommitExecution, DecideGoesTo, TypeOK, HoldsAction
    <2> QED
        BY <1>3, <2>1 DEF DecidersKnow, HoldsAction
<1>4. ASSUME UNCHANGED decidePc
      PROVE  DecidersKnow'
    BY <1>1, <1>3, <1>4 DEF DecidersKnow, Proposer
<1>5. ASSUME NEW d \in Deciders, QuietDecide(d) \/ CommitRejection(d) \/ CommitExecution(d)
      PROVE  DecidersKnow'
    <2> DEFINE a == decision[d].action
               e == decision[d].approver
    <2>1. decidePc'[d] = "role_ok" => e \in Approvers
        BY <1>5 DEF TypeOK, QuietDecide, ValidateRole, ValidateApprover, LockAction, LockBalance,
            AbortDecision, CommitRejection, CommitExecution, DecideGoesTo
    <2>2. decidePc'[d] = "validated" => e \in Approvers \ {Proposer(a)}
        <3>1. decidePc'[d] = "validated" => ValidateApprover(d)
            BY <1>5 DEF TypeOK, QuietDecide, ValidateRole, ValidateApprover, LockAction,
                LockBalance, AbortDecision, CommitRejection, CommitExecution, DecideGoesTo
        <3> QED
            BY <3>1 DEF ValidateApprover, DecideGoesTo, DecidersKnow, TypeOK
    <2>3. HoldsAction(d)' => /\ e \in Approvers \ {Proposer(a)}
                             /\ status'[a] = "pending_approval"
        <3>1. HoldsAction(d)' => QuietDecide(d)
            BY <1>5 DEF CommitRejection, CommitExecution, DecideGoesTo, HoldsAction, TypeOK
        <3>2. QuietDecide(d) => status' = status
            BY QuietDecideFrame DEF actionVars
        <3>3. LockAction(d) /\ HoldsAction(d)' => status[a] = "pending_approval"
            BY <1>2 DEF LockAction, DecideGoesTo, HoldsAction, TypeOK
        <3> QED
            BY <1>5, <3>1, <3>2, <3>3, DecideLock DEF DecidersKnow, LockAction
    <2>4. decidePc'[d] = "approving" => IsLeave(asks[a])
        <3>1. decidePc'[d] = "approving" => LockAction(d)
            BY <1>5 DEF TypeOK, QuietDecide, ValidateRole, ValidateApprover, LockAction,
                LockBalance, AbortDecision, CommitRejection, CommitExecution, DecideGoesTo
        <3> QED
            BY <3>1 DEF LockAction, DecideGoesTo, TypeOK
    <2>5. \A o \in Deciders \ {d} : decidePc'[o] = decidePc[o]
        BY <1>5, DecideLock
    <2> QED
        BY <1>1, <1>3, <2>1, <2>2, <2>3, <2>4, <2>5 DEF DecidersKnow, Proposer
<1>6. ASSUME NEW c \in Calls, QuietCall(c) \/ CommitProposal(c)
      PROVE  UNCHANGED decidePc
    BY <1>6, QuietCallFrame DEF CommitProposal
<1> QED
    BY <1>4, <1>5, <1>6, StepCases DEF CorrectBalance, RemoveBalance, vars

-----------------------------------------------------------------------------
(* Decisions and the audit trail.                                          *)

(* A step that writes no action row.                                       *)
LEMMA OtherStepsKeepActions ==
    ASSUME [Next]_vars,
           ~ \E c \in Calls : CommitProposal(c),
           ~ \E d \in Deciders : CommitRejection(d) \/ CommitExecution(d)
    PROVE  UNCHANGED <<asks, decision, actionVars>>
<1>1. ASSUME NEW c \in Calls, QuietCall(c)
      PROVE  UNCHANGED <<asks, decision, actionVars>>
    BY <1>1, QuietCallFrame
<1>2. ASSUME NEW d \in Deciders, QuietDecide(d)
      PROVE  UNCHANGED <<asks, decision, actionVars>>
    BY <1>2, QuietDecideFrame
<1> QED
    BY <1>1, <1>2, StepCases DEF CorrectBalance, RemoveBalance, vars

LEMMA SeparationPreserved ==
    ASSUME TypeOK, AnswersHaveRows, DecidersKnow, SeparationOfDuties, [Next]_vars
    PROVE  SeparationOfDuties'
<1>1. asks' = asks
    BY RowsStay
<1>2. ASSUME NEW c \in Calls, CommitProposal(c)
      PROVE  SeparationOfDuties'
    BY <1>1, <1>2 DEF CommitProposal, SeparationOfDuties, AnswersHaveRows, TypeOK, Proposer
<1>3. ASSUME NEW d \in Deciders, CommitRejection(d) \/ CommitExecution(d)
      PROVE  SeparationOfDuties'
    BY <1>1, <1>3 DEF CommitRejection, CommitExecution, SeparationOfDuties, DecidersKnow,
        HoldsAction, TypeOK, Decisions, Proposer
<1>4. CASE UNCHANGED actionVars
    BY <1>1, <1>4 DEF actionVars, SeparationOfDuties, Proposer
<1> QED
    BY <1>2, <1>3, <1>4, OtherStepsKeepActions

(* Short sequences, written out.                                           *)
LEMMA AppendToOne ==
    ASSUME NEW S, NEW r \in S, NEW s \in S
    PROVE  Append(<<r>>, s) = <<r, s>>
<1>1. <<r>> \in Seq(S) /\ Len(<<r>>) = 1 /\ <<r>>[1] = r
    OBVIOUS
<1>2. /\ Append(<<r>>, s) \in Seq(S) /\ Len(Append(<<r>>, s)) = 2
      /\ Append(<<r>>, s)[1] = r /\ Append(<<r>>, s)[2] = s
    BY <1>1, AppendProperties
<1>3. <<r, s>> \in Seq(S) /\ Len(<<r, s>>) = 2 /\ <<r, s>>[1] = r /\ <<r, s>>[2] = s
    OBVIOUS
<1>4. \A i \in 1..2 : Append(<<r>>, s)[i] = <<r, s>>[i]
    BY <1>2, <1>3
<1> QED
    BY <1>2, <1>3, <1>4, SeqEqual

LEMMA AppendToTwo ==
    ASSUME NEW S, NEW r \in S, NEW s \in S, NEW t \in S
    PROVE  Append(<<r, s>>, t) = <<r, s, t>>
<1>1. <<r, s>> \in Seq(S) /\ Len(<<r, s>>) = 2 /\ <<r, s>>[1] = r /\ <<r, s>>[2] = s
    OBVIOUS
<1>2. /\ Append(<<r, s>>, t) \in Seq(S) /\ Len(Append(<<r, s>>, t)) = 3
      /\ Append(<<r, s>>, t)[1] = r /\ Append(<<r, s>>, t)[2] = s
      /\ Append(<<r, s>>, t)[3] = t
    BY <1>1, AppendProperties
<1>3. /\ <<r, s, t>> \in Seq(S) /\ Len(<<r, s, t>>) = 3
      /\ <<r, s, t>>[1] = r /\ <<r, s, t>>[2] = s /\ <<r, s, t>>[3] = t
    OBVIOUS
<1>4. \A i \in 1..3 : Append(<<r, s>>, t)[i] = <<r, s, t>>[i]
    BY <1>2, <1>3
<1> QED
    BY <1>2, <1>3, <1>4, SeqEqual

LEMMA EventsOfSteps ==
    ASSUME NEW e \in Employees
    PROVE  /\ <<"action_proposed", NoOne>> \in Events
           /\ <<"action_rejected", e>> \in Events
           /\ <<"action_approved", e>> \in Events
           /\ <<"action_executed", e>> \in Events
BY DEF Events, EventNames

(* The audit trail keeps telling the story of each action.                 *)
LEMMA AuditPreserved ==
    ASSUME TypeOK, AnswersHaveRows, DecidersKnow, AuditTellsTheStory, [Next]_vars
    PROVE  AuditTellsTheStory'
<1>1. ASSUME NEW c \in Calls, CommitProposal(c)
      PROVE  AuditTellsTheStory'
    <2>1. status[c] = "none" /\ trail[c] = <<>>
        BY <1>1 DEF CommitProposal, AnswersHaveRows, AuditTellsTheStory
    <2>2. trail'[c] = <<<<"action_proposed", NoOne>>>>
        <3>1. trail'[c] = Append(<<>>, <<"action_proposed", NoOne>>)
            BY <1>1, <2>1 DEF CommitProposal, TypeOK
        <3> QED
            BY <3>1
    <2>3. ASSUME NEW a \in Calls, a # c
          PROVE  trail'[a] = trail[a] /\ status'[a] = status[a] /\ decidedBy'[a] = decidedBy[a]
        BY <1>1, <2>3 DEF CommitProposal, TypeOK
    <2>4. status'[c] = "pending_approval"
        BY <1>1 DEF CommitProposal, TypeOK
    <2> QED
        BY <2>2, <2>3, <2>4 DEF AuditTellsTheStory
<1>2. ASSUME NEW d \in Deciders, CommitRejection(d)
      PROVE  AuditTellsTheStory'
    <2> DEFINE b == decision[d].action
               e == decision[d].approver
    <2>1. /\ b \in Calls
          /\ trail[b] = <<<<"action_proposed", NoOne>>>>
        BY <1>2 DEF CommitRejection, TypeOK, Decisions, DecidersKnow, HoldsAction,
            AuditTellsTheStory
    <2>2. trail'[b] = <<<<"action_proposed", NoOne>>, <<"action_rejected", e>>>>
        <3>1. trail'[b] = Append(<<<<"action_proposed", NoOne>>>>, <<"action_rejected", e>>)
            BY <1>2, <2>1 DEF CommitRejection, TypeOK
        <3>2. e \in Employees
            BY DEF TypeOK, Decisions
        <3> QED
            BY <3>1, <3>2, EventsOfSteps, AppendToOne
    <2>3. status'[b] = "rejected" /\ decidedBy'[b] = e
        BY <1>2, <2>1 DEF CommitRejection, TypeOK
    <2>4. ASSUME NEW a \in Calls, a # b
          PROVE  trail'[a] = trail[a] /\ status'[a] = status[a] /\ decidedBy'[a] = decidedBy[a]
        BY <1>2, <2>4 DEF CommitRejection, TypeOK
    <2> QED
        BY <2>2, <2>3, <2>4 DEF AuditTellsTheStory
<1>3. ASSUME NEW d \in Deciders, CommitExecution(d)
      PROVE  AuditTellsTheStory'
    <2> DEFINE b == decision[d].action
               e == decision[d].approver
    <2>1. /\ b \in Calls
          /\ trail[b] = <<<<"action_proposed", NoOne>>>>
        BY <1>3 DEF CommitExecution, TypeOK, Decisions, DecidersKnow, HoldsAction,
            AuditTellsTheStory
    <2>2. trail'[b] = <<<<"action_proposed", NoOne>>, <<"action_approved", e>>,
                        <<"action_executed", e>>>>
        <3>1. trail'[b] = Append(Append(<<<<"action_proposed", NoOne>>>>,
                                        <<"action_approved", e>>), <<"action_executed", e>>)
            BY <1>3, <2>1 DEF CommitExecution, TypeOK
        <3>2. e \in Employees
            BY DEF TypeOK, Decisions
        <3>3. Append(<<<<"action_proposed", NoOne>>>>, <<"action_approved", e>>)
                = <<<<"action_proposed", NoOne>>, <<"action_approved", e>>>>
            BY <3>2, EventsOfSteps, AppendToOne
        <3> QED
            BY <3>1, <3>3, <3>2, EventsOfSteps, AppendToTwo
    <2>3. status'[b] = "executed" /\ decidedBy'[b] = e
        BY <1>3, <2>1 DEF CommitExecution, TypeOK
    <2>4. ASSUME NEW a \in Calls, a # b
          PROVE  trail'[a] = trail[a] /\ status'[a] = status[a] /\ decidedBy'[a] = decidedBy[a]
        BY <1>3, <2>4 DEF CommitExecution, TypeOK
    <2> QED
        BY <2>2, <2>3, <2>4 DEF AuditTellsTheStory
<1>4. CASE UNCHANGED actionVars
    BY <1>4 DEF actionVars, AuditTellsTheStory
<1> QED
    BY <1>1, <1>2, <1>3, <1>4, OtherStepsKeepActions

-----------------------------------------------------------------------------
(* Days.                                                                   *)

LEMMA BookedPreserved ==
    ASSUME TypeOK, AnswersHaveRows, DecidersKnow, BookedMatchesExecuted, [Next]_vars
    PROVE  BookedMatchesExecuted'
<1>1. ASSUME NEW c \in Calls, CommitProposal(c)
      PROVE  BookedMatchesExecuted'
    <2>1. Executed' = Executed
        BY <1>1, ProposalSums DEF CommitProposal, AnswersHaveRows
    <2> QED
        BY <1>1, <2>1 DEF CommitProposal, BookedMatchesExecuted
<1>2. ASSUME NEW d \in Deciders, CommitRejection(d)
      PROVE  BookedMatchesExecuted'
    <2>1. decision[d].action \in Calls /\ status[decision[d].action] = "pending_approval"
        BY <1>2 DEF CommitRejection, TypeOK, Decisions, DecidersKnow, HoldsAction
    <2>2. Executed' = Executed
        BY <1>2, <2>1, DecisionSums
    <2> QED
        BY <1>2, <2>2 DEF CommitRejection, BookedMatchesExecuted
<1>3. ASSUME NEW d \in Deciders, CommitExecution(d)
      PROVE  BookedMatchesExecuted'
    <2> DEFINE a == decision[d].action
    <2>1. a \in Calls /\ status[a] = "pending_approval"
        BY <1>3 DEF CommitExecution, TypeOK, Decisions, DecidersKnow, HoldsAction
    <2>2. /\ a \notin Executed /\ Executed' = Executed \cup {a}
          /\ \A x : TotalDays(asks', Executed', x) =
                       TotalDays(asks, Executed, x) + DaysAsked(asks[a], x)
        BY <1>3, <2>1, DecisionSums
    <2>3. \A x \in Accounts : approvedDays'[x] = TotalDays(asks', Executed', x)
        BY <1>3, <2>2 DEF CommitExecution, BookedMatchesExecuted, DaysBooked
    <2>4. \A b \in Calls : written'[b] = IF b \in Executed' THEN 1 ELSE 0
        BY <1>3, <2>1, <2>2 DEF CommitExecution, BookedMatchesExecuted, TypeOK
    <2> QED
        BY <2>3, <2>4 DEF BookedMatchesExecuted
<1>4. CASE UNCHANGED <<asks, actionVars>>
    <2>1. Executed' = Executed
        BY <1>4, SumsKept DEF actionVars
    <2> QED
        BY <1>4, <2>1 DEF actionVars, BookedMatchesExecuted
<1> QED
    BY <1>1, <1>2, <1>3, <1>4, OtherStepsKeepActions

(* The facts that every lemma about days needs.                            *)
LEMMA DayNumbers ==
    ASSUME TypeOK, NEW x \in Accounts
    PROVE  /\ approvedDays[x] \in Nat /\ limit[x] \in Int /\ Awaiting(x) \in Nat
           /\ \A c \in Calls :
                 /\ asks[c] \in Requests
                 /\ DaysAsked(asks[c], x) \in Nat
                 /\ DrawsOn(asks[c], x) => DaysAsked(asks[c], x) = Days[asks[c].payload]
                 /\ ~DrawsOn(asks[c], x) => DaysAsked(asks[c], x) = 0
<1>1. \A c \in Calls : asks[c] \in Requests
    BY DEF TypeOK
<1>2. \A c \in Calls : ~DrawsOn(asks[c], x) => DaysAsked(asks[c], x) = 0
    BY DEF DaysAsked
<1> QED
    BY <1>1, <1>2, SumsAreNumbers, DaysAskedType DEF TypeOK

(* A call that is about to propose read the balance under its requester's  *)
(* lock, and nobody else can use up what it read.                          *)
LEMMA ProposedFitPreserved ==
    ASSUME TypeOK, LocksExclude, CallsKnow, DecidersKnow, AnswersHaveRows, ProposedDaysFit,
           [Next]_vars
    PROVE  ProposedDaysFit'
<1>1. SUFFICES ASSUME NEW o \in Calls, NEW x \in Accounts, x \notin corrected',
                      callPc'[o] = "proposing", DrawsOn(asks'[o], x)
               PROVE  /\ x \in onRecord'
                      /\ approvedDays'[x] + Awaiting(x)' + Days[asks'[o].payload] <= limit'[x]
    BY DEF ProposedDaysFit
<1>2. asks' = asks
    BY RowsStay
<1> DEFINE n == Days[asks[o].payload]
<1>3. n \in Nat
    BY <1>1, <1>2, DayNumbers
(* What the invariant says of a call that was there before the step.       *)
<1>4. callPc[o] = "proposing" /\ x \notin corrected =>
         x \in onRecord /\ approvedDays[x] + Awaiting(x) + n <= limit[x]
    BY <1>1, <1>2 DEF ProposedDaysFit
<1>5. ASSUME NEW c \in Calls, QuietCall(c)
      PROVE  /\ x \in onRecord'
             /\ approvedDays'[x] + Awaiting(x)' + n <= limit'[x]
    <2>1. /\ UNCHANGED <<approvedDays, limit, onRecord, corrected>>
          /\ Awaiting(x)' = Awaiting(x)
        BY <1>5, QuietCallFrame, SumsKept DEF actionVars, rowVars
    <2>2. CASE o # c
        BY <1>1, <1>4, <1>5, <2>1, <2>2, CallLock
    <2>3. CASE o = c
        <3>1. FindPending(o) \/ ReadBalance(o)
            BY <1>1, <1>5, <2>3 DEF QuietCall, RefuseArguments, LockRequester, FindPending,
                ReadBalance, CommitAnswer, AbortCall, CallGoesTo, TypeOK
        <3>2. ~FindPending(o)
            BY <1>1, <1>2 DEF FindPending, CallGoesTo, TypeOK, DrawsOn
        <3>3. x = Account(asks[o]) /\ x \in onRecord /\ n <= Remaining(x)
            BY <1>1, <1>2, <3>1, <3>2 DEF ReadBalance, CallGoesTo, TypeOK, DrawsOn
        <3> QED
            BY <1>3, <2>1, <3>3, DayNumbers DEF Remaining
    <2> QED
        BY <2>2, <2>3
<1>6. ASSUME NEW c \in Calls, CommitProposal(c)
      PROVE  /\ x \in onRecord'
             /\ approvedDays'[x] + Awaiting(x)' + n <= limit'[x]
    <2>1. o # c /\ callPc[o] = "proposing"
        BY <1>1, <1>6 DEF CommitProposal, CallGoesTo, TypeOK
    <2>2. Proposer(o) # Proposer(c)
        BY <1>6, <2>1 DEF CommitProposal, LocksExclude, HoldsRequester, CallRunning
    <2>3. ~DrawsOn(asks[c], x)
        BY <1>1, <1>2, <2>2 DEF DrawsOn, Account, Proposer
    <2>4. Awaiting(x)' = Awaiting(x)
        <3>1. Awaiting(x)' = Awaiting(x) + DaysAsked(asks[c], x)
            BY <1>6, ProposalSums DEF AnswersHaveRows, CommitProposal
        <3> QED
            BY <2>3, <3>1, DayNumbers
    <2> QED
        BY <1>1, <1>4, <1>6, <2>1, <2>4 DEF CommitProposal, rowVars
<1>7. ASSUME NEW d \in Deciders, QuietDecide(d)
      PROVE  /\ x \in onRecord'
             /\ approvedDays'[x] + Awaiting(x)' + n <= limit'[x]
    BY <1>1, <1>4, <1>7, QuietDecideFrame, SumsKept DEF callVars, actionVars, rowVars
<1>8. ASSUME NEW d \in Deciders, CommitRejection(d) \/ CommitExecution(d)
      PROVE  /\ x \in onRecord'
             /\ approvedDays'[x] + Awaiting(x)' + n <= limit'[x]
    <2> DEFINE a == decision[d].action
    <2>1. a \in Calls /\ status[a] = "pending_approval"
        BY <1>8 DEF CommitRejection, CommitExecution, TypeOK, Decisions, DecidersKnow, HoldsAction
    <2>2. Awaiting(x) = Awaiting(x)' + DaysAsked(asks[a], x) /\ Awaiting(x)' \in Nat
        BY <1>8, <2>1, DecisionSums
    <2>3. /\ UNCHANGED <<callPc, limit, onRecord, corrected>>
          /\ approvedDays'[x] = approvedDays[x] \/ approvedDays'[x] = approvedDays[x] + DaysAsked(asks[a], x)
        BY <1>8 DEF CommitRejection, CommitExecution, callVars, rowVars, DaysBooked
    <2> QED
        BY <1>1, <1>3, <1>4, <2>1, <2>2, <2>3, DayNumbers
<1>9. ASSUME NEW y \in Accounts, CorrectBalance(y) \/ RemoveBalance(y)
      PROVE  /\ x \in onRecord'
             /\ approvedDays'[x] + Awaiting(x)' + n <= limit'[x]
    <2>1. x # y /\ x \notin corrected
        BY <1>1, <1>9 DEF CorrectBalance, RemoveBalance
    <2>2. Awaiting(x)' = Awaiting(x)
        BY <1>9, SumsKept DEF CorrectBalance, RemoveBalance, actionVars
    <2>3. /\ UNCHANGED <<callPc, approvedDays>>
          /\ limit'[x] = limit[x]
          /\ x \in onRecord => x \in onRecord'
        BY <1>9, <2>1 DEF CorrectBalance, RemoveBalance, callVars, actionVars, TypeOK
    <2> QED
        BY <1>1, <1>4, <2>1, <2>2, <2>3
<1>10. CASE UNCHANGED vars
    BY <1>1, <1>4, <1>10, SumsKept DEF vars, callVars, actionVars, rowVars
<1> QED
    BY <1>2, <1>5, <1>6, <1>7, <1>8, <1>9, <1>10, StepCases

(* What waits and what is booked stays within the limit.                   *)
LEMMA ReservedPreserved ==
    ASSUME TypeOK, DecidersKnow, AnswersHaveRows, ProposedDaysFit, ReservedWithinLimit,
           [Next]_vars
    PROVE  ReservedWithinLimit'
<1>1. SUFFICES ASSUME NEW x \in Accounts, x \in onRecord', x \notin corrected'
               PROVE  approvedDays'[x] + Awaiting(x)' <= limit'[x]
    <2>1. onRecord' \subseteq Accounts
        BY TypePreserved DEF TypeOK
    <2> QED
        BY <1>1, <2>1 DEF ReservedWithinLimit
<1>2. asks' = asks
    BY RowsStay
<1>3. x \in onRecord /\ x \notin corrected => approvedDays[x] + Awaiting(x) <= limit[x]
    BY DEF ReservedWithinLimit
<1>4. ASSUME NEW c \in Calls, QuietCall(c)
      PROVE  approvedDays'[x] + Awaiting(x)' <= limit'[x]
    BY <1>1, <1>3, <1>4, QuietCallFrame, SumsKept DEF actionVars, rowVars
<1>5. ASSUME NEW d \in Deciders, QuietDecide(d)
      PROVE  approvedDays'[x] + Awaiting(x)' <= limit'[x]
    BY <1>1, <1>3, <1>5, QuietDecideFrame, SumsKept DEF actionVars, rowVars
<1>6. ASSUME NEW c \in Calls, CommitProposal(c)
      PROVE  approvedDays'[x] + Awaiting(x)' <= limit'[x]
    <2>1. Awaiting(x)' = Awaiting(x) + DaysAsked(asks[c], x)
        BY <1>6, ProposalSums DEF AnswersHaveRows, CommitProposal
    <2>2. UNCHANGED <<approvedDays, limit, onRecord, corrected>> /\ callPc[c] = "proposing"
        BY <1>6 DEF CommitProposal, rowVars
    <2>3. CASE DrawsOn(asks[c], x)
        BY <1>1, <2>1, <2>2, <2>3, DayNumbers DEF ProposedDaysFit
    <2>4. CASE ~DrawsOn(asks[c], x)
        BY <1>1, <1>3, <2>1, <2>2, <2>4, DayNumbers
    <2> QED
        BY <2>3, <2>4
<1>7. ASSUME NEW d \in Deciders, CommitRejection(d) \/ CommitExecution(d)
      PROVE  approvedDays'[x] + Awaiting(x)' <= limit'[x]
    <2> DEFINE a == decision[d].action
    <2>1. a \in Calls /\ status[a] = "pending_approval"
        BY <1>7 DEF CommitRejection, CommitExecution, TypeOK, Decisions, DecidersKnow, HoldsAction
    <2>2. Awaiting(x) = Awaiting(x)' + DaysAsked(asks[a], x) /\ Awaiting(x)' \in Nat
        BY <1>7, <2>1, DecisionSums
    <2>3. /\ UNCHANGED <<limit, onRecord, corrected>>
          /\ approvedDays'[x] = approvedDays[x] \/ approvedDays'[x] = approvedDays[x] + DaysAsked(asks[a], x)
        BY <1>7 DEF CommitRejection, CommitExecution, rowVars, DaysBooked
    <2> QED
        BY <1>1, <1>3, <2>1, <2>2, <2>3, DayNumbers
<1>8. ASSUME NEW y \in Accounts, CorrectBalance(y) \/ RemoveBalance(y)
      PROVE  approvedDays'[x] + Awaiting(x)' <= limit'[x]
    <2>1. x # y /\ x \notin corrected /\ x \in onRecord
        BY <1>1, <1>8 DEF CorrectBalance, RemoveBalance
    <2>2. Awaiting(x)' = Awaiting(x)
        BY <1>8, SumsKept DEF CorrectBalance, RemoveBalance, actionVars
    <2>3. UNCHANGED approvedDays /\ limit'[x] = limit[x]
        BY <1>8, <2>1 DEF CorrectBalance, RemoveBalance, actionVars, TypeOK
    <2> QED
        BY <1>3, <2>1, <2>2, <2>3
<1>9. CASE UNCHANGED vars
    BY <1>1, <1>3, <1>9, SumsKept DEF vars, actionVars, rowVars
<1> QED
    BY <1>4, <1>5, <1>6, <1>7, <1>8, <1>9, StepCases

(* A decider that is about to book holds the balance row, so nobody else   *)
(* books on it or corrects it.                                             *)
LEMMA BookedFitPreserved ==
    ASSUME TypeOK, LocksExclude, DecidersKnow, BookedDaysFit, [Next]_vars
    PROVE  BookedDaysFit'
<1>1. SUFFICES ASSUME NEW o \in Deciders, NEW x \in Accounts, HoldsBalance(o, x)'
               PROVE  /\ x \in onRecord'
                      /\ approvedDays'[x] + Days[asks'[decision'[o].action].payload] <= limit'[x]
    BY DEF BookedDaysFit
<1>2. asks' = asks /\ decision' = decision
    BY RowsStay
<1> DEFINE n == Days[asks[decision[o].action].payload]
           Fits == /\ x \in onRecord'
                   /\ approvedDays'[x] + n <= limit'[x]
<1>3. HoldsBalance(o, x) => x \in onRecord /\ approvedDays[x] + n <= limit[x]
    BY DEF BookedDaysFit
<1>4. decision[o].action \in Calls /\ DrawsOn(asks[decision[o].action], x)
    BY <1>1, <1>2 DEF HoldsBalance, TypeOK, Decisions
<1>5. ASSUME NEW c \in Calls, QuietCall(c) \/ CommitProposal(c)
      PROVE  Fits
    <2>1. UNCHANGED <<decidePc, approvedDays, limit, onRecord>>
        BY <1>5, QuietCallFrame DEF actionVars, rowVars, CommitProposal
    <2> QED
        BY <1>1, <1>2, <1>3, <2>1 DEF HoldsBalance
<1>6. ASSUME NEW d \in Deciders, QuietDecide(d)
      PROVE  Fits
    <2>1. UNCHANGED <<approvedDays, limit, onRecord>>
        BY <1>6, QuietDecideFrame DEF actionVars, rowVars
    <2>2. CASE HoldsBalance(o, x)
        BY <1>3, <2>1, <2>2
    <2>3. CASE ~HoldsBalance(o, x)
        <3>1. o = d
            BY <1>1, <1>2, <1>6, <2>3, DecideLock DEF HoldsBalance
        <3>2. LockBalance(d)
            BY <1>1, <1>6, <2>3, <3>1, DecideLock
        <3>3. x = Account(asks[decision[o].action]) /\ decidePc'[o] = "executing"
            BY <1>1, <1>2 DEF HoldsBalance, DrawsOn
        <3>4. x \in onRecord /\ ~(n > limit[x] - approvedDays[x])
            BY <3>1, <3>2, <3>3 DEF LockBalance, DecideGoesTo, TypeOK
        <3> QED
            BY <1>4, <2>1, <3>4, DayNumbers
    <2> QED
        BY <2>2, <2>3
<1>7. ASSUME NEW d \in Deciders, CommitRejection(d) \/ CommitExecution(d)
      PROVE  Fits
    <2> DEFINE a == decision[d].action
    <2>1. o # d /\ decidePc'[o] = decidePc[o]
        <3>1. decidePc'[d] = "done"
            BY <1>7 DEF CommitRejection, CommitExecution, DecideGoesTo, TypeOK
        <3>2. o # d
            BY <1>1, <3>1 DEF HoldsBalance
        <3> QED
            BY <1>7, <3>2, DecideLock
    <2>2. HoldsBalance(o, x)
        BY <1>1, <1>2, <2>1 DEF HoldsBalance
    <2>3. UNCHANGED <<limit, onRecord>>
        BY <1>7 DEF CommitRejection, CommitExecution, rowVars
    <2>4. approvedDays'[x] = approvedDays[x]
        <3>1. CASE CommitRejection(d)
            BY <3>1 DEF CommitRejection
        <3>2. CASE CommitExecution(d)
            <4>1. ~HoldsBalance(d, x)
                BY <2>1, <2>2 DEF LocksExclude
            <4>2. ~DrawsOn(asks[a], x)
                BY <3>2, <4>1 DEF HoldsBalance, CommitExecution
            <4>3. DaysBooked(a, x) = 0
                BY <4>2 DEF DaysBooked, DaysAsked
            <4>4. approvedDays'[x] = approvedDays[x] + DaysBooked(a, x)
                BY <3>2 DEF CommitExecution
            <4> QED
                BY <4>3, <4>4, DayNumbers
        <3> QED
            BY <1>7, <3>1, <3>2
    <2> QED
        BY <1>3, <2>2, <2>3, <2>4
<1>8. ASSUME NEW y \in Accounts, CorrectBalance(y) \/ RemoveBalance(y)
      PROVE  Fits
    <2>1. HoldsBalance(o, x)
        BY <1>1, <1>2, <1>8 DEF HoldsBalance, CorrectBalance, RemoveBalance
    <2>2. x # y
        BY <1>8, <2>1 DEF CorrectBalance, RemoveBalance
    <2>3. UNCHANGED approvedDays /\ limit'[x] = limit[x] /\ (x \in onRecord => x \in onRecord')
        BY <1>8, <2>2 DEF CorrectBalance, RemoveBalance, actionVars, TypeOK
    <2> QED
        BY <1>3, <2>1, <2>3
<1>9. CASE UNCHANGED vars
    BY <1>1, <1>2, <1>3, <1>9 DEF vars, actionVars, rowVars, HoldsBalance
<1> QED
    BY <1>2, <1>5, <1>6, <1>7, <1>8, <1>9, StepCases

-----------------------------------------------------------------------------
(* The inductive invariant.                                                *)

LEMMA InvariantInitially ==
    ASSUME Init
    PROVE  GateInvariant
<1>1. TypeOK
    <2>1. [c \in Calls |-> <<>>] \in [Calls -> Seq(Events)]
        OBVIOUS
    <2>2. limit \in [Accounts -> Int] /\ onRecord \subseteq Accounts
        <3>1. \A n \in Limits : n \in Int
            BY WriteGateAssumption
        <3>2. limit \in [Accounts -> Limits] /\ onRecord = Recorded
            BY DEF Init
        <3>3. onRecord \subseteq Accounts
            BY <3>2, WriteGateAssumption
        <3> QED
            BY <3>1, <3>2, <3>3
    <2>3. [x \in Accounts |-> 0] \in [Accounts -> Nat] /\ [a \in Calls |-> 0] \in [Calls -> Nat]
        OBVIOUS
    <2> QED
        BY <2>1, <2>2, <2>3
        DEF Init, TypeOK, CallRunning, CallEnded, DecideRunning, DecideEnded, Statuses
<1>2. Pending = {} /\ Executed = {}
    BY DEF Init, Pending, Executed
<1>3. \A x : Awaiting(x) = 0 /\ TotalDays(asks, Executed, x) = 0
    BY <1>2, TotalDaysNone DEF Awaiting
<1>4. ReservedWithinLimit
    <2>1. \A x \in Accounts : approvedDays[x] = 0 /\ limit[x] \in Nat
        BY WriteGateAssumption DEF Init
    <2>2. onRecord \subseteq Accounts
        BY <1>1 DEF TypeOK
    <2> QED
        BY <1>3, <2>1, <2>2 DEF ReservedWithinLimit
<1>5. BookedMatchesExecuted
    BY <1>2, <1>3 DEF Init, BookedMatchesExecuted
<1>6. LocksExclude /\ CallsKnow /\ ProposedDaysFit /\ DecidersKnow /\ BookedDaysFit
    BY DEF Init, LocksExclude, CallsKnow, ProposedDaysFit, DecidersKnow, BookedDaysFit,
        HoldsRequester, HoldsAction, HoldsBalance
<1>7. OneOpenProposal /\ SeparationOfDuties /\ AnswersHaveRows
    BY <1>2 DEF Init, OneOpenProposal, SeparationOfDuties, AnswersHaveRows
<1>8. AuditTellsTheStory
    BY DEF Init, AuditTellsTheStory
<1> QED
    BY <1>1, <1>4, <1>5, <1>6, <1>7, <1>8 DEF GateInvariant

LEMMA InvariantPreserved ==
    ASSUME GateInvariant, [Next]_vars
    PROVE  GateInvariant'
BY TypePreserved, LocksPreserved, CallsKnowPreserved, ProposedFitPreserved,
   DecidersKnowPreserved, BookedFitPreserved, ReservedPreserved, OneOpenPreserved,
   BookedPreserved, SeparationPreserved, AuditPreserved, AnswersPreserved
DEF GateInvariant

(* Every promise of the gate that is about a state holds in every state of *)
(* every behaviour: types, days within the limit, one open proposal,       *)
(* booked days, separation of duties and the audit trail.                  *)
THEOREM GateInvariantHolds == Spec => []GateInvariant
<1>1. Init => GateInvariant
    BY InvariantInitially
<1>2. GateInvariant /\ [Next]_vars => GateInvariant'
    BY InvariantPreserved
<1> QED
    BY <1>1, <1>2, PTL DEF Spec

(* hr_it.py, approval.py: days booked and waiting stay within an account   *)
(* that nobody changed from outside.                                       *)
THEOREM ReservationHolds == Spec => []ReservedWithinLimit
<1>1. GateInvariant => ReservedWithinLimit
    BY DEF GateInvariant
<1> QED
    BY <1>1, GateInvariantHolds, PTL

(* approval.py: nobody decides on their own request, whatever runs at the  *)
(* same time.                                                              *)
THEOREM SeparationHolds == Spec => []SeparationOfDuties
<1>1. GateInvariant => SeparationOfDuties
    BY DEF GateInvariant
<1> QED
    BY <1>1, GateInvariantHolds, PTL

(* approval.py: approved_days is what was executed, once per action.       *)
THEOREM BookedMatchesHolds == Spec => []BookedMatchesExecuted
<1>1. GateInvariant => BookedMatchesExecuted
    BY DEF GateInvariant
<1> QED
    BY <1>1, GateInvariantHolds, PTL

(* hr_it.py: the same request never waits twice, however many calls of one *)
(* employee run at once.                                                   *)
THEOREM OneOpenHolds == Spec => []OneOpenProposal
<1>1. GateInvariant => OneOpenProposal
    BY DEF GateInvariant
<1> QED
    BY <1>1, GateInvariantHolds, PTL

(* approval.py, audit.py: the events of an action tell what became of it,  *)
(* whatever failed on the way.                                             *)
THEOREM AuditHolds == Spec => []AuditTellsTheStory
<1>1. GateInvariant => AuditTellsTheStory
    BY DEF GateInvariant
<1> QED
    BY <1>1, GateInvariantHolds, PTL

-----------------------------------------------------------------------------
(* What a step may never do.                                               *)

(* approval.py: a leave is booked only while it fits in its account.       *)
LEMMA BookingStepFits ==
    ASSUME GateInvariant, [Next]_vars, NEW x \in Accounts, approvedDays'[x] > approvedDays[x]
    PROVE  x \in onRecord /\ approvedDays'[x] <= limit'[x]
<1>1. approvedDays[x] \in Nat
    BY DEF GateInvariant, TypeOK
<1>2. PICK d \in Deciders : CommitExecution(d)
    <2>1. ~(approvedDays' = approvedDays)
        BY <1>1
    <2>2. ~ \E c \in Calls : CommitProposal(c)
        BY <2>1 DEF CommitProposal
    <2>3. ~ \E d \in Deciders : CommitRejection(d)
        BY <2>1 DEF CommitRejection
    <2> QED
        BY <2>1, <2>2, <2>3, OtherStepsKeepActions DEF actionVars
<1> DEFINE a == decision[d].action
<1>3. a \in Calls /\ TypeOK /\ BookedDaysFit
    BY DEF GateInvariant, TypeOK, Decisions
<1>4. /\ approvedDays'[x] = approvedDays[x] + DaysAsked(asks[a], x)
      /\ limit' = limit
    BY <1>2 DEF CommitExecution, DaysBooked, rowVars
<1>5. DrawsOn(asks[a], x)
    BY <1>1, <1>3, <1>4, DayNumbers
<1>6. HoldsBalance(d, x)
    BY <1>2, <1>5 DEF HoldsBalance, CommitExecution
<1>7. x \in onRecord /\ approvedDays[x] + Days[asks[a].payload] <= limit[x]
    BY <1>3, <1>6 DEF BookedDaysFit
<1> QED
    BY <1>3, <1>4, <1>5, <1>7, DayNumbers

THEOREM BookingFitsHolds == Spec => BookingFits
<1>1. GateInvariant /\ [Next]_vars =>
         [\A x \in Accounts :
             approvedDays'[x] > approvedDays[x] =>
                x \in onRecord /\ approvedDays'[x] <= limit'[x]]_vars
    BY BookingStepFits
<1> QED
    BY <1>1, GateInvariantHolds, PTL DEF Spec, BookingFits

(* approval.py: a decided action is never decided again.                   *)
LEMMA DecisionStepFinal ==
    ASSUME GateInvariant, [Next]_vars, NEW a \in Calls, status[a] \in {"rejected", "executed"}
    PROVE  status'[a] = status[a] /\ decidedBy'[a] = decidedBy[a] /\ trail'[a] = trail[a]
<1>1. ASSUME NEW c \in Calls, CommitProposal(c)
      PROVE  a # c
    BY <1>1 DEF GateInvariant, AnswersHaveRows, CommitProposal
<1>2. ASSUME NEW d \in Deciders, CommitRejection(d) \/ CommitExecution(d)
      PROVE  a # decision[d].action
    BY <1>2 DEF GateInvariant, DecidersKnow, HoldsAction, CommitRejection, CommitExecution
<1>3. CASE \E c \in Calls : CommitProposal(c)
    BY <1>1, <1>3 DEF CommitProposal, GateInvariant, TypeOK
<1>4. CASE \E d \in Deciders : CommitRejection(d)
    BY <1>2, <1>4 DEF CommitRejection, GateInvariant, TypeOK
<1>5. CASE \E d \in Deciders : CommitExecution(d)
    BY <1>2, <1>5 DEF CommitExecution, GateInvariant, TypeOK
<1>6. CASE UNCHANGED actionVars
    BY <1>6 DEF actionVars
<1> QED
    BY <1>3, <1>4, <1>5, <1>6, OtherStepsKeepActions

THEOREM DecisionsAreFinalHolds == Spec => DecisionsAreFinal
<1>1. GateInvariant /\ [Next]_vars =>
         [\A a \in Calls :
             status[a] \in {"rejected", "executed"} =>
                /\ status'[a] = status[a]
                /\ decidedBy'[a] = decidedBy[a]
                /\ trail'[a] = trail[a]]_vars
    BY DecisionStepFinal
<1> QED
    BY <1>1, GateInvariantHolds, PTL DEF Spec, DecisionsAreFinal

-----------------------------------------------------------------------------
(* The interleaved write gate implements the atomic one: each commit is the *)
(* step of ApprovalGate that it stands for, and every other step changes    *)
(* nothing ApprovalGate can see.                                            *)

(* Both specifications count the same days.                                *)
LEMMA SameOperators ==
    /\ Gate!Accounts = Accounts
    /\ Gate!Requests = Requests
    /\ Gate!Pending = Pending
    /\ \A r, x : Gate!DrawsOn(r, x) <=> DrawsOn(r, x)
    /\ \A r, x : Gate!DaysAsked(r, x) = DaysAsked(r, x)
    /\ \A x : Gate!Awaiting(x) = Awaiting(x)
<1>1. /\ Gate!Accounts = Accounts
      /\ Gate!Requests = Requests
      /\ Gate!Pending = Pending
    BY DEF Gate!Accounts, Accounts, Gate!Requests, Requests, Gate!Pending, Pending
<1>2. \A r, x : Gate!DrawsOn(r, x) <=> DrawsOn(r, x)
    BY DEF Gate!DrawsOn, DrawsOn, Gate!IsLeave, IsLeave, Gate!Account, Account
<1>3. \A r, x : Gate!DaysAsked(r, x) = DaysAsked(r, x)
    BY <1>2 DEF Gate!DaysAsked, DaysAsked
<1>4. \A S, x : Gate!DayTokens(asks, S, x) = DayTokens(asks, S, x)
    BY <1>2 DEF Gate!DayTokens, DayTokens
<1>5. \A S : Gate!Cardinality(S) = Cardinality(S)
    BY DEF Gate!Cardinality, Cardinality
<1>6. \A x : Gate!Awaiting(x) = Awaiting(x)
    BY <1>1, <1>4, <1>5 DEF Gate!Awaiting, Awaiting, Gate!TotalDays, TotalDays
<1> QED
    BY <1>1, <1>2, <1>3, <1>6

(* What the atomic gate sees of a call that goes on to pc.                 *)
LEMMA AnswerGoes ==
    ASSUME TypeOK, NEW c \in Calls, NEW pc, CallGoesTo(c, pc)
    PROVE  [o \in Calls |-> Told(callPc'[o])]
              = [[o \in Calls |-> Told(callPc[o])] EXCEPT ![c] = Told(pc)]
BY DEF TypeOK, CallGoesTo

LEMMA WhatIsTold ==
    /\ \A pc \in {"new", "locked", "no_duplicate", "proposing", "failed"} : Told(pc) = "none"
    /\ Told("proposed") = "proposed"
    /\ Told("repeating") = "already_sent" /\ Told("already_sent") = "already_sent"
    /\ Told("declining") = "not_proposed" /\ Told("not_proposed") = "not_proposed"
BY DEF Told

(* A step that settles nothing, and one that settles what is said.         *)
LEMMA SaysNothing ==
    ASSUME TypeOK, NEW c \in Calls, NEW pc, CallGoesTo(c, pc), Told(pc) = Told(callPc[c])
    PROVE  [o \in Calls |-> Told(callPc'[o])] = [o \in Calls |-> Told(callPc[o])]
BY AnswerGoes

LEMMA SaysNow ==
    ASSUME TypeOK, NEW c \in Calls, NEW pc, CallGoesTo(c, pc), Told(callPc[c]) = "none"
    PROVE  Gate!Gives(c, Told(pc))
BY AnswerGoes DEF Gate!Gives

LEMMA InitRefines == Init => Gate!Init
<1> SUFFICES ASSUME Init PROVE Gate!Init
    OBVIOUS
<1>1. TypeOK
    BY InvariantInitially DEF GateInvariant
<1>2. [c \in Calls |-> Told(callPc[c])] = [c \in Calls |-> "none"]
    BY WhatIsTold DEF Init
<1> QED
    BY <1>1, <1>2, SameOperators DEF Init, Gate!Init, TypeOK

(* A committed proposal is a proposal of the atomic gate: what the call    *)
(* read under its lock is still true when it commits.                      *)
LEMMA ProposalRefines ==
    ASSUME GateInvariant, NEW c \in Calls, CommitProposal(c)
    PROVE  Gate!Propose(c)
<1>1. status[c] = "none" /\ HoldsRequester(c)
    BY DEF GateInvariant, AnswersHaveRows, CommitProposal, HoldsRequester, CallRunning
<1>2. asks[c].payload \notin Unacceptable /\ \A a \in Pending : asks[a] # asks[c]
    BY <1>1 DEF GateInvariant, CallsKnow, CommitProposal
<1>3. \A x \in Accounts \ corrected :
         DrawsOn(asks[c], x) =>
            /\ x \in onRecord
            /\ approvedDays[x] + Awaiting(x) + Days[asks[c].payload] <= limit[x]
    BY DEF GateInvariant, ProposedDaysFit, CommitProposal
<1>4. Gate!Gives(c, "proposed")
    BY SaysNow, WhatIsTold DEF GateInvariant, CommitProposal
<1> QED
    BY <1>1, <1>2, <1>3, <1>4, SameOperators DEF Gate!Propose, CommitProposal, rowVars, Gate!accounts

(* The statement that finds an equal request is the answer "already sent", *)
(* given while that request waits.                                         *)
LEMMA FindingRefines ==
    ASSUME GateInvariant, NEW c \in Calls, FindPending(c)
    PROVE  Gate!AnswerAlreadySent(c) \/ UNCHANGED Gate!vars
<1> USE DEF Gate!rows, Gate!accounts, Gate!answers, actionVars, rowVars
<1>1. TypeOK /\ Told(callPc[c]) = "none"
    BY WhatIsTold DEF GateInvariant, FindPending
<1>2. CASE \E a \in Pending : /\ asks[a] = asks[c]
                              /\ existing' = [existing EXCEPT ![c] = a]
                              /\ CallGoesTo(c, "repeating")
    <2>1. Gate!Gives(c, "already_sent")
        BY <1>1, <1>2, SaysNow, WhatIsTold
    <2> QED
        BY <1>2, <2>1, SameOperators DEF Gate!AnswerAlreadySent, FindPending
<1>3. CASE /\ CallGoesTo(c, IF IsLeave(asks[c]) THEN "no_duplicate" ELSE "proposing")
           /\ UNCHANGED existing
    <2>1. [o \in Calls |-> Told(callPc'[o])] = [o \in Calls |-> Told(callPc[o])]
        BY <1>1, <1>3, SaysNothing, WhatIsTold
    <2> QED
        BY <1>3, <2>1 DEF Gate!vars, FindPending
<1> QED
    BY <1>2, <1>3 DEF FindPending

(* The statement that reads the balance refuses what does not fit then;    *)
(* under the lock no equal request has come to wait meanwhile.             *)
LEMMA ReadingRefines ==
    ASSUME GateInvariant, NEW c \in Calls, ReadBalance(c)
    PROVE  Gate!Decline(c) \/ UNCHANGED Gate!vars
<1> USE DEF Gate!rows, Gate!accounts, Gate!answers, actionVars, rowVars
<1> DEFINE x == Account(asks[c])
           fits == x \in onRecord /\ Days[asks[c].payload] <= Remaining(x)
<1>1. TypeOK /\ Told(callPc[c]) = "none"
    BY WhatIsTold DEF GateInvariant, ReadBalance
<1>2. /\ IsLeave(asks[c])
      /\ \A a \in Pending : asks[a] # asks[c]
    BY DEF GateInvariant, CallsKnow, ReadBalance
<1>3. CASE fits
    <2>1. [o \in Calls |-> Told(callPc'[o])] = [o \in Calls |-> Told(callPc[o])]
        BY <1>1, <1>3, SaysNothing, WhatIsTold DEF ReadBalance
    <2> QED
        BY <2>1 DEF Gate!vars, ReadBalance
<1>4. CASE ~fits
    <2>1. Gate!Gives(c, "not_proposed")
        BY <1>1, <1>4, SaysNow, WhatIsTold DEF ReadBalance
    <2>2. x \in Accounts /\ DrawsOn(asks[c], x)
        BY <1>1, <1>2, PayloadAssumption
        DEF TypeOK, Requests, IsLeave, Account, Accounts, DrawsOn
    <2>3. x \notin onRecord \/ approvedDays[x] + Awaiting(x) + Days[asks[c].payload] > limit[x]
        <3>1. /\ approvedDays[x] \in Nat /\ limit[x] \in Int
              /\ Awaiting(x) \in Nat /\ Days[asks[c].payload] \in Nat
            BY <1>1, <1>2, <2>2, PayloadAssumption, DayNumbers DEF TypeOK, IsLeave
        <3> QED
            BY <1>4, <3>1 DEF Remaining
    <2> QED
        BY <1>2, <2>1, <2>2, <2>3, SameOperators DEF Gate!Decline, ReadBalance
<1> QED
    BY <1>3, <1>4

(* An abort takes back what was said, if anything was.                     *)
LEMMA AbortRefines ==
    ASSUME GateInvariant, NEW c \in Calls, AbortCall(c)
    PROVE  Gate!LoseAnswer(c) \/ UNCHANGED Gate!vars
<1> USE DEF Gate!rows, Gate!accounts, Gate!answers, actionVars, rowVars
<1>1. TypeOK /\ callPc[c] \in CallRunning
    BY DEF GateInvariant, AbortCall
<1>2. CASE callPc[c] \in {"repeating", "declining"}
    <2>1. [o \in Calls |-> Told(callPc'[o])]
             = [[o \in Calls |-> Told(callPc[o])] EXCEPT ![c] = "none"]
        BY <1>1, AnswerGoes, WhatIsTold DEF AbortCall
    <2>2. Told(callPc[c]) \in {"already_sent", "not_proposed"}
        BY <1>2, WhatIsTold
    <2> QED
        BY <2>1, <2>2 DEF Gate!LoseAnswer, AbortCall
<1>3. CASE callPc[c] \notin {"repeating", "declining"}
    <2>1. callPc[c] \in {"new", "locked", "no_duplicate", "proposing"}
        BY <1>1, <1>3 DEF CallRunning
    <2>2. [o \in Calls |-> Told(callPc'[o])] = [o \in Calls |-> Told(callPc[o])]
        BY <1>1, <2>1, SaysNothing, WhatIsTold DEF AbortCall
    <2>3. existing[c] = NoAction
        BY <2>1 DEF GateInvariant, AnswersHaveRows
    <2>4. existing' = existing
        BY <1>1, <2>3 DEF TypeOK, AbortCall
    <2> QED
        BY <2>2, <2>4 DEF Gate!vars, AbortCall
<1> QED
    BY <1>2, <1>3

LEMMA CallRefines ==
    ASSUME GateInvariant, NEW c \in Calls, QuietCall(c)
    PROVE  Gate!Next \/ UNCHANGED Gate!vars
<1> USE DEF Gate!rows, Gate!accounts, Gate!answers, actionVars, rowVars
<1>1. TypeOK
    BY DEF GateInvariant
<1>2. CASE RefuseArguments(c)
    <2>1. Gate!Gives(c, "not_proposed")
        BY <1>1, <1>2, SaysNow, WhatIsTold DEF RefuseArguments
    <2>2. Gate!Decline(c)
        BY <1>2, <2>1 DEF Gate!Decline, RefuseArguments
    <2> QED
        BY <2>2 DEF Gate!Next
<1>3. CASE LockRequester(c)
    <2>1. [o \in Calls |-> Told(callPc'[o])] = [o \in Calls |-> Told(callPc[o])]
        BY <1>1, <1>3, SaysNothing, WhatIsTold DEF LockRequester
    <2> QED
        BY <1>3, <2>1 DEF Gate!vars, LockRequester
<1>4. CASE CommitAnswer(c)
    <2>1. [o \in Calls |-> Told(callPc'[o])] = [o \in Calls |-> Told(callPc[o])]
        BY <1>1, <1>4, SaysNothing, WhatIsTold DEF CommitAnswer
    <2> QED
        BY <1>4, <2>1 DEF Gate!vars, CommitAnswer
<1> QED
    BY <1>2, <1>3, <1>4, FindingRefines, ReadingRefines, AbortRefines DEF QuietCall, Gate!Next

LEMMA DecisionRefines ==
    ASSUME GateInvariant, NEW d \in Deciders, CommitRejection(d) \/ CommitExecution(d)
    PROVE  \E a \in Calls : \E e \in Employees : Gate!Reject(a, e) \/ Gate!Execute(a, e)
<1> DEFINE a == decision[d].action
           e == decision[d].approver
<1>1. /\ a \in Calls /\ e \in Employees
      /\ e \in Approvers \ {asks[a].employee}
      /\ status[a] = "pending_approval"
    BY DEF GateInvariant, TypeOK, Decisions, DecidersKnow, HoldsAction, CommitRejection,
        CommitExecution, Proposer
<1>2. CASE CommitRejection(d)
    <2>1. Gate!Reject(a, e)
        BY <1>1, <1>2 DEF Gate!Reject, CommitRejection, rowVars, callVars, Gate!accounts, Gate!answers
    <2> QED
        BY <1>1, <2>1
<1>3. CASE CommitExecution(d)
    <2>1. \A x \in Accounts :
             DrawsOn(asks[a], x) =>
                /\ x \in onRecord
                /\ approvedDays[x] + Days[asks[a].payload] <= limit[x]
        BY <1>3 DEF GateInvariant, BookedDaysFit, HoldsBalance, CommitExecution
    <2>2. Gate!Execute(a, e)
        BY <1>1, <1>3, <2>1, SameOperators
        DEF Gate!Execute, CommitExecution, DaysBooked, rowVars, callVars, Gate!accounts, Gate!answers
    <2> QED
        BY <1>1, <2>2
<1> QED
    BY <1>2, <1>3

LEMMA StepRefines ==
    ASSUME GateInvariant, [Next]_vars
    PROVE  [Gate!Next]_(Gate!vars)
<1> USE DEF Gate!rows, Gate!accounts, Gate!answers, callVars, actionVars, rowVars
<1>1. ASSUME NEW c \in Calls, QuietCall(c)
      PROVE  [Gate!Next]_(Gate!vars)
    BY <1>1, CallRefines
<1>2. ASSUME NEW d \in Deciders, QuietDecide(d)
      PROVE  UNCHANGED Gate!vars
    BY <1>2, QuietDecideFrame DEF Gate!vars
<1>3. ASSUME NEW c \in Calls, CommitProposal(c)
      PROVE  Gate!Next
    BY <1>3, ProposalRefines DEF Gate!Next
<1>4. ASSUME NEW d \in Deciders, CommitRejection(d) \/ CommitExecution(d)
      PROVE  Gate!Next
    BY <1>4, DecisionRefines DEF Gate!Next
<1>5. ASSUME NEW x \in Accounts, CorrectBalance(x)
      PROVE  Gate!Next
    <2>1. Gate!Correct(x)
        BY <1>5 DEF CorrectBalance, Gate!Correct
    <2> QED
        BY <2>1, SameOperators DEF Gate!Next
<1>6. ASSUME NEW x \in Accounts, RemoveBalance(x)
      PROVE  Gate!Next
    <2>1. Gate!Remove(x)
        BY <1>6 DEF RemoveBalance, Gate!Remove
    <2> QED
        BY <2>1, SameOperators DEF Gate!Next
<1>7. CASE UNCHANGED vars
    BY <1>7 DEF vars, Gate!vars
<1> QED
    BY <1>1, <1>2, <1>3, <1>4, <1>5, <1>6, <1>7, StepCases

(* hr_it.py and approval.py behave as if every tool call and every         *)
(* decision were one atomic step.                                          *)
THEOREM GateSpecHolds == Spec => GateSpec
<1>1. Init => Gate!Init
    BY InitRefines
<1>2. GateInvariant /\ [Next]_vars => [Gate!Next]_(Gate!vars)
    BY StepRefines
<1> QED
    BY <1>1, <1>2, GateInvariantHolds, PTL DEF Spec, GateSpec, Gate!Spec

=============================================================================
