------------------------- MODULE Reconciliation_proofs -------------------------
(***************************************************************************)
(* For any requests, rows, checks and times: no row is flagged twice, none *)
(* is missed, and only rows of dead requests are flagged, and of those     *)
(* whose waiting may have outlasted the grace period.                      *)
(***************************************************************************)
EXTENDS Reconciliation, TLAPS

USE ReconciliationAssumption

(* An answer less to ask for takes one CallTime off what may be waited for. *)
LEMMA OneCallLess ==
    ASSUME NEW n \in Nat, n > 0
    PROVE  CallTime + (n - 1) * CallTime = n * CallTime
    OBVIOUS

LEMMA MoreCallsTakeLonger ==
    ASSUME NEW m \in Nat, NEW n \in Nat, m <= n
    PROVE  m * CallTime <= n * CallTime
<1>1. n * CallTime = m * CallTime + (n - m) * CallTime
    OBVIOUS
<1>2. (n - m) * CallTime >= 0
    OBVIOUS
<1>3. m * CallTime \in Int /\ n * CallTime \in Int /\ (n - m) * CallTime \in Int
    OBVIOUS
<1> QED BY <1>1, <1>2, <1>3

LEMMA InvInit == Init => ReconciliationInvariant
<1> SUFFICES ASSUME Init PROVE ReconciliationInvariant
    OBVIOUS
<1>1. TypeOK
    BY DEF Init, TypeOK, Phases, CheckRunning, CheckEnded
<1>2. Saved = {}
    BY DEF Init, Saved
<1>3. ChecksExclude /\ FoundIsOld /\ NothingOldLeft /\ FlaggedOnce /\ NoOrphanIsMissed
    BY DEF Init, ChecksExclude, FoundIsOld, NothingOldLeft, HoldsCheck, FlaggedOnce,
        NoOrphanIsMissed
<1>4. ClocksAgree /\ RunningIsRecent
    BY <1>2 DEF Init, ClocksAgree, RunningIsRecent
<1> QED BY <1>1, <1>3, <1>4 DEF ReconciliationInvariant

-----------------------------------------------------------------------------
(* Steps of requests and of the clock. *)

LEMMA TypeNext == TypeOK /\ [Next]_vars => TypeOK'
<1> SUFFICES ASSUME TypeOK, [Next]_vars PROVE TypeOK'
    OBVIOUS
<1> USE DEF TypeOK, Phases, CheckRunning, CheckEnded, CheckGoesTo, requestVars, checkVars
<1>1. CASE Tick
    BY <1>1 DEF Tick
<1>2. ASSUME NEW r \in Requests, CallAgain(r) PROVE TypeOK'
    <2>1. createdAt' \in [Actions -> Nat \cup {NoTime}]
        BY <1>2 DEF CallAgain
    <2>2. callsLeft' \in [Requests -> 0..MaxCalls] /\ answerBy' \in [Requests -> Nat]
        BY <1>2 DEF CallAgain
    <2> QED BY <1>2, <2>1, <2>2 DEF CallAgain
<1>3. ASSUME NEW r \in Requests, SaveRecord(r) \/ Crash(r) PROVE TypeOK'
    BY <1>3 DEF SaveRecord, Crash
<1>4. ASSUME NEW k \in Checkers, StartCheck(k) \/ LockCheck(k) \/ AbortCheck(k) PROVE TypeOK'
    BY <1>4 DEF StartCheck, LockCheck, AbortCheck
<1>5. ASSUME NEW k \in Checkers, SelectOrphans(k) PROVE TypeOK'
    BY <1>5 DEF SelectOrphans, Orphans, Saved
<1>6. ASSUME NEW k \in Checkers, CommitFlags(k) PROVE TypeOK'
    BY <1>6 DEF CommitFlags
<1>7. CASE UNCHANGED vars
    BY <1>7 DEF vars
<1> QED BY <1>1, <1>2, <1>3, <1>4, <1>5, <1>6, <1>7 DEF Next, CheckStep

(* A step of a request leaves the checks alone and adds rows that are new. *)
LEMMA RequestStep ==
    ASSUME ReconciliationInvariant, TypeOK', UNCHANGED <<now, checkVars>>,
           Saved \subseteq Saved',
           \A a \in Saved : createdAt'[a] = createdAt[a],
           \A a \in Saved' \ Saved : createdAt'[a] = now,
           \A q \in Requests : phase[q] # "running" => phase'[q] = phase[q],
           RunningIsRecent'
    PROVE  ReconciliationInvariant'
<1>1. /\ TypeOK /\ ChecksExclude /\ FoundIsOld /\ NothingOldLeft /\ ClocksAgree
      /\ FlaggedOnce /\ NoOrphanIsMissed
    BY DEF ReconciliationInvariant
<1>2. ASSUME NEW a \in Saved', NEW k \in Checkers, createdAt'[a] < startedAt[k] - Grace
      PROVE  a \in Saved /\ createdAt'[a] = createdAt[a]
    BY <1>1, <1>2 DEF ClocksAgree, TypeOK
<1>3. ASSUME NEW a \in Saved, ~Explained(a)' PROVE ~Explained(a)
    BY <1>1, <1>3 DEF Explained, TypeOK, Saved
<1>4. ChecksExclude' /\ FlaggedOnce'
    BY <1>1 DEF ChecksExclude, HoldsCheck, FlaggedOnce, checkVars
<1>5. FoundIsOld'
    BY <1>1 DEF FoundIsOld, checkVars
<1>6. NothingOldLeft'
    <2> SUFFICES ASSUME NEW k \in Checkers, NEW a \in Saved', checkPc'[k] = "flagging",
                        createdAt'[a] < startedAt'[k] - Grace, ~Explained(a)'
                 PROVE  a \in found'[k] \/ flags'[a] > 0
        BY DEF NothingOldLeft
    <2>1. a \in Saved /\ createdAt'[a] = createdAt[a] /\ ~Explained(a)
        BY <1>2, <1>3 DEF checkVars
    <2> QED BY <1>1, <2>1 DEF NothingOldLeft, checkVars
<1>7. NoOrphanIsMissed'
    <2> SUFFICES ASSUME NEW k \in Checkers, NEW a \in Saved', checkPc'[k] = "done",
                        createdAt'[a] < startedAt'[k] - Grace, ~Explained(a)'
                 PROVE  flags'[a] > 0
        BY DEF NoOrphanIsMissed
    <2>1. a \in Saved /\ createdAt'[a] = createdAt[a] /\ ~Explained(a)
        BY <1>2, <1>3 DEF checkVars
    <2> QED BY <1>1, <2>1 DEF NoOrphanIsMissed, checkVars
<1>8. ClocksAgree'
    BY <1>1 DEF ClocksAgree, TypeOK, checkVars
<1> QED BY <1>4, <1>5, <1>6, <1>7, <1>8 DEF ReconciliationInvariant

LEMMA CallAgainKeeps ==
    ASSUME ReconciliationInvariant, TypeOK', NEW r \in Requests, CallAgain(r)
    PROVE  ReconciliationInvariant'
<1>1. TypeOK /\ RunningIsRecent /\ ClocksAgree
    BY DEF ReconciliationInvariant
<1>2. PICK new \in SUBSET {a \in Actions \ Saved : RequestOf[a] = r} :
         createdAt' = [a \in Actions |-> IF a \in new THEN now ELSE createdAt[a]]
    BY DEF CallAgain
<1>3. Saved' = Saved \cup new
    BY <1>1, <1>2 DEF Saved, TypeOK
<1>4. \A a \in Saved : createdAt'[a] = createdAt[a]
    BY <1>2 DEF Saved
<1>5. \A a \in Saved' \ Saved : createdAt'[a] = now
    BY <1>2, <1>3
<1>6. RunningIsRecent'
    <2> SUFFICES ASSUME NEW q \in Requests, phase'[q] = "running"
                 PROVE  /\ now' <= answerBy'[q]
                        /\ \A a \in Saved' : RequestOf[a] = q =>
                              answerBy'[q] + callsLeft'[q] * CallTime
                                 <= createdAt'[a] + MaxCalls * CallTime
        BY DEF RunningIsRecent
    <2>1. now' = now /\ phase' = phase
        BY DEF CallAgain
    <2>2. CASE q # r
        <3>1. answerBy'[q] = answerBy[q] /\ callsLeft'[q] = callsLeft[q]
            BY <1>1, <2>2 DEF CallAgain, TypeOK
        <3>2. \A a \in Saved' : RequestOf[a] = q => a \in Saved
            BY <1>3, <2>2
        <3> QED BY <1>1, <1>4, <2>1, <3>1, <3>2 DEF RunningIsRecent
    <2>3. CASE q = r
        <3> DEFINE n == callsLeft[r]
        <3>1. /\ n \in Nat /\ n > 0 /\ n <= MaxCalls /\ now \in Nat
              /\ answerBy'[r] = now + CallTime /\ callsLeft'[r] = n - 1
            BY <1>1 DEF CallAgain, TypeOK
        <3> HIDE DEF n
        <3>2. CallTime + (n - 1) * CallTime = n * CallTime
            BY <3>1, OneCallLess
        <3>3. n * CallTime <= MaxCalls * CallTime
            BY <3>1, MoreCallsTakeLonger
        <3>4. /\ n * CallTime \in Int /\ MaxCalls * CallTime \in Int
              /\ (n - 1) * CallTime \in Int
            BY <3>1
        <3>5. answerBy'[r] + callsLeft'[r] * CallTime = now + n * CallTime
            BY <3>1, <3>2, <3>4
        <3>6. ASSUME NEW a \in Saved', RequestOf[a] = r
              PROVE  now + n * CallTime <= createdAt'[a] + MaxCalls * CallTime
            <4>1. CASE a \in Saved
                <5>1. /\ now <= answerBy[r]
                      /\ answerBy[r] + n * CallTime <= createdAt[a] + MaxCalls * CallTime
                    BY <1>1, <2>1, <2>3, <3>6, <4>1 DEF RunningIsRecent, n
                <5>2. answerBy[r] \in Int /\ createdAt[a] \in Int
                    BY <1>1, <4>1 DEF TypeOK, Saved
                <5> QED BY <1>4, <3>1, <3>4, <4>1, <5>1, <5>2
            <4>2. CASE a \notin Saved
                BY <1>5, <3>1, <3>3, <3>4, <4>2
            <4> QED BY <4>1, <4>2
        <3> QED BY <2>1, <2>3, <3>1, <3>5, <3>6
    <2> QED BY <2>2, <2>3
<1>7. UNCHANGED <<now, checkVars>> /\ phase' = phase
    BY DEF CallAgain
<1>8. Saved \subseteq Saved'
    BY <1>3
<1> QED BY <1>4, <1>5, <1>6, <1>7, <1>8, RequestStep

LEMMA EndKeeps ==
    ASSUME ReconciliationInvariant, TypeOK', NEW r \in Requests, SaveRecord(r) \/ Crash(r)
    PROVE  ReconciliationInvariant'
<1>1. /\ UNCHANGED <<now, callsLeft, answerBy, createdAt, checkVars>>
      /\ \A q \in Requests : phase[q] # "running" => phase'[q] = phase[q]
      /\ \A q \in Requests : phase'[q] = "running" => phase[q] = "running"
    BY DEF SaveRecord, Crash, ReconciliationInvariant, TypeOK
<1>2. Saved' = Saved
    BY <1>1 DEF Saved
<1>3. RunningIsRecent'
    BY <1>1, <1>2 DEF ReconciliationInvariant, RunningIsRecent
<1> QED BY <1>1, <1>2, <1>3, RequestStep

LEMMA TickKeeps ==
    ASSUME ReconciliationInvariant, TypeOK', Tick
    PROVE  ReconciliationInvariant'
<1>1. UNCHANGED <<requestVars, checkVars>> /\ now' = now + 1 /\ TypeOK
    BY DEF Tick, ReconciliationInvariant
<1>2. ClocksAgree'
    BY <1>1 DEF ReconciliationInvariant, ClocksAgree, Saved, requestVars, checkVars, TypeOK
<1>3. RunningIsRecent'
    <2>1. \A r \in Requests : phase'[r] = "running" => now' <= answerBy'[r]
        BY <1>1 DEF Tick, requestVars, TypeOK
    <2> QED BY <1>1, <2>1 DEF ReconciliationInvariant, RunningIsRecent, Saved, requestVars
<1> QED BY <1>1, <1>2, <1>3
    DEF ReconciliationInvariant, ChecksExclude, FoundIsOld, NothingOldLeft, FlaggedOnce,
        NoOrphanIsMissed, HoldsCheck, Saved, Explained, requestVars, checkVars

-----------------------------------------------------------------------------
(* Steps of a check. *)

LEMMA CheckKeeps ==
    ASSUME ReconciliationInvariant, TypeOK', NEW k \in Checkers, CheckStep(k) \/ AbortCheck(k)
    PROVE  ReconciliationInvariant'
<1>1. /\ TypeOK /\ ChecksExclude /\ FoundIsOld /\ NothingOldLeft /\ ClocksAgree
      /\ RunningIsRecent /\ FlaggedOnce /\ NoOrphanIsMissed
    BY DEF ReconciliationInvariant
<1>2. UNCHANGED <<now, requestVars>>
    BY DEF CheckStep, StartCheck, LockCheck, SelectOrphans, CommitFlags, AbortCheck
<1>3. Saved' = Saved /\ createdAt' = createdAt /\ \A a \in Actions : Explained(a)' = Explained(a)
    BY <1>2 DEF Saved, Explained, requestVars
<1>4. RunningIsRecent'
    BY <1>1, <1>2, <1>3 DEF RunningIsRecent, requestVars
<1>5. \A o \in Checkers : o # k => checkPc'[o] = checkPc[o] /\ startedAt'[o] = startedAt[o] /\ found'[o] = found[o]
    BY <1>1 DEF CheckStep, StartCheck, LockCheck, SelectOrphans, CommitFlags, AbortCheck,
        CheckGoesTo, TypeOK
<1>6. CASE StartCheck(k) \/ LockCheck(k) \/ AbortCheck(k)
    <2>1. /\ checkPc'[k] \in {"waiting", "locked", "failed"} /\ flags' = flags
          /\ startedAt'[k] = startedAt[k] \/ startedAt'[k] = now
        BY <1>1, <1>6 DEF StartCheck, LockCheck, AbortCheck, CheckGoesTo, TypeOK
    <2>2. ChecksExclude'
        <3>1. checkPc'[k] = "locked" => \A o \in Checkers : ~HoldsCheck(o)
            BY <1>1, <1>6 DEF StartCheck, LockCheck, AbortCheck, CheckGoesTo, TypeOK
        <3> QED BY <1>1, <1>5, <2>1, <3>1 DEF ChecksExclude, HoldsCheck
    <2>3. FoundIsOld' /\ NothingOldLeft' /\ NoOrphanIsMissed' /\ FlaggedOnce'
        BY <1>1, <1>3, <1>5, <2>1 DEF FoundIsOld, NothingOldLeft, NoOrphanIsMissed, FlaggedOnce, Saved
    <2>4. ClocksAgree'
        BY <1>1, <1>2, <1>3, <1>5, <2>1 DEF ClocksAgree, TypeOK
    <2> QED BY <1>4, <2>2, <2>3, <2>4 DEF ReconciliationInvariant
<1>7. CASE SelectOrphans(k)
    <2>1. /\ checkPc[k] = "locked" /\ checkPc'[k] = "flagging" /\ flags' = flags
          /\ startedAt' = startedAt /\ found'[k] = Orphans(k)
        BY <1>1, <1>7 DEF SelectOrphans, CheckGoesTo, TypeOK
    <2>2. ChecksExclude'
        BY <1>1, <1>5, <2>1 DEF ChecksExclude, HoldsCheck
    <2>3. FoundIsOld'
        BY <1>1, <1>3, <1>5, <2>1 DEF FoundIsOld, Orphans
    <2>4. NothingOldLeft'
        BY <1>1, <1>3, <1>5, <2>1 DEF NothingOldLeft, Orphans, Saved, TypeOK
    <2>5. NoOrphanIsMissed' /\ FlaggedOnce' /\ ClocksAgree'
        BY <1>1, <1>2, <1>3, <1>5, <2>1 DEF NoOrphanIsMissed, FlaggedOnce, ClocksAgree, Saved
    <2> QED BY <1>4, <2>2, <2>3, <2>4, <2>5 DEF ReconciliationInvariant
<1>8. CASE CommitFlags(k)
    <2>1. /\ checkPc[k] = "flagging" /\ checkPc'[k] = "done" /\ startedAt' = startedAt
          /\ found' = found
          /\ flags' = [a \in Actions |-> IF a \in found[k] THEN flags[a] + 1 ELSE flags[a]]
        BY <1>1, <1>8 DEF CommitFlags, CheckGoesTo, TypeOK
    <2>2. \A o \in Checkers : o # k => ~HoldsCheck(o) /\ ~HoldsCheck(o)'
        BY <1>1, <1>5, <2>1 DEF ChecksExclude, HoldsCheck
    <2>3. ~HoldsCheck(k)'
        BY <2>1 DEF HoldsCheck
    <2>4. ChecksExclude'
        BY <2>2, <2>3 DEF ChecksExclude
    <2>5. \A a \in Actions : flags[a] > 0 => flags'[a] > 0
        BY <1>1, <2>1 DEF TypeOK
    <2>6. \A a \in found[k] : a \in Actions /\ flags[a] = 0 /\ flags'[a] = 1
        BY <1>1, <2>1 DEF FoundIsOld, TypeOK, Saved
    <2>7. FoundIsOld' /\ NothingOldLeft'
        BY <1>1, <1>3, <1>5, <2>1, <2>2, <2>3 DEF FoundIsOld, NothingOldLeft, HoldsCheck
    <2>8. FlaggedOnce'
        BY <1>1, <2>1, <2>6 DEF FlaggedOnce
    <2>9. NoOrphanIsMissed'
        <3> SUFFICES ASSUME NEW o \in Checkers, NEW a \in Saved, checkPc'[o] = "done",
                            createdAt[a] < startedAt[o] - Grace, ~Explained(a)
                     PROVE  flags'[a] > 0
            BY <1>3, <2>1 DEF NoOrphanIsMissed, Saved
        <3>1. CASE o = k
            BY <1>1, <2>1, <2>5, <2>6, <3>1 DEF NothingOldLeft, Saved
        <3>2. CASE o # k
            BY <1>1, <1>5, <2>5, <3>2 DEF NoOrphanIsMissed, Saved
        <3> QED BY <3>1, <3>2
    <2>10. ClocksAgree'
        BY <1>1, <1>2, <1>3, <2>1 DEF ClocksAgree
    <2> QED BY <1>4, <2>4, <2>7, <2>8, <2>9, <2>10 DEF ReconciliationInvariant
<1> QED BY <1>6, <1>7, <1>8 DEF CheckStep

LEMMA InvNext == ReconciliationInvariant /\ [Next]_vars => ReconciliationInvariant'
<1> SUFFICES ASSUME ReconciliationInvariant, [Next]_vars PROVE ReconciliationInvariant'
    OBVIOUS
<1>1. TypeOK'
    BY TypeNext DEF ReconciliationInvariant
<1>2. CASE Tick
    BY <1>1, <1>2, TickKeeps
<1>3. ASSUME NEW r \in Requests, CallAgain(r) \/ SaveRecord(r) \/ Crash(r)
      PROVE  ReconciliationInvariant'
    BY <1>1, <1>3, CallAgainKeeps, EndKeeps
<1>4. ASSUME NEW k \in Checkers, CheckStep(k) \/ AbortCheck(k) PROVE ReconciliationInvariant'
    BY <1>1, <1>4, CheckKeeps
<1>5. CASE UNCHANGED vars
    BY <1>5
    DEF vars, requestVars, checkVars, ReconciliationInvariant, TypeOK, ChecksExclude, HoldsCheck,
        FoundIsOld, NothingOldLeft, ClocksAgree, RunningIsRecent, FlaggedOnce, NoOrphanIsMissed,
        Saved, Explained
<1> QED BY <1>2, <1>3, <1>4, <1>5 DEF Next

-----------------------------------------------------------------------------
(* All that the check of orphans relies on, for any number of everything.  *)
THEOREM ReconciliationInvariantHolds == Spec => []ReconciliationInvariant
    BY InvInit, InvNext, PTL DEF Spec

(* flag_orphaned_actions adds at most one event for an action.             *)
THEOREM FlaggedOnceHolds == Spec => []FlaggedOnce
<1>1. ReconciliationInvariant => FlaggedOnce
    BY DEF ReconciliationInvariant
<1> QED BY <1>1, ReconciliationInvariantHolds, PTL

(* A check that is done left out no row that was old enough.               *)
THEOREM NoOrphanIsMissedHolds == Spec => []NoOrphanIsMissed
<1>1. ReconciliationInvariant => NoOrphanIsMissed
    BY DEF ReconciliationInvariant
<1> QED BY <1>1, ReconciliationInvariantHolds, PTL

-----------------------------------------------------------------------------
(* What was asked for and what is left add up to all that may be asked.    *)
LEMMA WaitsAddUp ==
    ASSUME NEW n \in 0..MaxCalls
    PROVE  /\ n * CallTime \in Nat /\ MaxCalls * CallTime \in Nat
           /\ (MaxCalls - n) * CallTime = MaxCalls * CallTime - n * CallTime
<1> DEFINE m == MaxCalls - n
<1>1. n \in Nat /\ m \in Nat /\ MaxCalls = n + m /\ CallTime \in Nat
    BY ReconciliationAssumption
<1> HIDE DEF m
<1>2. (n + m) * CallTime = n * CallTime + m * CallTime
    BY <1>1
<1>3. n * CallTime \in Nat /\ m * CallTime \in Nat
    BY <1>1
<1> QED BY <1>1, <1>2, <1>3 DEF m

LEMMA FewerCallsLeft ==
    ASSUME NEW n \in 0..MaxCalls, NEW k \in 0..n
    PROVE  (MaxCalls - n) * CallTime <= (MaxCalls - k) * CallTime
    BY MoreCallsTakeLonger

(* A request that still runs although a row of it is older than the grace  *)
(* period has outlasted it waiting.                                        *)
LEMMA OldAndRunningIsSlow ==
    ASSUME ReconciliationInvariant, NEW k \in Checkers, NEW a \in Saved,
           createdAt[a] < startedAt[k] - Grace, phase[RequestOf[a]] = "running"
    PROVE  DiedOrOutlasted(RequestOf[a])
<1> DEFINE r == RequestOf[a]
           n == callsLeft[r]
<1>1. /\ r \in Requests /\ createdAt[a] \in Nat /\ startedAt[k] \in Nat /\ now \in Nat
      /\ answerBy[r] \in Nat /\ n \in 0..MaxCalls /\ startedAt[k] <= now
      /\ Grace \in Nat
    BY ReconciliationAssumption DEF ReconciliationInvariant, TypeOK, Saved, ClocksAgree
<1>2. /\ now <= answerBy[r]
      /\ answerBy[r] + n * CallTime <= createdAt[a] + MaxCalls * CallTime
    BY <1>1 DEF ReconciliationInvariant, RunningIsRecent
<1>3. DiedOrOutlasted(r) <=> phase[r] = "lost" \/ (MaxCalls - n) * CallTime > Grace
    BY DEF DiedOrOutlasted
<1> HIDE DEF n, r
<1>4. /\ n * CallTime \in Nat /\ MaxCalls * CallTime \in Nat
      /\ (MaxCalls - n) * CallTime = MaxCalls * CallTime - n * CallTime
    BY <1>1, WaitsAddUp
<1>5. (MaxCalls - n) * CallTime > Grace
    BY <1>1, <1>2, <1>4
<1> QED BY <1>3, <1>5 DEF r

(* A dead request stays dead, and the answers asked for only get more.     *)
LEMMA OutlastedForGood ==
    ASSUME TypeOK, [Next]_vars, NEW r \in Requests, DiedOrOutlasted(r)
    PROVE  DiedOrOutlasted(r)'
<1> DEFINE n == callsLeft[r]
           m == callsLeft'[r]
<1>1. phase[r] = "lost" => phase'[r] = "lost"
    BY DEF Next, Tick, CallAgain, SaveRecord, Crash, CheckStep, StartCheck, LockCheck,
        SelectOrphans, CommitFlags, AbortCheck, vars, requestVars, TypeOK
<1>2. n \in 0..MaxCalls /\ m \in 0..n
  <2>1. n \in 0..MaxCalls
      BY DEF TypeOK
  <2>2. CASE UNCHANGED callsLeft
      BY <2>1, <2>2, ReconciliationAssumption
  <2>3. CASE \E q \in Requests : CallAgain(q)
    <3>1. m = n \/ (n > 0 /\ m = n - 1)
        BY <2>3 DEF CallAgain, TypeOK
    <3> HIDE DEF m, n
    <3> QED BY <2>1, <3>1, ReconciliationAssumption
  <2> QED BY <2>2, <2>3 DEF Next, Tick, SaveRecord, Crash, CheckStep, StartCheck, LockCheck,
        SelectOrphans, CommitFlags, AbortCheck, vars, requestVars
<1>3. /\ DiedOrOutlasted(r) <=> phase[r] = "lost" \/ (MaxCalls - n) * CallTime > Grace
      /\ DiedOrOutlasted(r)' <=> phase'[r] = "lost" \/ (MaxCalls - m) * CallTime > Grace
    BY DEF DiedOrOutlasted
<1> HIDE DEF n, m
<1>4. (MaxCalls - n) * CallTime <= (MaxCalls - m) * CallTime
    BY <1>2, FewerCallsLeft
<1>5. (MaxCalls - n) * CallTime \in Int /\ (MaxCalls - m) * CallTime \in Int /\ Grace \in Int
    BY <1>2, WaitsAddUp, ReconciliationAssumption
<1> QED BY <1>1, <1>3, <1>4, <1>5

LEMMA SlowNext ==
    ASSUME ReconciliationInvariant, FoundIsDeadOrSlow, OnlyDeadOrSlowAreFlagged, [Next]_vars
    PROVE  FoundIsDeadOrSlow' /\ OnlyDeadOrSlowAreFlagged'
<1>0. TypeOK
    BY DEF ReconciliationInvariant
<1>1. \A a \in Actions : DiedOrOutlasted(RequestOf[a]) => DiedOrOutlasted(RequestOf[a])'
    BY <1>0, OutlastedForGood, ReconciliationAssumption
<1> HIDE DEF DiedOrOutlasted
<1>2. CASE UNCHANGED checkVars
    BY <1>0, <1>1, <1>2 DEF FoundIsDeadOrSlow, OnlyDeadOrSlowAreFlagged, checkVars, TypeOK
<1>3. ASSUME NEW k \in Checkers, StartCheck(k) \/ LockCheck(k) \/ AbortCheck(k)
      PROVE  FoundIsDeadOrSlow' /\ OnlyDeadOrSlowAreFlagged'
  <2>1. \A o \in Checkers : checkPc'[o] = "flagging" => checkPc[o] = "flagging"
      BY <1>0, <1>3 DEF StartCheck, LockCheck, AbortCheck, CheckGoesTo, TypeOK
  <2>2. UNCHANGED <<found, flags>>
      BY <1>3 DEF StartCheck, LockCheck, AbortCheck
  <2> QED BY <1>0, <1>1, <2>1, <2>2 DEF FoundIsDeadOrSlow, OnlyDeadOrSlowAreFlagged, TypeOK
<1>4. ASSUME NEW k \in Checkers, SelectOrphans(k)
      PROVE  FoundIsDeadOrSlow' /\ OnlyDeadOrSlowAreFlagged'
  <2>1. \A a \in Orphans(k) : a \in Actions /\ DiedOrOutlasted(RequestOf[a])
    <3> SUFFICES ASSUME NEW a \in Orphans(k)
                 PROVE  a \in Actions /\ DiedOrOutlasted(RequestOf[a])
        OBVIOUS
    <3>1. /\ a \in Saved /\ a \in Actions /\ createdAt[a] < startedAt[k] - Grace
          /\ phase[RequestOf[a]] # "recorded"
        BY DEF Orphans, Explained, Saved
    <3>2. phase[RequestOf[a]] \in {"running", "lost"}
        BY <1>0, <3>1, ReconciliationAssumption DEF TypeOK, Phases
    <3>3. CASE phase[RequestOf[a]] = "running"
        BY <3>1, <3>3, OldAndRunningIsSlow
    <3>4. CASE phase[RequestOf[a]] = "lost"
        BY <3>1, <3>4 DEF DiedOrOutlasted
    <3> QED BY <3>1, <3>2, <3>3, <3>4
  <2>2. /\ found' = [found EXCEPT ![k] = Orphans(k)] /\ UNCHANGED flags
        /\ \A o \in Checkers \ {k} : checkPc'[o] = checkPc[o]
      BY <1>0, <1>4 DEF SelectOrphans, CheckGoesTo, TypeOK
  <2>3. \A o \in Checkers : found'[o] = IF o = k THEN Orphans(k) ELSE found[o]
      BY <1>0, <2>2 DEF TypeOK
  <2> HIDE DEF Orphans
  <2> QED BY <1>0, <1>1, <2>1, <2>2, <2>3
      DEF FoundIsDeadOrSlow, OnlyDeadOrSlowAreFlagged, TypeOK
<1>5. ASSUME NEW k \in Checkers, CommitFlags(k)
      PROVE  FoundIsDeadOrSlow' /\ OnlyDeadOrSlowAreFlagged'
  <2>1. \A a \in found[k] : DiedOrOutlasted(RequestOf[a])
      BY <1>5 DEF CommitFlags, FoundIsDeadOrSlow
  <2>2. /\ \A o \in Checkers : checkPc'[o] = "flagging" => checkPc[o] = "flagging"
        /\ UNCHANGED found
        /\ \A a \in Actions : flags'[a] = IF a \in found[k] THEN flags[a] + 1 ELSE flags[a]
      BY <1>0, <1>5 DEF CommitFlags, CheckGoesTo, TypeOK
  <2> QED BY <1>0, <1>1, <2>1, <2>2 DEF FoundIsDeadOrSlow, OnlyDeadOrSlowAreFlagged, TypeOK
<1>6. CASE Tick \/ \E r \in Requests : CallAgain(r) \/ SaveRecord(r) \/ Crash(r)
    BY <1>2, <1>6 DEF Tick, CallAgain, SaveRecord, Crash
<1>7. CASE UNCHANGED vars
    BY <1>2, <1>7 DEF vars
<1> QED BY <1>3, <1>4, <1>5, <1>6, <1>7 DEF Next, CheckStep

(* Whatever the grace period: a request that did not die is flagged only   *)
(* after it asked for more answers of the model than fit in that period    *)
(* (reconciliation.py:20 claims it never is).                              *)
THEOREM OnlyDeadOrSlowHolds == Spec => []OnlyDeadOrSlowAreFlagged
<1>1. Init => FoundIsDeadOrSlow /\ OnlyDeadOrSlowAreFlagged
    BY DEF Init, FoundIsDeadOrSlow, OnlyDeadOrSlowAreFlagged
<1>2. ReconciliationInvariant /\ FoundIsDeadOrSlow /\ OnlyDeadOrSlowAreFlagged /\ [Next]_vars
         => (FoundIsDeadOrSlow /\ OnlyDeadOrSlowAreFlagged)'
    BY SlowNext
<1> QED BY <1>1, <1>2, ReconciliationInvariantHolds, PTL DEF Spec

=============================================================================
