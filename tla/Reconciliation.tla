---------------------------- MODULE Reconciliation ----------------------------
(***************************************************************************)
(* The check for proposals without a Decision Record (reconciliation.py)   *)
(* beside the requests that it must not mistake for dead ones.             *)
(*                                                                         *)
(* Time passes in minutes.  A running request waits for the model again    *)
(* and again (nodes.py, llm.py); no wait is longer than CallTime, which    *)
(* is what the tries, delays and timeouts of one LLMClient.create add up   *)
(* to.  Between two waits it takes no time.                                *)
(***************************************************************************)
EXTENDS Integers, FiniteSets

CONSTANTS
    Requests,     \* requests of POST /chat
    Actions,      \* the rows they may add to pending_actions
    RequestOf,    \* pending_actions.request_id
    Checkers,     \* calls of flag_orphaned_actions, each in its own process
    Grace,        \* grace_minutes
    CallTime,     \* the longest a request waits for one answer of the model
    MaxCalls,     \* the answers a request may ask for after it started
    NoTime,       \* created_at of a row that does not exist
    MaxClock      \* bound: the clock stops here

ASSUME ReconciliationAssumption ==
    /\ RequestOf \in [Actions -> Requests]
    /\ Grace \in Nat
    /\ CallTime \in Nat \ {0}
    /\ MaxCalls \in Nat
    /\ MaxClock \in Nat
    /\ NoTime \notin Int

VARIABLES
    now,         \* minutes
    phase,       \* each request is "running", "recorded" or "lost"
    callsLeft,   \* the model's answers it may still ask for
    answerBy,    \* when the answer it waits for is due
    createdAt,   \* pending_actions.created_at
    checkPc,     \* where each checker is
    startedAt,   \* now() of its transaction
    found,       \* the orphans its SELECT returned
    flags        \* orphan_flagged events of each action

requestVars == <<phase, callsLeft, answerBy, createdAt>>
checkVars == <<checkPc, startedAt, found, flags>>
vars == <<now, requestVars, checkVars>>

Phases == {"running", "recorded", "lost"}
CheckRunning == {"new", "waiting", "locked", "flagging"}
CheckEnded == {"done", "failed"}

Saved == {a \in Actions : createdAt[a] # NoTime}
Explained(a) == phase[RequestOf[a]] = "recorded"

Init ==
    /\ now = 0
    /\ phase = [r \in Requests |-> "running"]
    /\ callsLeft = [r \in Requests |-> MaxCalls]
    /\ answerBy = [r \in Requests |-> CallTime]
    /\ createdAt = [a \in Actions |-> NoTime]
    /\ checkPc = [k \in Checkers |-> "new"]
    /\ startedAt = [k \in Checkers |-> 0]
    /\ found = [k \in Checkers |-> {}]
    /\ flags = [a \in Actions |-> 0]

-----------------------------------------------------------------------------
(* Requests.                                                               *)

(* The model asked for tools.  They run, gated writes save their rows, and *)
(* the model is called again with the results.                             *)
CallAgain(r) ==
    /\ phase[r] = "running"
    /\ callsLeft[r] > 0
    /\ \E new \in SUBSET {a \in Actions \ Saved : RequestOf[a] = r} :
          createdAt' = [a \in Actions |-> IF a \in new THEN now ELSE createdAt[a]]
    /\ callsLeft' = [callsLeft EXCEPT ![r] = @ - 1]
    /\ answerBy' = [answerBy EXCEPT ![r] = now + CallTime]
    /\ UNCHANGED <<now, phase, checkVars>>

(* finalize_node saves the Decision Record. *)
SaveRecord(r) ==
    /\ phase[r] = "running"
    /\ phase' = [phase EXCEPT ![r] = "recorded"]
    /\ UNCHANGED <<now, callsLeft, answerBy, createdAt, checkVars>>

(* An exception, or the end of the process, before finalize.               *)
Crash(r) ==
    /\ phase[r] = "running"
    /\ phase' = [phase EXCEPT ![r] = "lost"]
    /\ UNCHANGED <<now, callsLeft, answerBy, createdAt, checkVars>>

-----------------------------------------------------------------------------
(* flag_orphaned_actions.                                                  *)

CheckGoesTo(k, pc) == checkPc' = [checkPc EXCEPT ![k] = pc]

(* No advisory lock.                                                       *)
NoCheckLock(k) == FALSE

(* The checkers that hold the advisory lock. *)
HoldsCheck(k) == checkPc[k] \in {"locked", "flagging"}

(* The transaction begins, and with it its now().  It may have to wait for *)
(* the advisory lock after that.                                           *)
StartCheck(k) ==
    /\ checkPc[k] = "new"
    /\ startedAt' = [startedAt EXCEPT ![k] = now]
    /\ CheckGoesTo(k, "waiting")
    /\ UNCHANGED <<now, requestVars, found, flags>>

LockCheck(k) ==
    /\ checkPc[k] = "waiting"
    /\ \A o \in Checkers : ~HoldsCheck(o)
    /\ CheckGoesTo(k, "locked")
    /\ UNCHANGED <<now, requestVars, startedAt, found, flags>>

(* The grace period is forgotten; a flag of another action of the same     *)
(* request counts.                                                         *)
OrphansOfAnyAge(k) ==
    {a \in Saved : ~Explained(a) /\ flags[a] = 0}
OrphansFlaggedByRequest(k) ==
    {a \in Saved :
        /\ createdAt[a] < startedAt[k] - Grace
        /\ ~Explained(a)
        /\ \A b \in Actions : RequestOf[b] = RequestOf[a] => flags[b] = 0}

(* The rows that the SELECT of checker k returns. *)
Orphans(k) ==
    {a \in Saved :
        /\ createdAt[a] < startedAt[k] - Grace
        /\ ~Explained(a)
        /\ flags[a] = 0}

SelectOrphans(k) ==
    /\ checkPc[k] = "locked"
    /\ found' = [found EXCEPT ![k] = Orphans(k)]
    /\ CheckGoesTo(k, "flagging")
    /\ UNCHANGED <<now, requestVars, startedAt, flags>>

(* The events of all the orphans found become visible together. *)
CommitFlags(k) ==
    /\ checkPc[k] = "flagging"
    /\ flags' = [a \in Actions |-> IF a \in found[k] THEN flags[a] + 1 ELSE flags[a]]
    /\ CheckGoesTo(k, "done")
    /\ UNCHANGED <<now, requestVars, startedAt, found>>

AbortCheck(k) ==
    /\ checkPc[k] \in CheckRunning
    /\ CheckGoesTo(k, "failed")
    /\ UNCHANGED <<now, requestVars, startedAt, found, flags>>

CheckStep(k) == StartCheck(k) \/ LockCheck(k) \/ SelectOrphans(k) \/ CommitFlags(k)

-----------------------------------------------------------------------------
(* A running request gets its answer, or gives up, before it is overdue.   *)
Tick ==
    /\ now < MaxClock
    /\ \A r \in Requests : phase[r] = "running" => now < answerBy[r]
    /\ now' = now + 1
    /\ UNCHANGED <<requestVars, checkVars>>

Next ==
    \/ Tick
    \/ \E r \in Requests : CallAgain(r) \/ SaveRecord(r) \/ Crash(r)
    \/ \E k \in Checkers : CheckStep(k) \/ AbortCheck(k)

Spec == Init /\ [][Next]_vars

-----------------------------------------------------------------------------
TypeOK ==
    /\ now \in 0..MaxClock
    /\ phase \in [Requests -> Phases]
    /\ callsLeft \in [Requests -> 0..MaxCalls]
    /\ answerBy \in [Requests -> Nat]
    /\ createdAt \in [Actions -> Nat \cup {NoTime}]
    /\ checkPc \in [Checkers -> CheckRunning \cup CheckEnded]
    /\ startedAt \in [Checkers -> Nat]
    /\ found \in [Checkers -> SUBSET Actions]
    /\ flags \in [Actions -> Nat]

(* No action is flagged twice, also when two processes start together: the *)
(* second SELECT runs under the advisory lock, after the first commit.     *)
FlaggedOnce == \A a \in Actions : flags[a] <= 1

(* A check that is done has left out no row it had to look at: every row   *)
(* old enough when it started, whose request never saved a record, has its *)
(* event - also a second row of a request that was flagged before.         *)
NoOrphanIsMissed ==
    \A k \in Checkers : \A a \in Saved :
       /\ checkPc[k] = "done"
       /\ createdAt[a] < startedAt[k] - Grace
       /\ ~Explained(a)
       => flags[a] > 0

(* "Only actions created more than grace_minutes ago are checked, so a     *)
(* request that is still running is never flagged" (reconciliation.py:20). *)
(* Nothing in the code bounds the time of a request by the grace period,   *)
(* and with the program's defaults this does not hold.                     *)
RunningIsNeverFlagged ==
    \A a \in Actions : flags[a] > 0 => phase[RequestOf[a]] = "lost"

(* The request died, or it has asked for so many answers of the model that *)
(* waiting for them may have outlasted the grace period.                   *)
DiedOrOutlasted(r) ==
    phase[r] = "lost" \/ (MaxCalls - callsLeft[r]) * CallTime > Grace

(* What does hold, whatever the defaults: a request is flagged wrongly,    *)
(* while it runs or just before its record is saved, only after it asked   *)
(* for more answers than fit in the grace period.  Where MaxCalls answers  *)
(* fit in it, no request is flagged that did not die.                      *)
OnlyDeadOrSlowAreFlagged ==
    \A a \in Actions : flags[a] > 0 => DiedOrOutlasted(RequestOf[a])

-----------------------------------------------------------------------------
(* The inductive invariant.                                                *)

ChecksExclude ==
    \A k, o \in Checkers : HoldsCheck(k) /\ HoldsCheck(o) => k = o

(* What a checker found is still unflagged when it commits, and old.       *)
FoundIsOld ==
    \A k \in Checkers : checkPc[k] \in {"flagging", "done"} =>
       \A a \in found[k] :
          /\ a \in Saved
          /\ createdAt[a] < startedAt[k] - Grace
          /\ checkPc[k] = "flagging" => flags[a] = 0

NothingOldLeft ==
    \A k \in Checkers : \A a \in Saved :
       /\ checkPc[k] = "flagging"
       /\ createdAt[a] < startedAt[k] - Grace
       /\ ~Explained(a)
       => a \in found[k] \/ flags[a] > 0

(* A check starts before the clock shows now; a row is saved by then.      *)
ClocksAgree ==
    /\ \A k \in Checkers : startedAt[k] <= now
    /\ \A a \in Saved : createdAt[a] <= now

(* What a running request may still wait for is bounded from its rows on.  *)
RunningIsRecent ==
    \A r \in Requests : phase[r] = "running" =>
       /\ now <= answerBy[r]
       /\ \A a \in Saved : RequestOf[a] = r =>
             answerBy[r] + callsLeft[r] * CallTime <= createdAt[a] + MaxCalls * CallTime

(* What is about to be flagged has outlasted the grace period or is dead.  *)
FoundIsDeadOrSlow ==
    \A k \in Checkers : checkPc[k] = "flagging" =>
       \A a \in found[k] : DiedOrOutlasted(RequestOf[a])

ReconciliationInvariant ==
    /\ TypeOK /\ ChecksExclude /\ FoundIsOld /\ NothingOldLeft /\ ClocksAgree
    /\ RunningIsRecent /\ FlaggedOnce /\ NoOrphanIsMissed

=============================================================================
