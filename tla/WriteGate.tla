------------------------------ MODULE WriteGate ------------------------------
(***************************************************************************)
(* The write gate of the support agent against its database: the gated     *)
(* write tools (tools/hr_it.py) put rows into pending_actions, and         *)
(* approvers (guardrails/approval.py) decide on them.                      *)
(*                                                                         *)
(* Every statement of a transaction is a step of its own, at READ          *)
(* COMMITTED: it sees what was committed before it, and the transaction's  *)
(* own writes become visible when it commits.  A lock is held from the     *)
(* statement that takes it to the end of the transaction, so the holder of *)
(* a lock is read off the program counters.                                *)
(*                                                                         *)
(* A call proposes at most one action, so the action carries the call's    *)
(* name.                                                                   *)
(***************************************************************************)
EXTENDS LeavePayloads, Sequences

CONSTANTS
    Calls,         \* calls of gated write tools, each in its own thread
    Deciders,      \* POST /approvals/{id} requests, each in its own thread
    NoAction,      \* the answer of a call names no action
    Recorded,      \* the accounts the seed wrote
    Limits,        \* entitlement minus days taken that an account may start with
    Corrections    \* ... and that a change from outside may give it

ASSUME WriteGateAssumption ==
    /\ IsFiniteSet(Calls)
    /\ NoAction \notin Calls
    /\ Recorded \subseteq Accounts
    \* the seed overdraws no account
    /\ Limits \subseteq Nat
    /\ Corrections \subseteq Int

VARIABLES
    asks,          \* the request of each call
    callPc,        \* where each call is
    existing,      \* the action found by _find_pending
    decision,      \* what each decider was asked to do
    decidePc,      \* where each decider is
    status,        \* pending_actions.status ("none": no row)
    decidedBy,     \* pending_actions.decided_by
    trail,         \* audit events of each action, oldest first
    written,       \* rows of leave_requests and tickets written for each action
    approvedDays,  \* leave_balances.approved_days, counted from the seed
    limit,         \* leave_balances.entitlement_days - taken_days
    onRecord,      \* the accounts that have a row in leave_balances
    corrected      \* the accounts someone changed from outside the program

callVars   == <<callPc, existing>>
actionVars == <<status, decidedBy, trail, written, approvedDays>>
rowVars    == <<limit, onRecord, corrected>>
vars == <<asks, decision, callVars, decidePc, actionVars, rowVars>>

Decisions == [approver : Employees, action : Calls, approve : BOOLEAN]

CallRunning == {"new", "locked", "no_duplicate", "proposing", "repeating", "declining"}
CallEnded   == {"proposed", "already_sent", "not_proposed", "failed"}

DecideRunning == {"new", "role_ok", "validated", "rejecting", "approving", "executing"}
DecideEnded   == {"done", "forbidden", "not_found", "already_decided", "not_enough", "failed"}

Statuses == {"none", "pending_approval", "rejected", "executed"}

(* The events of the audit log that are about an action, with the approver *)
(* who caused one.                                                         *)
EventNames == {"action_proposed", "action_rejected", "action_approved", "action_executed"}
Events == EventNames \X (Employees \cup {NoOne})

Pending == {a \in Calls : status[a] = "pending_approval"}

Executed == {a \in Calls : status[a] = "executed"}

(* awaiting_approval_days of _read_leave_balance. *)
Awaiting(x) == TotalDays(asks, Pending, x)

Proposer(c) == asks[c].employee

(* Variants of the code with one mistake each stand before the definition  *)
(* they are a mistake in; the runs' mutants put them in its place.         *)

(* No advisory lock; one released before the insert; one that an exception *)
(* leaves behind.                                                          *)
NoRequesterLock(c) == FALSE
RequesterLockReleasedEarly(c) == callPc[c] \in {"locked", "no_duplicate"}
RequesterLockLeaked(c) == callPc[c] \in (CallRunning \ {"new"}) \cup {"failed"}

(* The calls that hold the advisory lock of their requester. *)
HoldsRequester(c) == callPc[c] \in CallRunning \ {"new"}

(* No FOR UPDATE on either row; a balance row that stays locked after the  *)
(* approval is saved.                                                      *)
NoActionLock(d) == FALSE
NoBalanceLock(d, x) == FALSE
BalanceLockKept(d, x) ==
    /\ decidePc[d] \in {"executing", "done"} /\ decision[d].approve
    /\ DrawsOn(asks[decision[d].action], x)

(* The deciders that hold the lock of their pending_actions row, and of    *)
(* the leave_balances row x.                                               *)
HoldsAction(d) == decidePc[d] \in {"rejecting", "approving", "executing"}
HoldsBalance(d, x) ==
    decidePc[d] = "executing" /\ DrawsOn(asks[decision[d].action], x)

Init ==
    /\ asks \in [Calls -> Requests]
    /\ callPc = [c \in Calls |-> "new"]
    /\ existing = [c \in Calls |-> NoAction]
    /\ decision \in [Deciders -> Decisions]
    /\ decidePc = [d \in Deciders |-> "new"]
    /\ status = [a \in Calls |-> "none"]
    /\ decidedBy = [a \in Calls |-> NoOne]
    /\ trail = [a \in Calls |-> <<>>]
    /\ written = [a \in Calls |-> 0]
    /\ approvedDays = [x \in Accounts |-> 0]
    /\ limit \in [Accounts -> Limits]
    /\ onRecord = Recorded
    /\ corrected = {}

-----------------------------------------------------------------------------
(* A call of submit_leave_request or create_ticket.                        *)

CallGoesTo(c, pc) == callPc' = [callPc EXCEPT ![c] = pc]

(* Refused on its arguments alone: the dates or the text. *)
RefuseArguments(c) ==
    /\ callPc[c] = "new"
    /\ asks[c].payload \in Unacceptable
    /\ CallGoesTo(c, "not_proposed")
    /\ UNCHANGED <<asks, existing, decision, decidePc, actionVars, rowVars>>

LockRequester(c) ==
    /\ callPc[c] = "new"
    /\ asks[c].payload \notin Unacceptable
    /\ \A o \in Calls : HoldsRequester(o) => Proposer(o) # Proposer(c)
    /\ CallGoesTo(c, "locked")
    /\ UNCHANGED <<asks, existing, decision, decidePc, actionVars, rowVars>>

(* An equal request that waits already answers the call; a ticket has      *)
(* nothing more to check.                                                  *)
FindPending(c) ==
    /\ callPc[c] = "locked"
    /\ \/ \E a \in Pending :
             /\ asks[a] = asks[c]
             /\ existing' = [existing EXCEPT ![c] = a]
             /\ CallGoesTo(c, "repeating")
       \/ /\ \A a \in Pending : asks[a] # asks[c]
          /\ CallGoesTo(c, IF IsLeave(asks[c]) THEN "no_duplicate" ELSE "proposing")
          /\ UNCHANGED existing
    /\ UNCHANGED <<asks, decision, decidePc, actionVars, rowVars>>

(* The waiting days are not subtracted.                                    *)
RemainingWithoutWaiting(x) == limit[x] - approvedDays[x]

(* What is left of account x once every waiting request is subtracted. *)
Remaining(x) == limit[x] - approvedDays[x] - Awaiting(x)

(* One statement reads the balance row and sums the waiting requests. *)
ReadBalance(c) ==
    LET x == Account(asks[c]) IN
    /\ callPc[c] = "no_duplicate"
    /\ CallGoesTo(c, IF x \in onRecord /\ Days[asks[c].payload] <= Remaining(x)
                     THEN "proposing" ELSE "declining")
    /\ UNCHANGED <<asks, existing, decision, decidePc, actionVars, rowVars>>

(* The call's transaction commits: the new row and its action_proposed     *)
(* event become visible, and the advisory lock is free again.              *)
CommitProposal(c) ==
    /\ callPc[c] = "proposing"
    /\ status' = [status EXCEPT ![c] = "pending_approval"]
    /\ trail' = [trail EXCEPT ![c] = Append(@, <<"action_proposed", NoOne>>)]
    /\ CallGoesTo(c, "proposed")
    /\ UNCHANGED <<asks, existing, decision, decidePc, decidedBy, written, approvedDays, rowVars>>

CommitAnswer(c) ==
    /\ \/ callPc[c] = "repeating" /\ CallGoesTo(c, "already_sent")
       \/ callPc[c] = "declining" /\ CallGoesTo(c, "not_proposed")
    /\ UNCHANGED <<asks, existing, decision, decidePc, actionVars, rowVars>>

(* Any exception, or the end of the process: the transaction rolls back.   *)
AbortCall(c) ==
    /\ callPc[c] \in CallRunning
    /\ CallGoesTo(c, "failed")
    /\ existing' = [existing EXCEPT ![c] = NoAction]
    /\ UNCHANGED <<asks, decision, decidePc, actionVars, rowVars>>

CallStep(c) ==
    \/ RefuseArguments(c) \/ LockRequester(c) \/ FindPending(c) \/ ReadBalance(c)
    \/ CommitProposal(c) \/ CommitAnswer(c)

-----------------------------------------------------------------------------
(* decide(action_id, approver_id, approve).                                *)

DecideGoesTo(d, pc) == decidePc' = [decidePc EXCEPT ![d] = pc]

ValidateRole(d) ==
    /\ decidePc[d] = "new"
    /\ DecideGoesTo(d, IF decision[d].approver \in Approvers THEN "role_ok" ELSE "forbidden")
    /\ UNCHANGED <<asks, callVars, decision, actionVars, rowVars>>

(* Nobody compares the approver with the requester.                        *)
ValidateNoOwner(d) ==
    /\ decidePc[d] = "role_ok"
    /\ DecideGoesTo(d, IF status[decision[d].action] = "none" THEN "not_found" ELSE "validated")
    /\ UNCHANGED <<asks, callVars, decision, actionVars, rowVars>>

(* The second check reads the row's owner without locking the row. *)
ValidateApprover(d) ==
    LET a == decision[d].action IN
    /\ decidePc[d] = "role_ok"
    /\ DecideGoesTo(d, CASE status[a] = "none" -> "not_found"
                         [] status[a] # "none" /\ Proposer(a) = decision[d].approver -> "forbidden"
                         [] OTHER -> "validated")
    /\ UNCHANGED <<asks, callVars, decision, actionVars, rowVars>>

LockAction(d) ==
    LET a == decision[d].action IN
    /\ decidePc[d] = "validated"
    /\ \A o \in Deciders : HoldsAction(o) => decision[o].action # a
    /\ DecideGoesTo(d, CASE status[a] # "pending_approval" -> "already_decided"
                         [] status[a] = "pending_approval" /\ ~decision[d].approve -> "rejecting"
                         [] status[a] = "pending_approval" /\ decision[d].approve ->
                              IF IsLeave(asks[a]) THEN "approving" ELSE "executing")
    /\ UNCHANGED <<asks, callVars, decision, actionVars, rowVars>>

(* _insert_leave_request: lock the balance row, then check the days again. *)
(* A missing row or too few days raise, which rolls the approval back.     *)
LockBalance(d) ==
    LET a == decision[d].action
        x == Account(asks[a])
    IN
    /\ decidePc[d] = "approving"
    /\ \A o \in Deciders : ~HoldsBalance(o, x)
    /\ DecideGoesTo(d, CASE x \notin onRecord -> "failed"
                         [] x \in onRecord /\ Days[asks[a].payload] > limit[x] - approvedDays[x]
                              -> "not_enough"
                         [] OTHER -> "executing")
    /\ UNCHANGED <<asks, callVars, decision, actionVars, rowVars>>

CommitRejection(d) ==
    LET a == decision[d].action
        e == decision[d].approver
    IN
    /\ decidePc[d] = "rejecting"
    /\ status' = [status EXCEPT ![a] = "rejected"]
    /\ decidedBy' = [decidedBy EXCEPT ![a] = e]
    /\ trail' = [trail EXCEPT ![a] = Append(@, <<"action_rejected", e>>)]
    /\ DecideGoesTo(d, "done")
    /\ UNCHANGED <<asks, callVars, decision, written, approvedDays, rowVars>>

(* The days that executing action a adds to account x. *)
DaysBooked(a, x) == DaysAsked(asks[a], x)

CommitExecution(d) ==
    LET a == decision[d].action
        e == decision[d].approver
    IN
    /\ decidePc[d] = "executing"
    /\ status' = [status EXCEPT ![a] = "executed"]
    /\ decidedBy' = [decidedBy EXCEPT ![a] = e]
    /\ trail' = [trail EXCEPT ![a] =
                    Append(Append(@, <<"action_approved", e>>), <<"action_executed", e>>)]
    /\ written' = [written EXCEPT ![a] = @ + 1]
    /\ approvedDays' = [x \in Accounts |-> approvedDays[x] + DaysBooked(a, x)]
    /\ DecideGoesTo(d, "done")
    /\ UNCHANGED <<asks, callVars, decision, rowVars>>

(* The approval's audit event goes through a connection of its own, so the *)
(* rollback does not reach it.                                             *)
AbortDecisionAudited(d) ==
    LET a == decision[d].action IN
    /\ decidePc[d] \in DecideRunning
    /\ DecideGoesTo(d, "failed")
    /\ IF decidePc[d] = "executing"
       THEN trail' = [trail EXCEPT ![a] = Append(@, <<"action_approved", decision[d].approver>>)]
       ELSE UNCHANGED trail
    /\ UNCHANGED <<asks, callVars, decision, status, decidedBy, written, approvedDays, rowVars>>

AbortDecision(d) ==
    /\ decidePc[d] \in DecideRunning
    /\ DecideGoesTo(d, "failed")
    /\ UNCHANGED <<asks, callVars, decision, actionVars, rowVars>>

DecideStep(d) ==
    \/ ValidateRole(d) \/ ValidateApprover(d) \/ LockAction(d) \/ LockBalance(d)
    \/ CommitRejection(d) \/ CommitExecution(d)

-----------------------------------------------------------------------------
(* Someone changes a leave balance outside the program, once per account.  *)
(* Like any update, it waits for the row lock.                             *)

CorrectBalance(x) ==
    /\ x \in onRecord \ corrected
    /\ \A d \in Deciders : ~HoldsBalance(d, x)
    /\ \E n \in Corrections : limit' = [limit EXCEPT ![x] = n]
    /\ corrected' = corrected \cup {x}
    /\ UNCHANGED <<asks, callVars, decision, decidePc, actionVars, onRecord>>

RemoveBalance(x) ==
    /\ x \in onRecord \ corrected
    /\ \A d \in Deciders : ~HoldsBalance(d, x)
    /\ onRecord' = onRecord \ {x}
    /\ corrected' = corrected \cup {x}
    /\ UNCHANGED <<asks, callVars, decision, decidePc, actionVars, limit>>

Next ==
    \/ \E c \in Calls : CallStep(c) \/ AbortCall(c)
    \/ \E d \in Deciders : DecideStep(d) \/ AbortDecision(d)
    \/ \E x \in Accounts : CorrectBalance(x) \/ RemoveBalance(x)

Spec == Init /\ [][Next]_vars

(* Threads keep running and Postgres grants a free lock to a waiter.       *)
(* Nothing has to abort: a thread that waits for ever stays a thread that  *)
(* waits for ever.                                                         *)
Fairness ==
    /\ \A c \in Calls : WF_vars(CallStep(c))
    /\ \A d \in Deciders : WF_vars(DecideStep(d))

FairSpec == Spec /\ Fairness

-----------------------------------------------------------------------------
(* Every variable holds what its column or its thread can hold.            *)
TypeOK ==
    /\ asks \in [Calls -> Requests]
    /\ callPc \in [Calls -> CallRunning \cup CallEnded]
    /\ existing \in [Calls -> Calls \cup {NoAction}]
    /\ decision \in [Deciders -> Decisions]
    /\ decidePc \in [Deciders -> DecideRunning \cup DecideEnded]
    /\ status \in [Calls -> Statuses]
    /\ decidedBy \in [Calls -> Employees \cup {NoOne}]
    /\ trail \in [Calls -> Seq(Events)]
    /\ written \in [Calls -> Nat]
    /\ approvedDays \in [Accounts -> Nat]
    /\ limit \in [Accounts -> Int]
    /\ onRecord \subseteq Accounts
    /\ corrected \subseteq Accounts

(* Days booked and days waiting never exceed an account, however many      *)
(* tools and approvers work on it at once: hr_it.py's advisory lock makes  *)
(* the check of a proposal and its insert one step for other proposals,    *)
(* and approvals only move days from waiting to booked.  A correction from *)
(* outside may break this for its account.                                 *)
ReservedWithinLimit ==
    \A x \in onRecord \ corrected : approvedDays[x] + Awaiting(x) <= limit[x]

(* Booking leave never takes an account over its limit at that moment,     *)
(* corrected or not: approval.py checks again under the row lock.          *)
BookingFits ==
    [][\A x \in Accounts :
          approvedDays'[x] > approvedDays[x] =>
             x \in onRecord /\ approvedDays'[x] <= limit'[x]]_vars

(* The same request never waits twice: _find_pending and the insert run    *)
(* under the requester's lock.                                             *)
OneOpenProposal ==
    \A a, b \in Pending : asks[a] = asks[b] => a = b

(* approved_days is the sum of the executed leaves and every executed      *)
(* action wrote exactly one row, whoever decided at the same time and      *)
(* whatever failed on the way.                                             *)
BookedMatchesExecuted ==
    /\ \A x \in Accounts : approvedDays[x] = TotalDays(asks, Executed, x)
    /\ \A a \in Calls : written[a] = IF a \in Executed THEN 1 ELSE 0

(* Every decided action was decided by an approver other than the          *)
(* requester, though decide checks both before it locks anything.          *)
SeparationOfDuties ==
    \A a \in Calls :
       IF status[a] \in {"rejected", "executed"}
       THEN decidedBy[a] \in Approvers \ {Proposer(a)}
       ELSE decidedBy[a] = NoOne

(* A decision is final: two decisions on one action never both take        *)
(* effect.                                                                 *)
DecisionsAreFinal ==
    [][\A a \in Calls :
          status[a] \in {"rejected", "executed"} =>
             /\ status'[a] = status[a]
             /\ decidedBy'[a] = decidedBy[a]
             /\ trail'[a] = trail[a]]_vars

(* The audit events of an action tell its whole story and nothing else:    *)
(* an aborted attempt leaves no event behind.                              *)
AuditTellsTheStory ==
    \A a \in Calls :
       trail[a] =
          CASE status[a] = "none" -> <<>>
            [] status[a] = "pending_approval" -> <<<<"action_proposed", NoOne>>>>
            [] status[a] = "rejected" ->
                 <<<<"action_proposed", NoOne>>, <<"action_rejected", decidedBy[a]>>>>
            [] status[a] = "executed" ->
                 <<<<"action_proposed", NoOne>>, <<"action_approved", decidedBy[a]>>,
                   <<"action_executed", decidedBy[a]>>>>

(* What a call at pc answers, from the statement that settles it on; until *)
(* its transaction commits, the answer may still be lost.                  *)
Told(pc) ==
    CASE pc = "proposed" -> "proposed"
      [] pc \in {"repeating", "already_sent"} -> "already_sent"
      [] pc \in {"declining", "not_proposed"} -> "not_proposed"
      [] OTHER -> "none"

(* The gate behaves as if every call and every decision were atomic: an    *)
(* action is proposed, an earlier one named and a request refused for      *)
(* reasons that hold together in one moment of the call.  When the answer  *)
(* is heard, an approver may have decided on the action it names.          *)
Gate == INSTANCE ApprovalGate
            WITH Actions <- Calls, answer <- [c \in Calls |-> Told(callPc[c])]
GateSpec == Gate!Spec

-----------------------------------------------------------------------------
(* The inductive invariant: what each step may rely on while others run.   *)

(* Each lock has one holder.                                               *)
LocksExclude ==
    /\ \A c, o \in Calls :
          HoldsRequester(c) /\ HoldsRequester(o) /\ Proposer(c) = Proposer(o) => c = o
    /\ \A d, o \in Deciders :
          HoldsAction(d) /\ HoldsAction(o) /\ decision[d].action = decision[o].action => d = o
    /\ \A x \in Accounts : \A d, o \in Deciders :
          HoldsBalance(d, x) /\ HoldsBalance(o, x) => d = o

(* A call has answered "proposed" exactly when its own row exists, and has *)
(* named only an equal row of the same employee.                           *)
AnswersHaveRows ==
    \A c \in Calls :
       /\ callPc[c] = "proposed" <=> status[c] # "none"
       /\ callPc[c] = "already_sent" =>
             /\ existing[c] \in Calls \ {c}
             /\ asks[existing[c]] = asks[c]
             /\ status[existing[c]] # "none"
       /\ callPc[c] \notin {"repeating", "already_sent"} => existing[c] = NoAction

(* What a call found out still holds when it commits.                      *)
CallsKnow ==
    \A c \in Calls :
       /\ HoldsRequester(c) => asks[c].payload \notin Unacceptable
       /\ callPc[c] = "no_duplicate" => IsLeave(asks[c])
       /\ callPc[c] \in {"no_duplicate", "proposing"} => \A a \in Pending : asks[a] # asks[c]
       /\ callPc[c] = "repeating" =>
             /\ existing[c] \in Calls \ {c}
             /\ asks[existing[c]] = asks[c]
             /\ status[existing[c]] # "none"

(* The days that a call is about to propose still fit.                     *)
ProposedDaysFit ==
    \A c \in Calls : \A x \in Accounts \ corrected :
       callPc[c] = "proposing" /\ DrawsOn(asks[c], x) =>
          /\ x \in onRecord
          /\ approvedDays[x] + Awaiting(x) + Days[asks[c].payload] <= limit[x]

(* What a decider checked without a lock still holds under the lock.       *)
DecidersKnow ==
    \A d \in Deciders :
       LET a == decision[d].action
           e == decision[d].approver
       IN  /\ decidePc[d] = "role_ok" => e \in Approvers
           /\ decidePc[d] = "validated" => e \in Approvers \ {Proposer(a)}
           /\ HoldsAction(d) => /\ e \in Approvers \ {Proposer(a)}
                               /\ status[a] = "pending_approval"
           /\ decidePc[d] = "approving" => IsLeave(asks[a])

(* The days that a decider is about to book still fit.                     *)
BookedDaysFit ==
    \A d \in Deciders : \A x \in Accounts :
       HoldsBalance(d, x) =>
          /\ x \in onRecord
          /\ approvedDays[x] + Days[asks[decision[d].action].payload] <= limit[x]

GateInvariant ==
    /\ TypeOK /\ LocksExclude /\ CallsKnow /\ ProposedDaysFit /\ DecidersKnow /\ BookedDaysFit
    /\ ReservedWithinLimit /\ OneOpenProposal /\ BookedMatchesExecuted
    /\ SeparationOfDuties /\ AuditTellsTheStory /\ AnswersHaveRows

-----------------------------------------------------------------------------
(* No order of locks leaves a call or a decision waiting for ever.         *)
EveryCallAnswers == \A c \in Calls : <>(callPc[c] \in CallEnded)
EveryDecisionAnswers == \A d \in Deciders : <>(decidePc[d] \in DecideEnded)

=============================================================================
