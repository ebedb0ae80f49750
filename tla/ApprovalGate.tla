----------------------------- MODULE ApprovalGate -----------------------------
(***************************************************************************)
(* What the approval gate promises, as if every tool call and every        *)
(* decision were one atomic step: an action is proposed once, a person     *)
(* with an approver role who is not the requester decides it once, an      *)
(* approved leave fits in its account when it is booked, and the days that *)
(* wait for a decision are reserved when they are proposed.  What a call   *)
(* answers is true in the moment of its step; whoever hears it may hear it *)
(* later, or never.                                                        *)
(***************************************************************************)
EXTENDS LeavePayloads

CONSTANTS
    Actions,       \* ids of pending_actions rows, and the calls that ask for them
    NoAction,      \* the answer of a call names no earlier action
    Corrections    \* what an outside correction may leave of an account

VARIABLES
    asks,          \* the request each action was (or would be) made for
    status,        \* "none" | "pending_approval" | "rejected" | "executed"
    decidedBy,     \* the approver, or NoOne
    approvedDays,  \* days booked on each account
    limit,         \* entitlement minus days taken, on each account
    onRecord,      \* the accounts that exist
    corrected,     \* the accounts changed from outside the program
    answer,        \* what each call answers
    existing       \* the earlier action that an answer names

rows == <<status, decidedBy, approvedDays>>
accounts == <<limit, onRecord, corrected>>
answers == <<answer, existing>>
vars == <<asks, rows, accounts, answers>>

Pending == {a \in Actions : status[a] = "pending_approval"}

Awaiting(x) == TotalDays(asks, Pending, x)

Init ==
    /\ asks \in [Actions -> Requests]
    /\ status = [a \in Actions |-> "none"]
    /\ decidedBy = [a \in Actions |-> NoOne]
    /\ approvedDays = [x \in Accounts |-> 0]
    /\ limit \in [Accounts -> Int]
    /\ onRecord \in SUBSET Accounts
    /\ corrected = {}
    /\ answer = [a \in Actions |-> "none"]
    /\ existing = [a \in Actions |-> NoAction]

Gives(a, said) == answer[a] = "none" /\ answer' = [answer EXCEPT ![a] = said]

(* A proposal is new: nothing equal to it is waiting.  A leave fits beside *)
(* everything booked or waiting, unless its account was changed from       *)
(* outside.                                                                *)
Propose(a) ==
    /\ status[a] = "none"
    /\ asks[a].payload \notin Unacceptable
    /\ \A b \in Pending : asks[b] # asks[a]
    /\ \A x \in Accounts \ corrected :
          DrawsOn(asks[a], x) =>
            /\ x \in onRecord
            /\ approvedDays[x] + Awaiting(x) + Days[asks[a].payload] <= limit[x]
    /\ status' = [status EXCEPT ![a] = "pending_approval"]
    /\ Gives(a, "proposed")
    /\ UNCHANGED <<asks, decidedBy, approvedDays, accounts, existing>>

(* The same request of the same employee waits in this moment.             *)
AnswerAlreadySent(a) ==
    /\ \E b \in Pending :
          /\ asks[b] = asks[a]
          /\ existing' = [existing EXCEPT ![a] = b]
    /\ Gives(a, "already_sent")
    /\ UNCHANGED <<asks, rows, accounts>>

(* Refused on its arguments; or the account lacks the days in this moment, *)
(* and they are not missing because the same request waits already.        *)
Decline(a) ==
    /\ \/ asks[a].payload \in Unacceptable
       \/ /\ \A b \in Pending : asks[b] # asks[a]
          /\ \E x \in Accounts :
                /\ DrawsOn(asks[a], x)
                /\ \/ x \notin onRecord
                   \/ approvedDays[x] + Awaiting(x) + Days[asks[a].payload] > limit[x]
    /\ Gives(a, "not_proposed")
    /\ UNCHANGED <<asks, rows, accounts, existing>>

(* An answer that changed nothing is lost before anybody hears it.         *)
LoseAnswer(a) ==
    /\ answer[a] \in {"already_sent", "not_proposed"}
    /\ answer' = [answer EXCEPT ![a] = "none"]
    /\ existing' = [existing EXCEPT ![a] = NoAction]
    /\ UNCHANGED <<asks, rows, accounts>>

Reject(a, e) ==
    /\ status[a] = "pending_approval"
    /\ e \in Approvers \ {asks[a].employee}
    /\ status' = [status EXCEPT ![a] = "rejected"]
    /\ decidedBy' = [decidedBy EXCEPT ![a] = e]
    /\ UNCHANGED <<asks, approvedDays, accounts, answers>>

(* Booking checks the account itself, whoever changed it since.            *)
Execute(a, e) ==
    /\ status[a] = "pending_approval"
    /\ e \in Approvers \ {asks[a].employee}
    /\ \A x \in Accounts :
          DrawsOn(asks[a], x) =>
            /\ x \in onRecord
            /\ approvedDays[x] + Days[asks[a].payload] <= limit[x]
    /\ status' = [status EXCEPT ![a] = "executed"]
    /\ decidedBy' = [decidedBy EXCEPT ![a] = e]
    /\ approvedDays' =
          [x \in Accounts |-> approvedDays[x] + DaysAsked(asks[a], x)]
    /\ UNCHANGED <<asks, accounts, answers>>

(* Someone outside the program changes an account or removes it.           *)
Correct(x) ==
    /\ x \in onRecord
    /\ \E n \in Corrections : limit' = [limit EXCEPT ![x] = n]
    /\ corrected' = corrected \cup {x}
    /\ UNCHANGED <<asks, rows, onRecord, answers>>

Remove(x) ==
    /\ x \in onRecord
    /\ onRecord' = onRecord \ {x}
    /\ corrected' = corrected \cup {x}
    /\ UNCHANGED <<asks, rows, limit, answers>>

Next ==
    \/ \E a \in Actions :
          \/ Propose(a) \/ AnswerAlreadySent(a) \/ Decline(a) \/ LoseAnswer(a)
          \/ \E e \in Employees : Reject(a, e) \/ Execute(a, e)
    \/ \E x \in Accounts : Correct(x) \/ Remove(x)

Spec == Init /\ [][Next]_vars

=============================================================================
