----------------------------- MODULE ReviewPage ------------------------------
(***************************************************************************)
(* One browser session of ui/app.py beside other clients of the API.       *)
(* Every event of the user runs the script again from the top.  A run      *)
(* waits for one HTTP call at a time, with a timeout; an event that comes  *)
(* meanwhile ends the run at its next streamlit call, and what the run     *)
(* wanted to keep after that call is lost.                                 *)
(***************************************************************************)
EXTENDS ApiCalls

CONSTANTS
    NoSlot,
    Others,        \* the employees at other clients
    MaxEvents      \* bound: the events of the user

ASSUME ReviewPageAssumption == NoSlot \notin Slots /\ Others \subseteq Employees /\ MaxEvents \in Nat

VARIABLES
    user,      \* the employee selected in the sidebar
    waits,     \* the slot of the call that the running script waits for
    listed,    \* the approvals as the page last drew them
    click,     \* the button that was clicked, while its run fetches the list again
    message,   \* session_state["approval_result"]
    history,   \* the replies in session_state["history"]
    kept,      \* session_state["records"]: the records that "why" has fetched
    opened,    \* the records of another that the page shows
    events     \* how many events there were

page == <<listed, click, message, history, kept, opened>>
vars == <<apiVars, user, waits, page, events>>

NoClick == [id |-> 0]
NoMessage == [kind |-> "none"]

Init ==
    /\ ApiInit
    /\ user \in Employees
    /\ waits = NoSlot
    /\ listed = <<>>
    /\ click = NoClick
    /\ message = NoMessage
    /\ history = {} /\ kept = {} /\ opened = {}
    /\ events = 0

-----------------------------------------------------------------------------
(* A call that the page has given up runs on in its slot. *)
Idle == waits = NoSlot

Post(k, call) == calls' = [calls EXCEPT ![k] = call]
Call(kind, target, choice) == NewCall(kind, user, target, choice, user, Unseen, TRUE)

NewEvent == events < MaxEvents /\ events' = events + 1

(* An event: a run of the script posts its first call and waits.  Only the *)
(* open tab is drawn, so what another tab showed is gone.                  *)
Run(k, call) ==
    /\ Idle /\ IsFree(k)
    /\ Post(k, call)
    /\ waits' = k
    /\ listed' = IF call.kind = "approvals" THEN listed ELSE <<>>
    /\ message' = NoMessage
    /\ opened' = {}
    /\ NewEvent
    /\ UNCHANGED <<server, user, history, kept>>

Back(kind) == ~Idle /\ Answered(waits) /\ calls[waits].kind = kind
Came(kind) == Back(kind) /\ calls[waits].status = "ok"
End == waits' = NoSlot /\ Post(waits, Free)
Leave == waits' = NoSlot /\ calls' = [calls EXCEPT ![waits].heard = FALSE]

SelectUser(e) ==
    /\ Idle /\ e # user
    /\ user' = e
    /\ NewEvent
    /\ UNCHANGED <<apiVars, waits, page>>

Ask(k) == Run(k, Call("chat", 0, "none")) /\ UNCHANGED click

TakeReply ==
    /\ Came("chat")
    /\ End
    /\ history' = history \cup {[by |-> user, request |-> calls[waits].body, vote |-> "none"]}
    /\ UNCHANGED <<server, user, listed, click, message, kept, opened, events>>

-----------------------------------------------------------------------------
(* The approvals tab.  Each run first fetches the list.                    *)
LookAtQueue(k) == Run(k, Call("approvals", 0, "none")) /\ UNCHANGED click

Click(k, id, choice) ==
    /\ Run(k, Call("approvals", 0, "none"))
    /\ click' = [id |-> id, choice |-> choice, row |-> listed[id]]

(* Without a click, or when the clicked action is no longer in the list,   *)
(* the run only draws the list.                                            *)
TakeQueue ==
    /\ Came("approvals")
    /\ listed' = calls[waits].body
    /\ click' = NoClick
    /\ IF click.id \in DOMAIN calls[waits].body
       THEN /\ Post(waits, [Call("decide", click.id, click.choice) EXCEPT
                                !.subject = click.row.owner, !.payload = click.row.payload])
            /\ UNCHANGED waits
       ELSE End
    /\ UNCHANGED <<server, user, message, history, kept, opened, events>>

(* The message is kept, and the run starts again with a new list.          *)
Report(m) ==
    /\ message' = m
    /\ Post(waits, Call("approvals", 0, "none"))
    /\ UNCHANGED <<server, user, waits, listed, click, history, kept, opened, events>>

TakeDecisionResult ==
    /\ Back("decide")
    /\ Report(IF Came("decide")
              THEN [kind |-> "success", id |-> calls[waits].target, by |-> user,
                    choice |-> calls[waits].choice, status |-> calls[waits].body]
              ELSE [kind |-> "error"])

-----------------------------------------------------------------------------
(* The vote on a reply of the selected employee.  Nothing of streamlit     *)
(* runs between the answer and the note in the history.                    *)
Rate(k, item, rating) ==
    /\ item.by = user /\ item.vote = "none"
    /\ Run(k, Call("feedback", item.request, rating))
    /\ UNCHANGED click

TakeVote ==
    /\ Came("feedback")
    /\ End
    /\ history' = {IF item.request = calls[waits].target
                   THEN [item EXCEPT !.vote = calls[waits].choice] ELSE item : item \in history}
    /\ UNCHANGED <<server, user, listed, click, message, kept, opened, events>>

-----------------------------------------------------------------------------
(* "Why this answer?" under a reply of an HR partner: fetched once.        *)
AskWhy(k, item) ==
    /\ item.by = user /\ user \in Partners /\ item.request \notin kept
    /\ Run(k, Call("record", item.request, "why"))
    /\ UNCHANGED click

(* The records tab: the list of an employee, then the row that is selected. *)
OpenRecords(k, e) ==
    /\ Run(k, [Call("records", 0, "none") EXCEPT !.subject = e])
    /\ UNCHANGED click

Opened(e, r) == IF e = user THEN {} ELSE {[viewer |-> user, subject |-> e, request |-> r]}

TakeRecords ==
    /\ Came("records")
    /\ LET rows == calls[waits].body
       IN  /\ opened' = IF rows = {} THEN {} ELSE Opened(calls[waits].subject, 0)
           /\ \/ End
              \/ \E r \in rows : /\ Post(waits, Call("record", r, "tab"))
                                 /\ UNCHANGED waits
    /\ UNCHANGED <<server, user, listed, click, message, history, kept, events>>

TakeRecord ==
    /\ Came("record")
    /\ End
    /\ opened' = opened \cup Opened(calls[waits].body, calls[waits].target)
    /\ kept' = IF calls[waits].choice = "why" THEN kept \cup {calls[waits].target} ELSE kept
    /\ UNCHANGED <<server, user, listed, click, message, history, events>>

-----------------------------------------------------------------------------
(* An error is shown; nothing is kept.  The call timed out, or was refused. *)
TimesOut == Underway(waits)
Refused == Answered(waits) /\ calls[waits].status # "ok"

ShowError ==
    /\ ~Idle /\ calls[waits].kind # "decide"
    /\ (TimesOut /\ Leave) \/ (Refused /\ End)
    /\ click' = NoClick
    /\ UNCHANGED <<server, user, listed, message, history, kept, opened, events>>

(* A decision that timed out goes on in its slot; the page reports an error *)
(* and fetches the list in another.                                        *)
GiveUpDecision(k) ==
    /\ ~Idle /\ TimesOut /\ calls[waits].kind = "decide"
    /\ IsFree(k)
    /\ message' = [kind |-> "error"]
    /\ calls' = [calls EXCEPT ![waits].heard = FALSE, ![k] = Call("approvals", 0, "none")]
    /\ waits' = k
    /\ UNCHANGED <<server, user, listed, click, history, kept, opened, events>>

(* An event came while the script waited: its answer is dropped, and with  *)
(* it the reply, the click or the message.                                 *)
Interrupt(e) ==
    /\ ~Idle /\ calls[waits].kind \in {"chat", "approvals", "decide"}
    /\ (TimesOut /\ Leave) \/ (Answered(waits) /\ End)
    /\ click' = NoClick
    /\ user' = e
    /\ NewEvent
    /\ UNCHANGED <<server, listed, message, history, kept, opened>>

-----------------------------------------------------------------------------
(* Clients other than this page.                                           *)
OtherCall(k) ==
    /\ IsFree(k)
    /\ \E e \in Others :
          \/ Post(k, NewCall("chat", e, 0, "none", e, Unseen, FALSE))
          \/ \E i \in DOMAIN actions, choice \in {"approve", "reject"} :
                Post(k, NewCall("decide", e, i, choice, e, Unseen, FALSE))
    /\ UNCHANGED <<server, user, waits, page, events>>

Handler(k) == Handle(k) /\ UNCHANGED <<user, waits, page, events>>
SeedStep == Seed /\ UNCHANGED <<user, waits, page, events>>

Next ==
    \/ \E k \in Slots : Handler(k) \/ OtherCall(k)
    \/ SeedStep
    \/ \E e \in Employees : SelectUser(e) \/ Interrupt(e)
    \/ \E k \in Slots : Ask(k) \/ LookAtQueue(k) \/ GiveUpDecision(k)
    \/ \E k \in Slots, id \in DOMAIN listed, c \in {"approve", "reject"} : Click(k, id, c)
    \/ \E k \in Slots, item \in history, rating \in {"up", "down"} : Rate(k, item, rating)
    \/ \E k \in Slots, item \in history : AskWhy(k, item)
    \/ \E k \in Slots, e \in Employees : OpenRecords(k, e)
    \/ TakeReply \/ TakeQueue \/ TakeDecisionResult \/ TakeVote \/ TakeRecords \/ TakeRecord
    \/ ShowError

Spec == Init /\ [][Next]_vars

-----------------------------------------------------------------------------
(* A decision made with a button of the page is a decision on the request  *)
(* that stood beside that button: the button and the call carry only the   *)
(* id, and a seed may have put other requests into the table since.        *)
DecidesWhatWasShown ==
    \A i \in DOMAIN actions \ Pending :
        actions[i].shown[2] # Unseen => actions[i].shown = <<actions[i].owner, actions[i].payload>>

(* What the page says was saved was saved, by this employee: the choice    *)
(* that was clicked, the vote in the history, the record of each reply.    *)
PageTellsTruth ==
    /\ message.kind = "success" =>
         /\ message.status = NewStatus(message.choice)
         /\ Event("action_decided", message.by, message.id, message.status) \in audit
    /\ \A item \in history :
         /\ Event("decision_recorded", item.by, item.request, "record") \in audit
         /\ item.vote # "none" =>
              Event("feedback_received", item.by, item.request, item.vote) \in audit

(* No record of another employee reaches a page before the audit event     *)
(* about it is saved, whatever fails or is given up on the way.            *)
NoUnauditedView ==
    \A o \in opened :
        Event("decision_records_viewed", o.viewer, o.request, o.subject) \in audit

=============================================================================
