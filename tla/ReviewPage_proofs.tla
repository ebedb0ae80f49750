-------------------------- MODULE ReviewPage_proofs ---------------------------
(***************************************************************************)
(* For any number of employees, calls, proposals, requests, seeds and      *)
(* events: a decision of the page is about the request that it showed, the *)
(* page reports as saved only what was saved, and it shows no record of    *)
(* another that is not in the audit log.                                   *)
(***************************************************************************)
EXTENDS ReviewPage, TLAPS

USE ApiCallsAssumption, ReviewPageAssumption

-----------------------------------------------------------------------------
(* The inductive invariant.  Its parts are about a call, a row or an event *)
(* beside the table of actions (acts), the next id of one (next) and the   *)
(* audit log (log).                                                        *)

(* What a client saw of an action is still what the table has, if it has   *)
(* the action at all.                                                      *)
RowFits(i, row, acts, next) ==
    /\ i \in 1..(next - 1)
    /\ i \in DOMAIN acts => acts[i].owner = row.owner /\ acts[i].payload = row.payload

RowsFit(rows, acts, next) == \A i \in DOMAIN rows : RowFits(i, rows[i], acts, next)

CallFields ==
    {"step", "kind", "by", "target", "choice", "subject", "payload", "heard", "status", "body"}

Recorded(e, r) == Event("decision_recorded", e, r, "record")

(* What an answer says was committed before it.                            *)
AnswerFits(c, acts, next, log) ==
    /\ c.kind = "chat" => Recorded(c.by, c.body) \in log
    /\ c.kind = "approvals" => RowsFit(c.body, acts, next)
    /\ c.kind = "decide" =>
          /\ c.body = NewStatus(c.choice)
          /\ Event("action_decided", c.by, c.target, c.body) \in log
    /\ c.kind = "feedback" =>
          /\ Recorded(c.by, c.target) \in log
          /\ Event("feedback_received", c.by, c.target, c.choice) \in log
    /\ c.kind = "records" =>
          \/ c.subject = c.by
          \/ Event("decision_records_viewed", c.by, 0, c.subject) \in log
    /\ c.kind = "record" =>
          \/ c.body = c.by
          \/ Event("decision_records_viewed", c.by, c.target, c.body) \in log

CallFits(c, acts, next, log) ==
    c.step # "free" =>
       /\ DOMAIN c = CallFields /\ c.heard \in BOOLEAN
       /\ (c.kind = "decide" /\ c.payload # Unseen) =>
             RowFits(c.target, [owner |-> c.subject, payload |-> c.payload], acts, next)
       /\ (c.step = "answered" /\ c.status = "ok") => AnswerFits(c, acts, next, log)

CallsFit == DOMAIN calls = Slots /\ \A k \in Slots : CallFits(calls[k], actions, nextAction, audit)

ActionFields == {"owner", "payload", "status", "shown"}

ActionsFit ==
    /\ nextAction \in Nat \ {0}
    /\ \A i \in DOMAIN actions :
          /\ i \in 1..(nextAction - 1)
          /\ DOMAIN actions[i] = ActionFields
          /\ actions[i].shown[2] # Unseen => actions[i].shown = <<actions[i].owner, actions[i].payload>>

(* One employee made each request, and its record is audited.              *)
RecordsFit ==
    /\ nextRequest \in Nat \ {0}
    /\ \A r \in DOMAIN records : Recorded(records[r], r) \in audit
    /\ \A x \in audit : x.event = "decision_recorded" =>
          /\ x.id \in 1..(nextRequest - 1)
          /\ \A y \in audit : y.event = "decision_recorded" /\ y.id = x.id => y.by = x.by

(* The script waits for a call of the selected employee.                   *)
WaitFits ==
    waits # NoSlot =>
       /\ waits \in Slots
       /\ calls[waits].step # "free" /\ calls[waits].heard = TRUE /\ calls[waits].by = user

RowsShownFit ==
    /\ RowsFit(listed, actions, nextAction)
    /\ click.id # 0 => RowFits(click.id, click.row, actions, nextAction)

HistoryFits == \A item \in history : DOMAIN item = {"by", "request", "vote"}

PageInvariant ==
    /\ CallsFit /\ ActionsFit /\ RecordsFit /\ WaitFits /\ RowsShownFit /\ HistoryFits
    /\ PageTellsTruth /\ NoUnauditedView

-----------------------------------------------------------------------------
(* What the other clients and the seed leave of the database.              *)

Grows(acts, next, log, acts2, next2, log2) ==
    /\ next \in Nat /\ next2 \in Nat /\ next <= next2
    /\ log \subseteq log2
    /\ \A i \in 1..(next - 1) : i \in DOMAIN acts2 =>
          /\ i \in DOMAIN acts
          /\ acts2[i].owner = acts[i].owner /\ acts2[i].payload = acts[i].payload

LEMMA RowStaysFit ==
    ASSUME NEW acts, NEW next, NEW log, NEW acts2, NEW next2, NEW log2,
           Grows(acts, next, log, acts2, next2, log2),
           NEW i, NEW row, RowFits(i, row, acts, next)
    PROVE  RowFits(i, row, acts2, next2)
BY DEF Grows, RowFits

LEMMA RowsStayFit ==
    ASSUME NEW acts, NEW next, NEW log, NEW acts2, NEW next2, NEW log2,
           Grows(acts, next, log, acts2, next2, log2),
           NEW rows, RowsFit(rows, acts, next)
    PROVE  RowsFit(rows, acts2, next2)
BY RowStaysFit DEF RowsFit

LEMMA AnswerStaysFit ==
    ASSUME NEW acts, NEW next, NEW log, NEW acts2, NEW next2, NEW log2,
           Grows(acts, next, log, acts2, next2, log2),
           NEW c, AnswerFits(c, acts, next, log)
    PROVE  AnswerFits(c, acts2, next2, log2)
<1>1. log \subseteq log2
    BY DEF Grows
<1> QED BY <1>1, RowsStayFit DEF AnswerFits

LEMMA CallStaysFit ==
    ASSUME NEW acts, NEW next, NEW log, NEW acts2, NEW next2, NEW log2,
           Grows(acts, next, log, acts2, next2, log2),
           NEW c, CallFits(c, acts, next, log)
    PROVE  CallFits(c, acts2, next2, log2)
BY RowStaysFit, AnswerStaysFit DEF CallFits

-----------------------------------------------------------------------------
(* Calls. *)

Kinds == DOMAIN FirstStep

(* A call with nothing seen, or with a row that fits.                      *)
LEMMA NewCallFits ==
    ASSUME NEW c, DOMAIN c = CallFields, c.step # "answered", c.heard \in BOOLEAN,
           NEW acts, NEW next, NEW log,
           \/ c.kind # "decide" \/ c.payload = Unseen
           \/ RowFits(c.target, [owner |-> c.subject, payload |-> c.payload], acts, next)
    PROVE  CallFits(c, acts, next, log)
BY DEF CallFits

(* An answer keeps the call.                                               *)
LEMMA AnswerIs ==
    ASSUME CallsFit, NEW k \in Slots, ~IsFree(k), NEW status, NEW body, Answer(k, status, body)
    PROVE  /\ DOMAIN calls' = Slots
           /\ \A j \in Slots \ {k} : calls'[j] = calls[j]
           /\ calls[k].heard \in BOOLEAN
           /\ ~calls[k].heard => calls'[k] = Free /\ calls'[k].step = "free"
           /\ calls[k].heard =>
                 /\ DOMAIN calls'[k] = CallFields /\ calls'[k].heard = calls[k].heard
                 /\ calls'[k].step = "answered" /\ calls'[k].payload = Unseen
                 /\ calls'[k].status = status /\ calls'[k].body = body
                 /\ calls'[k].kind = calls[k].kind /\ calls'[k].by = calls[k].by
                 /\ calls'[k].target = calls[k].target /\ calls'[k].choice = calls[k].choice
                 /\ calls'[k].subject = calls[k].subject
<1>1. DOMAIN calls[k] = CallFields /\ calls[k].heard \in BOOLEAN /\ DOMAIN calls = Slots
    BY DEF CallsFit, CallFits, IsFree
<1> QED BY <1>1 DEF Answer, Free, CallFields

-----------------------------------------------------------------------------
(* Handlers: what each leaves of the database, and of its call.            *)

DatabaseFits == ActionsFit /\ RecordsFit

DatabaseGrows == Grows(actions, nextAction, audit, actions', nextAction', audit')

(* What becomes of the call in slot k; a client that waits, waits on.      *)
CallGoesOn(k) ==
    /\ DOMAIN calls' = Slots
    /\ \A j \in Slots \ {k} : calls'[j] = calls[j]
    /\ CallFits(calls'[k], actions', nextAction', audit')
    /\ calls[k].heard = TRUE =>
          /\ calls'[k].step # "free" /\ calls'[k].heard = TRUE
          /\ calls'[k].by = calls[k].by

HandlerOutcome(k) == DatabaseGrows /\ DatabaseFits' /\ CallGoesOn(k)

LEMMA DatabaseUnchanged ==
    ASSUME DatabaseFits, UNCHANGED server
    PROVE  DatabaseGrows /\ DatabaseFits'
<1>1. /\ actions' = actions /\ nextAction' = nextAction /\ audit' = audit
      /\ records' = records /\ nextRequest' = nextRequest
    BY DEF server
<1>2. nextAction \in Nat
    BY DEF DatabaseFits, ActionsFit
<1>3. DatabaseGrows
    BY <1>1, <1>2 DEF DatabaseGrows, Grows
<1>4. DatabaseFits'
    BY <1>1 DEF DatabaseFits, ActionsFit, RecordsFit
<1> QED BY <1>3, <1>4

LEMMA AnswerGoesOn ==
    ASSUME CallsFit, NEW k \in Slots, ~IsFree(k), NEW status, NEW body, Answer(k, status, body),
           (status = "ok" /\ calls[k].heard) =>
                AnswerFits(calls'[k], actions', nextAction', audit')
    PROVE  CallGoesOn(k)
<1>1. /\ DOMAIN calls' = Slots
      /\ \A j \in Slots \ {k} : calls'[j] = calls[j]
      /\ calls[k].heard \in BOOLEAN
      /\ ~calls[k].heard => calls'[k].step = "free"
      /\ calls[k].heard =>
            /\ DOMAIN calls'[k] = CallFields /\ calls'[k].heard = calls[k].heard
            /\ calls'[k].step = "answered" /\ calls'[k].payload = Unseen
            /\ calls'[k].status = status
            /\ calls'[k].by = calls[k].by
    BY AnswerIs
<1>2. CASE ~calls[k].heard
    BY <1>1, <1>2 DEF CallGoesOn, CallFits
<1>3. CASE calls[k].heard
  <2>1. CallFits(calls'[k], actions', nextAction', audit')
      BY <1>1, <1>3 DEF CallFits
  <2> QED BY <1>1, <1>3, <2>1 DEF CallGoesOn
<1> QED BY <1>2, <1>3

Errors == {"forbidden", "missing", "error", "conflict"}

LEMMA RefusalGoesOn ==
    ASSUME CallsFit, DatabaseFits, NEW k \in Slots, ~IsFree(k), NEW status \in Errors,
           Answer(k, status, {}), UNCHANGED server
    PROVE  HandlerOutcome(k)
<1>1. status # "ok"
    BY DEF Errors
<1> QED BY <1>1, AnswerGoesOn, DatabaseUnchanged DEF HandlerOutcome

(* A call that goes on to another statement, and remembers what it read.   *)
LEMMA StatementGoesOn ==
    ASSUME CallsFit, DatabaseFits, NEW k \in Slots, calls[k].step \notin {"free", "answered"},
           NEW c, DOMAIN c = CallFields, c.step \notin {"free", "answered"},
           c.kind = calls[k].kind, c.by = calls[k].by, c.heard = calls[k].heard,
           c.payload = calls[k].payload,
           c.kind = "decide" => c.target = calls[k].target /\ c.subject = calls[k].subject,
           calls' = [calls EXCEPT ![k] = c],
           DatabaseGrows
    PROVE  CallGoesOn(k)
<1>1. CallFits(calls[k], actions, nextAction, audit) /\ DOMAIN calls = Slots
    BY DEF CallsFit
<1>2. CallFits(c, actions, nextAction, audit)
    BY <1>1 DEF CallFits
<1>3. CallFits(c, actions', nextAction', audit')
    BY <1>2, CallStaysFit DEF DatabaseGrows
<1> QED BY <1>1, <1>3 DEF CallGoesOn

LEMMA FirstStepsAre ==
    ASSUME CallsFit, NEW k \in Slots, NEW kind, NEW step, At(k, kind, step),
           step \notin {"free", "answered"}
    PROVE  /\ ~IsFree(k) /\ calls[k].kind = kind /\ calls[k].step = step
           /\ DOMAIN calls[k] = CallFields /\ calls[k].heard \in BOOLEAN
           /\ CallFits(calls[k], actions, nextAction, audit)
BY DEF CallsFit, CallFits, At, IsFree

(* A new step, the rest unchanged. *)
LEMMA GotoGoesOn ==
    ASSUME CallsFit, DatabaseFits, NEW k \in Slots, calls[k].step \notin {"free", "answered"},
           NEW step, step \notin {"free", "answered"}, Goto(k, step), DatabaseGrows
    PROVE  CallGoesOn(k)
<1> DEFINE c == [calls[k] EXCEPT !.step = step]
<1>1. DOMAIN calls[k] = CallFields
    BY DEF CallsFit, CallFits
<1>2. /\ DOMAIN c = CallFields /\ c.step = step
      /\ c.kind = calls[k].kind /\ c.by = calls[k].by /\ c.heard = calls[k].heard
      /\ c.payload = calls[k].payload /\ c.target = calls[k].target
      /\ c.subject = calls[k].subject
    BY <1>1 DEF CallFields
<1>3. calls' = [calls EXCEPT ![k] = c]
    BY DEF Goto
<1> HIDE DEF c
<1> QED BY <1>2, <1>3, StatementGoesOn

LEMMA ProposeOutcome ==
    ASSUME CallsFit, DatabaseFits, NEW k \in Slots, Propose(k)
    PROVE  HandlerOutcome(k)
<1>1. PICK p \in Payloads :
          actions' = Insert(actions, nextAction,
              [owner |-> calls[k].by, payload |-> p, status |-> "pending_approval",
               shown |-> <<calls[k].by, Unseen>>])
    BY DEF Propose
<1> DEFINE row == [owner |-> calls[k].by, payload |-> p, status |-> "pending_approval",
                   shown |-> <<calls[k].by, Unseen>>]
<1>2. DOMAIN row = ActionFields /\ row.shown[2] = Unseen
    BY DEF ActionFields
<1> HIDE DEF row
<1>3. /\ DOMAIN actions' = DOMAIN actions \cup {nextAction}
      /\ actions'[nextAction] = row
      /\ \A i \in DOMAIN actions : i # nextAction => actions'[i] = actions[i]
    BY <1>1 DEF Insert, row
<1>4. /\ nextAction \in Nat \ {0} /\ nextAction' = nextAction + 1
      /\ \A i \in DOMAIN actions : i \in 1..(nextAction - 1)
    BY DEF Propose, DatabaseFits, ActionsFit
<1>5. records' = records /\ nextRequest' = nextRequest /\ audit' = audit
    BY DEF Propose
<1>6. DatabaseGrows
    BY <1>3, <1>4, <1>5 DEF DatabaseGrows, Grows
<1>7. ActionsFit'
  <2> SUFFICES ASSUME NEW i \in DOMAIN actions'
               PROVE  /\ i \in 1..(nextAction' - 1)
                      /\ DOMAIN actions'[i] = ActionFields
                      /\ actions'[i].shown[2] # Unseen =>
                            actions'[i].shown = <<actions'[i].owner, actions'[i].payload>>
      BY <1>4 DEF ActionsFit
  <2>1. CASE i = nextAction
      BY <1>2, <1>3, <1>4, <2>1
  <2>2. CASE i # nextAction
    <3>1. i \in DOMAIN actions /\ actions'[i] = actions[i]
        BY <1>3, <2>2
    <3>2. i \in 1..(nextAction' - 1)
        BY <1>4, <3>1
    <3> QED BY <3>1, <3>2 DEF DatabaseFits, ActionsFit
  <2> QED BY <2>1, <2>2
<1>8. RecordsFit'
    BY <1>5 DEF DatabaseFits, RecordsFit
<1>9. CallGoesOn(k)
    BY <1>6, FirstStepsAre, GotoGoesOn DEF Propose
<1> QED BY <1>6, <1>7, <1>8, <1>9 DEF HandlerOutcome, DatabaseFits

LEMMA SaveRecordOutcome ==
    ASSUME CallsFit, DatabaseFits, NEW k \in Slots, SaveRecord(k)
    PROVE  HandlerOutcome(k)
<1>1. ~IsFree(k) /\ calls[k].kind = "chat"
    BY FirstStepsAre DEF SaveRecord
<1>2. /\ actions' = actions /\ nextAction' = nextAction
      /\ nextRequest' = nextRequest + 1
      /\ records' = Insert(records, nextRequest, calls[k].by)
      /\ audit' = audit \cup {Recorded(calls[k].by, nextRequest)}
      /\ Answer(k, "ok", nextRequest)
    BY DEF SaveRecord, Recorded
<1>3. DatabaseGrows
    BY <1>2 DEF DatabaseGrows, Grows, DatabaseFits, ActionsFit
<1>4. ActionsFit'
    BY <1>2 DEF DatabaseFits, ActionsFit
<1>5. RecordsFit'
  <2> DEFINE new == Recorded(calls[k].by, nextRequest)
  <2>1. /\ nextRequest \in Nat \ {0}
        /\ \A r \in DOMAIN records : Recorded(records[r], r) \in audit
        /\ \A x \in audit : x.event = "decision_recorded" =>
              /\ x.id \in 1..(nextRequest - 1)
              /\ \A y \in audit : y.event = "decision_recorded" /\ y.id = x.id => y.by = x.by
      BY DEF DatabaseFits, RecordsFit
  <2>2. new.id = nextRequest
      BY DEF Recorded, Event
  <2> HIDE DEF new
  <2>3. \A r \in DOMAIN records' : Recorded(records'[r], r) \in audit'
    <3> SUFFICES ASSUME NEW r \in DOMAIN records'
                 PROVE  Recorded(records'[r], r) \in audit'
        OBVIOUS
    <3>1. CASE r = nextRequest
      <4>1. records'[r] = calls[k].by
          BY <1>2, <3>1 DEF Insert
      <4> QED BY <1>2, <3>1, <4>1
    <3>2. CASE r # nextRequest
      <4>1. r \in DOMAIN records /\ records'[r] = records[r]
          BY <1>2, <3>2 DEF Insert
      <4> QED BY <1>2, <2>1, <4>1
    <3> QED BY <3>1, <3>2
  <2>4. \A x \in audit' : x.event = "decision_recorded" =>
           /\ x.id \in 1..(nextRequest' - 1)
           /\ \A y \in audit' : y.event = "decision_recorded" /\ y.id = x.id => y.by = x.by
    <3> SUFFICES ASSUME NEW x \in audit', x.event = "decision_recorded"
                 PROVE  /\ x.id \in 1..(nextRequest' - 1)
                        /\ \A y \in audit' :
                              y.event = "decision_recorded" /\ y.id = x.id => y.by = x.by
        OBVIOUS
    <3>1. \A y \in audit' : y \in audit \/ y = new
        BY <1>2 DEF new
    <3>2. \A y \in audit : y.event = "decision_recorded" => y.id # nextRequest
        BY <2>1
    <3>3. CASE x = new
        BY <1>2, <2>1, <2>2, <3>1, <3>2, <3>3
    <3>4. CASE x # new
      <4>1. x \in audit /\ x.id \in 1..(nextRequest - 1) /\ x.id # nextRequest
          BY <2>1, <3>1, <3>2, <3>4
      <4>2. x.id \in 1..(nextRequest' - 1)
          BY <1>2, <2>1, <4>1
      <4> QED BY <2>1, <2>2, <3>1, <4>1, <4>2
    <3> QED BY <3>3, <3>4
  <2> QED BY <1>2, <2>1, <2>3, <2>4 DEF RecordsFit
<1>6. calls[k].heard => AnswerFits(calls'[k], actions', nextAction', audit')
    BY <1>1, <1>2, AnswerIs DEF AnswerFits
<1>7. CallGoesOn(k)
    BY <1>1, <1>2, <1>6, AnswerGoesOn
<1> QED BY <1>3, <1>4, <1>5, <1>7 DEF HandlerOutcome, DatabaseFits

LEMMA ListPendingOutcome ==
    ASSUME CallsFit, DatabaseFits, NEW k \in Slots, ListPending(k)
    PROVE  HandlerOutcome(k)
<1> DEFINE body == [i \in Pending |-> [owner |-> actions[i].owner, payload |-> actions[i].payload]]
<1>1. ~IsFree(k) /\ calls[k].kind = "approvals" /\ UNCHANGED server
    BY FirstStepsAre DEF ListPending
<1>2. CASE Answer(k, "ok", body)
  <2>1. DatabaseGrows /\ DatabaseFits'
      BY <1>1, DatabaseUnchanged
  <2>2. RowsFit(body, actions, nextAction)
    <3>1. \A i \in Pending : i \in DOMAIN actions /\ i \in 1..(nextAction - 1)
        BY DEF Pending, DatabaseFits, ActionsFit
    <3> QED BY <3>1 DEF RowsFit, RowFits
  <2>3. RowsFit(body, actions', nextAction')
      BY <2>1, <2>2, RowsStayFit DEF DatabaseGrows
  <2> HIDE DEF body
  <2>4. calls[k].heard => AnswerFits(calls'[k], actions', nextAction', audit')
      BY <1>1, <1>2, <2>3, AnswerIs DEF AnswerFits
  <2> QED BY <1>1, <1>2, <2>1, <2>4, AnswerGoesOn DEF HandlerOutcome
<1>3. CASE Answer(k, "forbidden", {})
    BY <1>1, <1>3, RefusalGoesOn DEF Errors
<1> QED BY <1>2, <1>3 DEF ListPending

LEMMA ValidateOutcome ==
    ASSUME CallsFit, DatabaseFits, NEW k \in Slots, Validate(k)
    PROVE  HandlerOutcome(k)
<1>1. ~IsFree(k) /\ calls[k].step \notin {"free", "answered"}
    BY FirstStepsAre DEF Validate
<1>2. CASE Refuse(k, "forbidden") \/ Refuse(k, "missing")
    BY <1>1, <1>2, RefusalGoesOn DEF Refuse, Errors
<1>3. CASE Goto(k, "lock") /\ UNCHANGED server
    BY <1>1, <1>3, GotoGoesOn, DatabaseUnchanged DEF HandlerOutcome
<1> QED BY <1>2, <1>3 DEF Validate

(* The decided row keeps what the client saw of it, which fits the row.    *)
LEMMA TakeDecisionOutcome ==
    ASSUME CallsFit, DatabaseFits, NEW k \in Slots, At(k, "decide", "lock"), TakeDecision(k)
    PROVE  HandlerOutcome(k)
<1> DEFINE d == calls[k].target
           status == NewStatus(calls[k].choice)
           shown == <<calls[k].subject, calls[k].payload>>
<1>1. /\ ~IsFree(k) /\ calls[k].kind = "decide"
      /\ CallFits(calls[k], actions, nextAction, audit) /\ calls[k].step # "free"
    BY FirstStepsAre DEF IsFree
<1>2. /\ d \in DOMAIN actions
      /\ actions' = [actions EXCEPT ![d].status = status, ![d].shown = shown]
      /\ audit' = audit \cup {Event("action_decided", calls[k].by, d, status)}
      /\ Answer(k, "ok", status)
      /\ nextAction' = nextAction /\ records' = records /\ nextRequest' = nextRequest
    BY DEF TakeDecision, Pending
<1>3. /\ nextAction \in Nat \ {0}
      /\ \A i \in DOMAIN actions :
            /\ i \in 1..(nextAction - 1)
            /\ DOMAIN actions[i] = ActionFields
            /\ actions[i].shown[2] # Unseen =>
                  actions[i].shown = <<actions[i].owner, actions[i].payload>>
    BY DEF DatabaseFits, ActionsFit
<1>4. calls[k].payload # Unseen =>
         actions[d].owner = calls[k].subject /\ actions[d].payload = calls[k].payload
    BY <1>1, <1>2 DEF CallFits, RowFits
<1> HIDE DEF d, status
<1>5. /\ DOMAIN actions' = DOMAIN actions
      /\ \A i \in DOMAIN actions : i # d => actions'[i] = actions[i]
      /\ DOMAIN actions'[d] = ActionFields /\ actions'[d].shown = shown
      /\ actions'[d].owner = actions[d].owner /\ actions'[d].payload = actions[d].payload
    BY <1>2, <1>3 DEF ActionFields
<1>6. DatabaseGrows
    BY <1>2, <1>3, <1>5 DEF DatabaseGrows, Grows
<1>7. actions'[d].shown[2] # Unseen =>
         actions'[d].shown = <<actions'[d].owner, actions'[d].payload>>
    BY <1>4, <1>5
<1> HIDE DEF shown
<1>8. ActionsFit'
    BY <1>2, <1>3, <1>5, <1>7 DEF ActionsFit
<1>9. RecordsFit'
  <2>1. Event("action_decided", calls[k].by, d, status).event # "decision_recorded"
      BY DEF Event
  <2>2. \A x \in audit' : x.event = "decision_recorded" => x \in audit
      BY <1>2, <2>1
  <2> QED BY <1>2, <2>2 DEF DatabaseFits, RecordsFit
<1>10. calls[k].heard => AnswerFits(calls'[k], actions', nextAction', audit')
    BY <1>1, <1>2, AnswerIs DEF AnswerFits, d, status
<1>11. CallGoesOn(k)
    BY <1>1, <1>2, <1>10, AnswerGoesOn
<1> QED BY <1>6, <1>8, <1>9, <1>11 DEF HandlerOutcome, DatabaseFits

LEMMA DecideOutcome ==
    ASSUME CallsFit, DatabaseFits, NEW k \in Slots, Decide(k)
    PROVE  HandlerOutcome(k)
<1>1. ~IsFree(k)
    BY FirstStepsAre DEF Decide
<1>2. CASE RefuseDecision(k) \/ RefuseForBalance(k)
    BY <1>1, <1>2, RefusalGoesOn DEF RefuseDecision, RefuseForBalance, Refuse, Errors
<1>3. CASE TakeDecision(k)
    BY <1>3, TakeDecisionOutcome DEF Decide
<1> QED BY <1>2, <1>3 DEF Decide

LEMMA SaveFeedbackOutcome ==
    ASSUME CallsFit, DatabaseFits, NEW k \in Slots, SaveFeedback(k)
    PROVE  HandlerOutcome(k)
<1> DEFINE vote == Event("feedback_received", calls[k].by, calls[k].target, calls[k].choice)
<1>1. ~IsFree(k) /\ calls[k].kind = "feedback"
    BY FirstStepsAre DEF SaveFeedback
<1>2. /\ actions' = actions /\ nextAction' = nextAction
      /\ records' = records /\ nextRequest' = nextRequest
      /\ audit' = audit \cup {vote}
      /\ Answer(k, "ok", calls[k].choice)
    BY DEF SaveFeedback
<1>3. Recorded(calls[k].by, calls[k].target) \in audit
    BY DEF SaveFeedback, RatesOwnRecord, DatabaseFits, RecordsFit
<1>4. DatabaseGrows
    BY <1>2 DEF DatabaseGrows, Grows, DatabaseFits, ActionsFit
<1>5. ActionsFit'
    BY <1>2 DEF DatabaseFits, ActionsFit
<1>6. RecordsFit'
  <2>1. vote.event # "decision_recorded"
      BY DEF Event
  <2>2. \A x \in audit' : x.event = "decision_recorded" => x \in audit
      BY <1>2, <2>1
  <2> HIDE DEF vote
  <2> QED BY <1>2, <2>2 DEF DatabaseFits, RecordsFit
<1>7. calls[k].heard => AnswerFits(calls'[k], actions', nextAction', audit')
    BY <1>1, <1>2, <1>3, AnswerIs DEF AnswerFits
<1>8. CallGoesOn(k)
    BY <1>1, <1>2, <1>7, AnswerGoesOn
<1> QED BY <1>4, <1>5, <1>6, <1>8 DEF HandlerOutcome, DatabaseFits

LEMMA ValidatePartnerOutcome ==
    ASSUME CallsFit, DatabaseFits, NEW k \in Slots, ValidatePartner(k)
    PROVE  HandlerOutcome(k)
<1>1. /\ ~IsFree(k) /\ calls[k].step \notin {"free", "answered"}
      /\ UNCHANGED server
    BY FirstStepsAre DEF ValidatePartner, AtRole
<1>2. CASE Goto(k, "read")
    BY <1>1, <1>2, GotoGoesOn, DatabaseUnchanged DEF HandlerOutcome
<1>3. CASE Answer(k, "forbidden", {})
    BY <1>1, <1>3, RefusalGoesOn DEF Errors
<1> QED BY <1>2, <1>3 DEF ValidatePartner

LEMMA ReadRecordsOutcome ==
    ASSUME CallsFit, DatabaseFits, NEW k \in Slots, ReadRecords(k)
    PROVE  HandlerOutcome(k)
<1> DEFINE rows == RecordsOf(calls[k].subject)
           c == [calls[k] EXCEPT !.step = "view", !.target = rows]
<1>1. /\ ~IsFree(k) /\ calls[k].kind = "records" /\ calls[k].step \notin {"free", "answered"}
      /\ DOMAIN calls[k] = CallFields
      /\ UNCHANGED server
    BY FirstStepsAre DEF ReadRecords
<1>2. DatabaseGrows /\ DatabaseFits'
    BY <1>1, DatabaseUnchanged
<1> HIDE DEF rows
<1>3. CASE calls[k].subject = calls[k].by /\ Answer(k, "ok", rows)
  <2>1. calls[k].heard => AnswerFits(calls'[k], actions', nextAction', audit')
      BY <1>1, <1>3, AnswerIs DEF AnswerFits
  <2> QED BY <1>1, <1>2, <1>3, <2>1, AnswerGoesOn DEF HandlerOutcome
<1>4. CASE calls' = [calls EXCEPT ![k] = c]
  <2>1. /\ DOMAIN c = CallFields /\ c.step = "view"
        /\ c.kind = calls[k].kind /\ c.by = calls[k].by /\ c.heard = calls[k].heard
        /\ c.payload = calls[k].payload
      BY <1>1 DEF CallFields
  <2> HIDE DEF c
  <2> QED BY <1>1, <1>2, <1>4, <2>1, StatementGoesOn DEF HandlerOutcome
<1> QED BY <1>3, <1>4 DEF ReadRecords, rows

LEMMA ReadRecordOutcome ==
    ASSUME CallsFit, DatabaseFits, NEW k \in Slots, ReadRecord(k)
    PROVE  HandlerOutcome(k)
<1> DEFINE r == calls[k].target
           c == [calls[k] EXCEPT !.step = "view", !.subject = records[r]]
<1>1. /\ ~IsFree(k) /\ calls[k].kind = "record" /\ calls[k].step \notin {"free", "answered"}
      /\ DOMAIN calls[k] = CallFields
      /\ UNCHANGED server
    BY FirstStepsAre DEF ReadRecord
<1>2. DatabaseGrows /\ DatabaseFits'
    BY <1>1, DatabaseUnchanged
<1>3. CASE Missing(k)
    BY <1>1, <1>3, RefusalGoesOn DEF Missing, Errors
<1>4. CASE r \in RecordsOf(calls[k].by) /\ Answer(k, "ok", records[r])
  <2>1. records[r] = calls[k].by
      BY <1>4 DEF RecordsOf
  <2>2. calls[k].heard => AnswerFits(calls'[k], actions', nextAction', audit')
      BY <1>1, <1>4, <2>1, AnswerIs DEF AnswerFits
  <2> QED BY <1>1, <1>2, <1>4, <2>2, AnswerGoesOn DEF HandlerOutcome
<1>5. CASE calls' = [calls EXCEPT ![k] = c]
  <2>1. /\ DOMAIN c = CallFields /\ c.step = "view"
        /\ c.kind = calls[k].kind /\ c.by = calls[k].by /\ c.heard = calls[k].heard
        /\ c.payload = calls[k].payload
      BY <1>1 DEF CallFields
  <2> HIDE DEF c
  <2> QED BY <1>1, <1>2, <1>5, <2>1, StatementGoesOn DEF HandlerOutcome
<1> QED BY <1>3, <1>4, <1>5 DEF ReadRecord

(* The event is in the log when the answer is there.                       *)
LEMMA AuditViewOutcome ==
    ASSUME CallsFit, DatabaseFits, NEW k \in Slots, AuditView(k)
    PROVE  HandlerOutcome(k)
<1> DEFINE body == IF calls[k].kind = "record" THEN calls[k].subject ELSE calls[k].target
<1>1. ~IsFree(k) /\ calls[k].kind \in {"records", "record"}
    BY FirstStepsAre DEF AuditView
<1>2. /\ actions' = actions /\ nextAction' = nextAction
      /\ records' = records /\ nextRequest' = nextRequest
      /\ audit' = audit \cup {Viewed(k)}
      /\ Answer(k, "ok", body)
    BY DEF AuditView
<1>3. DatabaseGrows
    BY <1>2 DEF DatabaseGrows, Grows, DatabaseFits, ActionsFit
<1>4. ActionsFit'
    BY <1>2 DEF DatabaseFits, ActionsFit
<1>5. RecordsFit'
  <2>1. Viewed(k).event # "decision_recorded"
      BY DEF Viewed, Event
  <2>2. \A x \in audit' : x.event = "decision_recorded" => x \in audit
      BY <1>2, <2>1
  <2> QED BY <1>2, <2>2 DEF DatabaseFits, RecordsFit
<1>6. CASE calls[k].kind = "record"
  <2>1. body = calls[k].subject
      BY <1>6
  <2>2. Viewed(k) = Event("decision_records_viewed", calls[k].by, calls[k].target, calls[k].subject)
      BY <1>6 DEF Viewed
  <2> HIDE DEF body
  <2>3. calls[k].heard => AnswerFits(calls'[k], actions', nextAction', audit')
      BY <1>1, <1>2, <1>6, <2>1, <2>2, AnswerIs DEF AnswerFits
  <2> QED BY <1>1, <1>2, <1>3, <1>4, <1>5, <2>3, AnswerGoesOn DEF HandlerOutcome, DatabaseFits
<1>7. CASE calls[k].kind = "records"
  <2>1. Viewed(k) = Event("decision_records_viewed", calls[k].by, 0, calls[k].subject)
      BY <1>7 DEF Viewed
  <2> HIDE DEF body
  <2>2. calls[k].heard => AnswerFits(calls'[k], actions', nextAction', audit')
      BY <1>1, <1>2, <1>7, <2>1, AnswerIs DEF AnswerFits
  <2> QED BY <1>1, <1>2, <1>3, <1>4, <1>5, <2>2, AnswerGoesOn DEF HandlerOutcome, DatabaseFits
<1> QED BY <1>1, <1>6, <1>7

LEMMA HandleOutcome ==
    ASSUME CallsFit, DatabaseFits, NEW k \in Slots, Handle(k)
    PROVE  HandlerOutcome(k)
<1>1. CASE RefuseFeedback(k)
  <2>1. ~IsFree(k)
      BY <1>1, FirstStepsAre DEF RefuseFeedback
  <2> QED BY <1>1, <2>1, RefusalGoesOn DEF RefuseFeedback, Refuse, Errors
<1>2. CASE Fail(k)
    BY <1>2, RefusalGoesOn DEF Fail, Underway, Refuse, Errors
<1> QED BY <1>1, <1>2, ProposeOutcome, SaveRecordOutcome, ListPendingOutcome, ValidateOutcome,
           DecideOutcome, SaveFeedbackOutcome, ValidatePartnerOutcome, ReadRecordsOutcome,
           ReadRecordOutcome, AuditViewOutcome
        DEF Handle

(* A seed takes the rows, and leaves the ids and the audit log alone.      *)
LEMMA SeedOutcome ==
    ASSUME DatabaseFits, Seed
    PROVE  DatabaseGrows /\ DatabaseFits' /\ calls' = calls
<1>1. /\ actions' = <<>> /\ records' = <<>>
      /\ nextAction' = nextAction /\ nextRequest' = nextRequest
      /\ audit' = audit /\ calls' = calls
    BY DEF Seed, SeedKeepsIds
<1>2. DOMAIN actions' = {} /\ DOMAIN records' = {}
    BY <1>1
<1>3. DatabaseGrows
    BY <1>1, <1>2 DEF DatabaseGrows, Grows, DatabaseFits, ActionsFit
<1>4. DatabaseFits'
    BY <1>1, <1>2 DEF DatabaseFits, ActionsFit, RecordsFit
<1> QED BY <1>1, <1>3, <1>4

-----------------------------------------------------------------------------
(* The page: what each event and each answer leaves of the calls.          *)

PageOutcome == UNCHANGED server /\ CallsFit' /\ WaitFits'

LEMMA CallsFitBeside ==
    ASSUME CallsFit, UNCHANGED server, NEW k \in Slots, NEW c,
           CallFits(c, actions, nextAction, audit),
           calls' = [calls EXCEPT ![k] = c]
    PROVE  CallsFit' /\ calls'[k] = c
<1>1. actions' = actions /\ nextAction' = nextAction /\ audit' = audit
    BY DEF server
<1> QED BY <1>1 DEF CallsFit

KindsAre ==
    /\ "chat" \in Kinds /\ "approvals" \in Kinds /\ "decide" \in Kinds
    /\ "feedback" \in Kinds /\ "records" \in Kinds /\ "record" \in Kinds

LEMMA TheKinds == KindsAre
BY DEF KindsAre, Kinds, FirstStep

(* The script posts a call, and waits for it. *)
LEMMA PostOutcome ==
    ASSUME CallsFit, UNCHANGED server, NEW k \in Slots, NEW c,
           DOMAIN c = CallFields, c.step \notin {"free", "answered"}, c.heard = TRUE, c.by = user,
           \/ c.kind # "decide" \/ c.payload = Unseen
           \/ RowFits(c.target, [owner |-> c.subject, payload |-> c.payload], actions, nextAction),
           calls' = [calls EXCEPT ![k] = c], waits' = k, user' = user
    PROVE  PageOutcome
<1>1. CallFits(c, actions, nextAction, audit)
    BY NewCallFits
<1>2. CallsFit' /\ calls'[k] = c
    BY <1>1, CallsFitBeside
<1> QED BY <1>2 DEF PageOutcome, WaitFits

LEMMA EndOutcome ==
    ASSUME CallsFit, WaitFits, UNCHANGED server, ~Idle, End
    PROVE  PageOutcome
<1>1. waits \in Slots
    BY DEF WaitFits, Idle
<1>2. CallFits(Free, actions, nextAction, audit)
    BY DEF CallFits, Free
<1>3. CallsFit'
    BY <1>1, <1>2, CallsFitBeside DEF End, Post
<1> QED BY <1>3 DEF PageOutcome, WaitFits, End

(* The call that the page gives up. *)
LEMMA GivenUpFits ==
    ASSUME CallsFit, NEW k \in Slots, calls[k].step # "free"
    PROVE  LET c == [calls[k] EXCEPT !.heard = FALSE]
           IN  CallFits(c, actions, nextAction, audit)
<1> DEFINE c == [calls[k] EXCEPT !.heard = FALSE]
<1>1. CallFits(calls[k], actions, nextAction, audit)
    BY DEF CallsFit
<1>2. DOMAIN calls[k] = CallFields
    BY <1>1 DEF CallFits
<1>3. /\ c.step = calls[k].step /\ c.kind = calls[k].kind /\ c.by = calls[k].by
      /\ c.target = calls[k].target /\ c.choice = calls[k].choice
      /\ c.subject = calls[k].subject /\ c.payload = calls[k].payload
      /\ c.status = calls[k].status /\ c.body = calls[k].body
      /\ c.heard = FALSE /\ DOMAIN c = CallFields
    BY <1>2 DEF CallFields
<1> HIDE DEF c
<1>4. AnswerFits(calls[k], actions, nextAction, audit) =>
          AnswerFits(c, actions, nextAction, audit)
    BY <1>3 DEF AnswerFits
<1> QED BY <1>1, <1>3, <1>4 DEF CallFits, c

LEMMA LeaveOutcome ==
    ASSUME CallsFit, WaitFits, UNCHANGED server, ~Idle, Leave
    PROVE  PageOutcome
<1> DEFINE c == [calls[waits] EXCEPT !.heard = FALSE]
<1>1. waits \in Slots /\ calls[waits].step # "free"
    BY DEF WaitFits, Idle
<1>2. CallFits(c, actions, nextAction, audit)
    BY <1>1, GivenUpFits
<1>3. calls' = [calls EXCEPT ![waits] = c]
    BY DEF Leave
<1> HIDE DEF c
<1>4. CallsFit'
    BY <1>1, <1>2, <1>3, CallsFitBeside
<1> QED BY <1>4 DEF PageOutcome, WaitFits, Leave

LEMMA RunOutcome ==
    ASSUME CallsFit, NEW k \in Slots, NEW kind \in Kinds \ {"decide"}, NEW target, NEW choice,
           Run(k, Call(kind, target, choice))
    PROVE  PageOutcome
<1> DEFINE c == Call(kind, target, choice)
<1>1. /\ DOMAIN c = CallFields /\ c.step \notin {"free", "answered"}
      /\ c.kind # "decide" /\ c.by = user /\ c.heard = TRUE
    BY DEF Call, NewCall, CallFields, Kinds, FirstStep
<1>2. /\ UNCHANGED server /\ calls' = [calls EXCEPT ![k] = c]
      /\ waits' = k /\ user' = user
    BY DEF Run, Post
<1> HIDE DEF c
<1> QED BY <1>1, <1>2, PostOutcome

LEMMA OpenRecordsOutcome ==
    ASSUME CallsFit, NEW k \in Slots, NEW e, OpenRecords(k, e)
    PROVE  PageOutcome
<1> DEFINE d == Call("records", 0, "none")
           c == [d EXCEPT !.subject = e]
<1>1. /\ DOMAIN d = CallFields /\ d.step \notin {"free", "answered"}
      /\ d.kind = "records" /\ d.by = user /\ d.heard = TRUE
    BY DEF Call, NewCall, CallFields, Kinds, FirstStep
<1>2. /\ UNCHANGED server /\ calls' = [calls EXCEPT ![k] = c]
      /\ waits' = k /\ user' = user
    BY DEF OpenRecords, Run, Post
<1> HIDE DEF d
<1>3. /\ DOMAIN c = CallFields /\ c.step \notin {"free", "answered"}
      /\ c.kind # "decide" /\ c.by = user /\ c.heard = TRUE
    BY <1>1 DEF CallFields
<1> HIDE DEF c
<1> QED BY <1>2, <1>3, PostOutcome

(* The decision carries what stood beside the button, which fits the row.  *)
LEMMA TakeQueueOutcome ==
    ASSUME CallsFit, WaitFits, RowsShownFit, TakeQueue
    PROVE  PageOutcome
<1>1. /\ ~Idle /\ waits \in Slots /\ UNCHANGED server /\ user' = user
      /\ calls[waits].step = "answered" /\ calls[waits].status = "ok"
      /\ calls[waits].kind = "approvals"
    BY DEF TakeQueue, Came, Back, WaitFits, Idle, Answered
<1>2. CASE click.id \in DOMAIN calls[waits].body
  <2> DEFINE d == Call("decide", click.id, click.choice)
             c == [d EXCEPT !.subject = click.row.owner, !.payload = click.row.payload]
  <2>1. /\ DOMAIN d = CallFields /\ d.step \notin {"free", "answered"}
        /\ d.kind = "decide" /\ d.by = user /\ d.heard = TRUE /\ d.target = click.id
      BY DEF Call, NewCall, CallFields, Kinds, FirstStep
  <2>2. calls' = [calls EXCEPT ![waits] = c] /\ waits' = waits
      BY <1>2 DEF TakeQueue, Post
  <2>3. RowsFit(calls[waits].body, actions, nextAction)
      BY <1>1 DEF CallsFit, CallFits, AnswerFits
  <2>4. click.id # 0
      BY <1>2, <2>3 DEF RowsFit, RowFits
  <2>5. RowFits(click.id, click.row, actions, nextAction)
      BY <2>4 DEF RowsShownFit
  <2> HIDE DEF d
  <2>6. /\ DOMAIN c = CallFields /\ c.step \notin {"free", "answered"}
        /\ c.by = user /\ c.heard = TRUE /\ c.target = click.id
        /\ c.subject = click.row.owner /\ c.payload = click.row.payload
      BY <2>1 DEF CallFields
  <2> HIDE DEF c
  <2>7. RowFits(c.target, [owner |-> c.subject, payload |-> c.payload], actions, nextAction)
      BY <2>5, <2>6 DEF RowFits
  <2> QED BY <1>1, <2>2, <2>6, <2>7, PostOutcome
<1>3. CASE click.id \notin DOMAIN calls[waits].body
  <2>1. End
      BY <1>3 DEF TakeQueue
  <2> QED BY <1>1, <2>1, EndOutcome
<1> QED BY <1>2, <1>3

LEMMA TakeDecisionResultOutcome ==
    ASSUME CallsFit, WaitFits, TakeDecisionResult
    PROVE  PageOutcome
<1> DEFINE c == Call("approvals", 0, "none")
<1>1. waits \in Slots
    BY DEF TakeDecisionResult, Back, WaitFits, Idle
<1>2. /\ UNCHANGED server /\ user' = user /\ waits' = waits
      /\ calls' = [calls EXCEPT ![waits] = c]
    BY DEF TakeDecisionResult, Report, Post
<1>3. /\ DOMAIN c = CallFields /\ c.step \notin {"free", "answered"}
      /\ c.kind # "decide" /\ c.by = user /\ c.heard = TRUE
    BY DEF Call, NewCall, CallFields, Kinds, FirstStep
<1> HIDE DEF c
<1> QED BY <1>1, <1>2, <1>3, PostOutcome

LEMMA TakeRecordsOutcome ==
    ASSUME CallsFit, WaitFits, TakeRecords
    PROVE  PageOutcome
<1>1. ~Idle /\ waits \in Slots /\ UNCHANGED server /\ user' = user
    BY DEF TakeRecords, Came, Back, WaitFits, Idle
<1>2. CASE End
    BY <1>1, <1>2, EndOutcome
<1>3. ASSUME NEW r, Post(waits, Call("record", r, "tab")), waits' = waits
      PROVE  PageOutcome
  <2> DEFINE c == Call("record", r, "tab")
  <2>1. /\ DOMAIN c = CallFields /\ c.step \notin {"free", "answered"}
        /\ c.kind # "decide" /\ c.by = user /\ c.heard = TRUE
      BY DEF Call, NewCall, CallFields, Kinds, FirstStep
  <2>2. calls' = [calls EXCEPT ![waits] = c]
      BY <1>3 DEF Post
  <2> HIDE DEF c
  <2> QED BY <1>1, <1>3, <2>1, <2>2, PostOutcome
<1> QED BY <1>2, <1>3 DEF TakeRecords

LEMMA GiveUpDecisionOutcome ==
    ASSUME CallsFit, WaitFits, NEW k \in Slots, GiveUpDecision(k)
    PROVE  PageOutcome
<1> DEFINE c == Call("approvals", 0, "none")
           left == [calls[waits] EXCEPT !.heard = FALSE]
<1>1. /\ waits \in Slots /\ calls[waits].step # "free" /\ calls[k].step = "free" /\ k # waits
    BY DEF GiveUpDecision, WaitFits, Idle, IsFree
<1>2. /\ actions' = actions /\ nextAction' = nextAction /\ audit' = audit
      /\ UNCHANGED server /\ user' = user /\ waits' = k
      /\ calls' = [calls EXCEPT ![waits].heard = FALSE, ![k] = c]
    BY DEF GiveUpDecision, server
<1>3. /\ DOMAIN c = CallFields /\ c.step \notin {"free", "answered"}
      /\ c.kind # "decide" /\ c.by = user /\ c.heard = TRUE
    BY DEF Call, NewCall, CallFields, Kinds, FirstStep
<1>4. CallFits(left, actions, nextAction, audit)
    BY <1>1, GivenUpFits
<1>5. DOMAIN calls = Slots /\ \A j \in Slots : CallFits(calls[j], actions, nextAction, audit)
    BY DEF CallsFit
<1>6. /\ DOMAIN calls' = Slots /\ calls'[k] = c /\ calls'[waits] = left
      /\ \A j \in Slots \ {k, waits} : calls'[j] = calls[j]
    BY <1>1, <1>2, <1>5
<1> HIDE DEF c, left
<1>7. CallFits(c, actions, nextAction, audit)
    BY <1>3, NewCallFits
<1>8. CallsFit'
    BY <1>2, <1>4, <1>5, <1>6, <1>7 DEF CallsFit
<1> QED BY <1>2, <1>3, <1>6, <1>8 DEF PageOutcome, WaitFits

LEMMA OtherCallOutcome ==
    ASSUME CallsFit, WaitFits, NEW k \in Slots, OtherCall(k)
    PROVE  PageOutcome
<1>1. /\ IsFree(k) /\ UNCHANGED server /\ waits' = waits /\ user' = user
    BY DEF OtherCall
<1>2. ASSUME NEW kind \in Kinds, NEW e, NEW target, NEW choice,
             Post(k, NewCall(kind, e, target, choice, e, Unseen, FALSE))
      PROVE  PageOutcome
  <2> DEFINE c == NewCall(kind, e, target, choice, e, Unseen, FALSE)
  <2>1. /\ DOMAIN c = CallFields /\ c.step \notin {"free", "answered"}
        /\ c.payload = Unseen /\ c.heard = FALSE
      BY DEF NewCall, CallFields, Kinds, FirstStep
  <2>2. calls' = [calls EXCEPT ![k] = c]
      BY <1>2 DEF Post
  <2> HIDE DEF c
  <2>3. CallFits(c, actions, nextAction, audit)
      BY <2>1, NewCallFits
  <2>4. CallsFit'
      BY <1>1, <2>2, <2>3, CallsFitBeside
  <2>5. WaitFits'
      BY <1>1, <2>2 DEF WaitFits, IsFree
  <2> QED BY <1>1, <2>4, <2>5 DEF PageOutcome
<1> QED BY <1>2, TheKinds DEF OtherCall, KindsAre

LEMMA CallsStep ==
    ASSUME PageInvariant, Next
    PROVE  DatabaseGrows /\ DatabaseFits' /\ CallsFit' /\ WaitFits'
<1>1. CallsFit /\ DatabaseFits /\ WaitFits /\ RowsShownFit
    BY DEF PageInvariant, DatabaseFits
<1>2. ASSUME PageOutcome
      PROVE  DatabaseGrows /\ DatabaseFits' /\ CallsFit' /\ WaitFits'
    BY <1>1, <1>2, DatabaseUnchanged DEF PageOutcome
<1>3. ASSUME NEW k \in Slots, Handler(k)
      PROVE  DatabaseGrows /\ DatabaseFits' /\ CallsFit' /\ WaitFits'
  <2>1. HandlerOutcome(k) /\ waits' = waits /\ user' = user
      BY <1>1, <1>3, HandleOutcome DEF Handler
  <2>2. CallsFit'
    <3>1. DOMAIN calls' = Slots
        BY <2>1 DEF HandlerOutcome, CallGoesOn
    <3>2. ASSUME NEW j \in Slots
          PROVE  CallFits(calls'[j], actions', nextAction', audit')
      <4>1. CASE j = k
          BY <2>1, <4>1 DEF HandlerOutcome, CallGoesOn
      <4>2. CASE j # k
        <5>1. calls'[j] = calls[j] /\ CallFits(calls[j], actions, nextAction, audit)
            BY <1>1, <2>1, <4>2 DEF HandlerOutcome, CallGoesOn, CallsFit
        <5> QED BY <2>1, <5>1, CallStaysFit DEF HandlerOutcome, DatabaseGrows
      <4> QED BY <4>1, <4>2
    <3> QED BY <3>1, <3>2 DEF CallsFit
  <2>3. WaitFits'
      BY <1>1, <2>1 DEF WaitFits, HandlerOutcome, CallGoesOn
  <2> QED BY <2>1, <2>2, <2>3 DEF HandlerOutcome
<1>4. CASE SeedStep
  <2>1. DatabaseGrows /\ DatabaseFits' /\ calls' = calls /\ waits' = waits /\ user' = user
      BY <1>1, <1>4, SeedOutcome DEF SeedStep
  <2>2. CallsFit'
      BY <1>1, <2>1, CallStaysFit DEF DatabaseGrows, CallsFit
  <2>3. WaitFits'
      BY <1>1, <2>1 DEF WaitFits
  <2> QED BY <2>1, <2>2, <2>3
<1>5. ASSUME NEW e \in Employees, SelectUser(e)
      PROVE  PageOutcome
  <2>1. /\ UNCHANGED server /\ calls' = calls /\ waits' = NoSlot
        /\ actions' = actions /\ nextAction' = nextAction /\ audit' = audit
      BY <1>5 DEF SelectUser, Idle, apiVars, server
  <2> QED BY <1>1, <2>1 DEF PageOutcome, CallsFit, WaitFits
<1>6. ASSUME NEW e \in Employees, Interrupt(e)
      PROVE  PageOutcome
    BY <1>1, <1>6, EndOutcome, LeaveOutcome DEF Interrupt
<1>7. ASSUME ShowError
      PROVE  PageOutcome
    BY <1>1, <1>7, EndOutcome, LeaveOutcome DEF ShowError
<1>8. ASSUME TakeReply \/ TakeVote \/ TakeRecord
      PROVE  PageOutcome
    BY <1>1, <1>8, EndOutcome DEF TakeReply, TakeVote, TakeRecord, Came, Back
<1>9. ASSUME NEW k \in Slots,
             \/ Ask(k) \/ LookAtQueue(k)
             \/ \E id \in DOMAIN listed, choice \in {"approve", "reject"} : Click(k, id, choice)
             \/ \E item \in history, rating \in {"up", "down"} : Rate(k, item, rating)
             \/ \E item \in history : AskWhy(k, item)
      PROVE  PageOutcome
  <2>1. PICK kind, target, choice :
            kind \in Kinds \ {"decide"} /\ Run(k, Call(kind, target, choice))
      BY <1>9, TheKinds DEF KindsAre, Ask, LookAtQueue, Click, Rate, AskWhy
  <2> QED BY <1>1, <2>1, RunOutcome
<1>10. ASSUME NEW k \in Slots, NEW e \in Employees, OpenRecords(k, e)
       PROVE  PageOutcome
    BY <1>1, <1>10, OpenRecordsOutcome
<1>11. ASSUME TakeQueue \/ TakeDecisionResult \/ TakeRecords
       PROVE  PageOutcome
    BY <1>1, <1>11, TakeQueueOutcome, TakeDecisionResultOutcome, TakeRecordsOutcome
<1>12. ASSUME NEW k \in Slots, GiveUpDecision(k) \/ OtherCall(k)
       PROVE  PageOutcome
    BY <1>1, <1>12, GiveUpDecisionOutcome, OtherCallOutcome
<1> QED BY <1>2, <1>3, <1>4, <1>5, <1>6, <1>7, <1>8, <1>9, <1>10, <1>11, <1>12 DEF Next

-----------------------------------------------------------------------------
(* What the page keeps. *)

(* An answer that the page takes is an answer to the selected employee.    *)
LEMMA TakenAnswerFits ==
    ASSUME PageInvariant, NEW kind, Came(kind)
    PROVE  /\ waits \in Slots /\ calls[waits].kind = kind /\ calls[waits].by = user
           /\ AnswerFits(calls[waits], actions, nextAction, audit)
<1>1. /\ ~Idle /\ calls[waits].step = "answered" /\ calls[waits].status = "ok"
      /\ calls[waits].kind = kind
    BY DEF Came, Back, Answered
<1>2. waits \in Slots /\ calls[waits].by = user
    BY <1>1 DEF PageInvariant, WaitFits, Idle
<1>3. CallFits(calls[waits], actions, nextAction, audit)
    BY <1>2 DEF PageInvariant, CallsFit
<1> QED BY <1>1, <1>2, <1>3 DEF CallFits

LEMMA RowsShownStep ==
    ASSUME PageInvariant, Next
    PROVE  RowsShownFit'
<1>1. DatabaseGrows /\ RowsFit(listed, actions, nextAction)
      /\ (click.id # 0 => RowFits(click.id, click.row, actions, nextAction))
    BY CallsStep DEF PageInvariant, RowsShownFit
<1>2. RowsFit(listed, actions', nextAction')
    BY <1>1, RowsStayFit DEF DatabaseGrows
<1>3. click.id # 0 => RowFits(click.id, click.row, actions', nextAction')
    BY <1>1, RowStaysFit DEF DatabaseGrows
<1>4. RowsFit(<<>>, actions', nextAction')
    BY DEF RowsFit
<1>5. CASE listed' \in {listed, <<>>} /\ click' = click
    BY <1>2, <1>3, <1>4, <1>5 DEF RowsShownFit
<1>6. CASE listed' \in {listed, <<>>} /\ click' = NoClick
  <2>1. click'.id = 0
      BY <1>6 DEF NoClick
  <2> QED BY <1>2, <1>4, <1>6, <2>1 DEF RowsShownFit
<1>7. ASSUME NEW k \in Slots, NEW id \in DOMAIN listed, NEW choice, Click(k, id, choice)
      PROVE  RowsShownFit'
  <2>1. /\ listed' = listed
        /\ click' = [id |-> id, choice |-> choice, row |-> listed[id]]
      BY <1>7 DEF Click, Run, Call, NewCall
  <2>2. RowFits(id, listed[id], actions', nextAction')
      BY <1>2 DEF RowsFit
  <2>3. click'.id = id /\ click'.row = listed[id]
      BY <2>1
  <2> QED BY <1>2, <2>1, <2>2, <2>3 DEF RowsShownFit
<1>8. CASE TakeQueue
  <2>1. RowsFit(calls[waits].body, actions, nextAction)
      BY <1>8, TakenAnswerFits DEF TakeQueue, AnswerFits
  <2>2. RowsFit(calls[waits].body, actions', nextAction')
      BY <1>1, <2>1, RowsStayFit DEF DatabaseGrows
  <2>3. listed' = calls[waits].body /\ click' = NoClick /\ click'.id = 0
      BY <1>8 DEF TakeQueue, NoClick
  <2> QED BY <2>2, <2>3 DEF RowsShownFit
<1>9. ASSUME ~TakeQueue,
             ~\E k \in Slots, id \in DOMAIN listed, choice \in {"approve", "reject"} :
                 Click(k, id, choice)
      PROVE  listed' \in {listed, <<>>} /\ click' \in {click, NoClick}
    BY <1>9 DEF Next, Handler, OtherCall, SeedStep, SelectUser, Interrupt, Ask, LookAtQueue,
                GiveUpDecision, Rate, AskWhy, OpenRecords, TakeReply, TakeDecisionResult, Report,
                TakeVote, TakeRecords, TakeRecord, ShowError, Run, page
<1> QED BY <1>5, <1>6, <1>7, <1>8, <1>9


MessageTells(m, log) ==
    m.kind = "success" =>
       /\ m.status = NewStatus(m.choice)
       /\ Event("action_decided", m.by, m.id, m.status) \in log

ReplyTells(item, log) ==
    /\ Recorded(item.by, item.request) \in log
    /\ item.vote # "none" => Event("feedback_received", item.by, item.request, item.vote) \in log

LEMMA TruthInParts ==
    /\ PageTellsTruth <=> /\ MessageTells(message, audit)
                          /\ \A item \in history : ReplyTells(item, audit)
    /\ PageTellsTruth' <=> /\ MessageTells(message', audit')
                           /\ \A item \in history' : ReplyTells(item, audit')
BY DEF PageTellsTruth, MessageTells, ReplyTells, Recorded

LEMMA MessageStep ==
    ASSUME PageInvariant, Next
    PROVE  MessageTells(message', audit')
<1>1. audit \subseteq audit' /\ MessageTells(message, audit)
    BY CallsStep, TruthInParts DEF DatabaseGrows, Grows, PageInvariant
<1>2. CASE message' = message
    BY <1>1, <1>2 DEF MessageTells
<1>3. CASE message' \in {NoMessage, [kind |-> "error"]}
  <2>1. message'.kind # "success"
      BY <1>3 DEF NoMessage
  <2> QED BY <2>1 DEF MessageTells
<1>4. CASE TakeDecisionResult /\ Came("decide")
  <2> DEFINE m == [kind |-> "success", id |-> calls[waits].target, by |-> user,
                   choice |-> calls[waits].choice, status |-> calls[waits].body]
  <2>1. message' = m
      BY <1>4 DEF TakeDecisionResult, Report
  <2>2. /\ calls[waits].body = NewStatus(calls[waits].choice)
        /\ Event("action_decided", user, calls[waits].target, calls[waits].body) \in audit
      BY <1>4, TakenAnswerFits DEF AnswerFits
  <2>3. MessageTells(m, audit)
      BY <2>2 DEF MessageTells
  <2> QED BY <1>1, <2>1, <2>3 DEF MessageTells
<1>5. CASE TakeDecisionResult /\ ~Came("decide")
  <2>1. message' = [kind |-> "error"]
      BY <1>5 DEF TakeDecisionResult, Report
  <2> QED BY <1>3, <2>1
<1>6. ASSUME ~TakeDecisionResult
      PROVE  message' = message \/ message' \in {NoMessage, [kind |-> "error"]}
    BY <1>6 DEF Next, Handler, OtherCall, SeedStep, SelectUser, Interrupt, Ask, LookAtQueue,
                GiveUpDecision, Click, Rate, AskWhy, OpenRecords, TakeReply, TakeQueue,
                TakeVote, TakeRecords, TakeRecord, ShowError, Run, page
<1> QED BY <1>2, <1>3, <1>4, <1>5, <1>6

(* A vote that was saved for a request is one of the employee who asked:   *)
(* nobody else has a record of that request.                               *)
LEMMA VoteTells ==
    ASSUME RecordsFit, NEW item, DOMAIN item = {"by", "request", "vote"}, ReplyTells(item, audit),
           NEW e, NEW choice, Recorded(e, item.request) \in audit,
           Event("feedback_received", e, item.request, choice) \in audit
    PROVE  LET voted == [item EXCEPT !.vote = choice]
           IN  DOMAIN voted = {"by", "request", "vote"} /\ ReplyTells(voted, audit)
<1> DEFINE voted == [item EXCEPT !.vote = choice]
           x == Recorded(item.by, item.request)
           y == Recorded(e, item.request)
<1>1. x \in audit /\ y \in audit
    BY DEF ReplyTells
<1>2. /\ x.event = "decision_recorded" /\ x.id = item.request /\ x.by = item.by
      /\ y.event = "decision_recorded" /\ y.id = item.request /\ y.by = e
    BY DEF Recorded, Event
<1> HIDE DEF x, y
<1>3. item.by = e
    BY <1>1, <1>2 DEF RecordsFit
<1>4. /\ voted.by = item.by /\ voted.request = item.request /\ voted.vote = choice
      /\ DOMAIN voted = {"by", "request", "vote"}
    OBVIOUS
<1> HIDE DEF voted
<1>5. ReplyTells(voted, audit)
    BY <1>3, <1>4 DEF ReplyTells
<1> QED BY <1>4, <1>5 DEF voted

LEMMA HistoryStep ==
    ASSUME PageInvariant, Next
    PROVE  HistoryFits' /\ \A item \in history' : ReplyTells(item, audit')
<1>1. /\ audit \subseteq audit'
      /\ \A item \in history :
            DOMAIN item = {"by", "request", "vote"} /\ ReplyTells(item, audit)
    BY CallsStep, TruthInParts DEF DatabaseGrows, Grows, PageInvariant, HistoryFits
<1>2. SUFFICES ASSUME NEW item \in history'
               PROVE  DOMAIN item = {"by", "request", "vote"} /\ ReplyTells(item, audit)
    BY <1>1 DEF HistoryFits, ReplyTells
<1>3. CASE TakeReply
  <2> DEFINE reply == [by |-> user, request |-> calls[waits].body, vote |-> "none"]
  <2>1. item \in history \/ item = reply
      BY <1>2, <1>3 DEF TakeReply
  <2>2. Recorded(user, calls[waits].body) \in audit
      BY <1>3, TakenAnswerFits DEF TakeReply, AnswerFits
  <2>3. DOMAIN reply = {"by", "request", "vote"} /\ ReplyTells(reply, audit)
      BY <2>2 DEF ReplyTells
  <2> QED BY <1>1, <2>1, <2>3
<1>4. CASE TakeVote
  <2>1. PICK old \in history :
            item = IF old.request = calls[waits].target
                   THEN [old EXCEPT !.vote = calls[waits].choice] ELSE old
      BY <1>2, <1>4 DEF TakeVote
  <2>2. /\ Recorded(user, calls[waits].target) \in audit
        /\ Event("feedback_received", user, calls[waits].target, calls[waits].choice) \in audit
      BY <1>4, TakenAnswerFits DEF TakeVote, AnswerFits
  <2>3. CASE old.request = calls[waits].target
    <3>1. item = [old EXCEPT !.vote = calls[waits].choice]
        BY <2>1, <2>3
    <3> QED BY <1>1, <2>2, <2>3, <3>1, VoteTells DEF PageInvariant
  <2>4. CASE old.request # calls[waits].target
      BY <1>1, <2>1, <2>4
  <2> QED BY <2>3, <2>4
<1>5. CASE ~TakeReply /\ ~TakeVote
  <2>1. history' = history
      BY <1>5 DEF Next, Handler, OtherCall, SeedStep, SelectUser, Interrupt, Ask, LookAtQueue,
                  GiveUpDecision, Click, Rate, AskWhy, OpenRecords, TakeQueue,
                  TakeDecisionResult, Report, TakeRecords, TakeRecord, ShowError, Run, page
  <2> QED BY <1>1, <1>2, <2>1
<1> QED BY <1>3, <1>4, <1>5

LEMMA OpenedStep ==
    ASSUME PageInvariant, Next
    PROVE  NoUnauditedView'
<1> DEFINE Audited(o) ==
        Event("decision_records_viewed", o.viewer, o.request, o.subject) \in audit
<1>1. audit \subseteq audit' /\ \A o \in opened : Audited(o)
    BY CallsStep DEF DatabaseGrows, Grows, PageInvariant, NoUnauditedView
<1>2. SUFFICES ASSUME NEW o \in opened'
               PROVE  Audited(o)
    BY <1>1 DEF NoUnauditedView
<1>3. ASSUME NEW e, NEW r, o \in Opened(e, r),
             e = user \/ Event("decision_records_viewed", user, r, e) \in audit
      PROVE  Audited(o)
    BY <1>3 DEF Opened
<1>4. CASE TakeRecords
  <2>1. o \in Opened(calls[waits].subject, 0)
      BY <1>2, <1>4 DEF TakeRecords
  <2>2. \/ calls[waits].subject = user
        \/ Event("decision_records_viewed", user, 0, calls[waits].subject) \in audit
      BY <1>4, TakenAnswerFits DEF TakeRecords, AnswerFits
  <2> QED BY <1>3, <2>1, <2>2
<1>5. CASE TakeRecord
  <2>1. o \in opened \/ o \in Opened(calls[waits].body, calls[waits].target)
      BY <1>2, <1>5 DEF TakeRecord
  <2>2. \/ calls[waits].body = user
        \/ Event("decision_records_viewed", user, calls[waits].target, calls[waits].body) \in audit
      BY <1>5, TakenAnswerFits DEF TakeRecord, AnswerFits
  <2> QED BY <1>1, <1>3, <2>1, <2>2
<1>6. CASE ~TakeRecords /\ ~TakeRecord
  <2>1. opened' \in {opened, {}}
      BY <1>6 DEF Next, Handler, OtherCall, SeedStep, SelectUser, Interrupt, Ask, LookAtQueue,
                  GiveUpDecision, Click, Rate, AskWhy, OpenRecords, TakeReply, TakeQueue,
                  TakeDecisionResult, Report, TakeVote, ShowError, Run, page
  <2> QED BY <1>1, <1>2, <2>1
<1> QED BY <1>4, <1>5, <1>6

-----------------------------------------------------------------------------
LEMMA InitFits == Init => PageInvariant
<1> SUFFICES ASSUME Init PROVE PageInvariant
    OBVIOUS
<1> USE DEF Init, ApiInit
<1>1. CallsFit
  <2>1. ASSUME NEW k \in Slots PROVE calls[k].step = "free"
      BY DEF Free
  <2> QED BY <2>1 DEF CallsFit, CallFits
<1>2. ActionsFit
    BY DEF ActionsFit
<1>3. RecordsFit
    BY DEF RecordsFit
<1>4. WaitFits /\ HistoryFits /\ NoUnauditedView
    BY DEF WaitFits, HistoryFits, NoUnauditedView
<1>5. RowsShownFit
  <2>1. click.id = 0
      BY DEF NoClick
  <2> QED BY <2>1 DEF RowsShownFit, RowsFit
<1>6. PageTellsTruth
  <2>1. message.kind # "success"
      BY DEF NoMessage
  <2> QED BY <2>1 DEF PageTellsTruth
<1> QED BY <1>1, <1>2, <1>3, <1>4, <1>5, <1>6 DEF PageInvariant

LEMMA StepFits ==
    ASSUME PageInvariant, [Next]_vars
    PROVE  PageInvariant'
<1>1. CASE Next
  <2>1. CallsFit' /\ ActionsFit' /\ RecordsFit' /\ WaitFits'
      BY <1>1, CallsStep DEF DatabaseFits
  <2>2. PageTellsTruth'
      BY <1>1, MessageStep, HistoryStep, TruthInParts
  <2> QED BY <1>1, <2>1, <2>2, RowsShownStep, HistoryStep, OpenedStep DEF PageInvariant
<1>2. CASE UNCHANGED vars
    BY <1>2 DEF vars, page, apiVars, server, PageInvariant, CallsFit, ActionsFit, RecordsFit,
                WaitFits, RowsShownFit, HistoryFits, PageTellsTruth, NoUnauditedView
<1> QED BY <1>1, <1>2

(* The page stays in step with the database behind it: an id names one     *)
(* action and one request for ever, over every seed, an answer says what   *)
(* was committed, and the script waits for a call of the selected employee *)
(* (app.py, api.py, approvals.py).                                         *)
THEOREM PageInvariantHolds == Spec => []PageInvariant
<1>1. Init => PageInvariant
    BY InitFits
<1>2. PageInvariant /\ [Next]_vars => PageInvariant'
    BY StepFits
<1> QED BY <1>1, <1>2, PTL DEF Spec

(* However long a call from a button of the approvals tab is under way,    *)
(* and whatever seeds and other clients do meanwhile, the row that it      *)
(* decides is the one that stood beside the button (show_approvals_tab and *)
(* create_approval).                                                       *)
THEOREM DecidesWhatWasShownHolds == Spec => []DecidesWhatWasShown
<1>1. PageInvariant => DecidesWhatWasShown
    BY DEF PageInvariant, ActionsFit, DecidesWhatWasShown
<1> QED BY <1>1, PageInvariantHolds, PTL

(* A success message, a reply in the history and the vote beside it are    *)
(* each backed by an event that is in the audit log under that employee's  *)
(* id (show_approvals_tab, show_chat_tab and show_feedback).               *)
THEOREM PageTellsTruthHolds == Spec => []PageTellsTruth
<1>1. PageInvariant => PageTellsTruth
    BY DEF PageInvariant
<1> QED BY <1>1, PageInvariantHolds, PTL

(* A page shows a record of another employee only when the audit log has   *)
(* the event of this reader about it (show_records_tab and                 *)
(* show_why_expander, get_decisions and get_decision).                     *)
THEOREM NoUnauditedViewHolds == Spec => []NoUnauditedView
<1>1. PageInvariant => NoUnauditedView
    BY DEF PageInvariant
<1> QED BY <1>1, PageInvariantHolds, PTL

=============================================================================
