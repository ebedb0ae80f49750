------------------------------- MODULE ApiCalls -------------------------------
(***************************************************************************)
(* The HTTP API (api.py) as its clients see it: calls that run statement   *)
(* by statement on one database, beside other calls and beside a seed that *)
(* empties the tables.  A client may give a call up; the call runs on.     *)
(***************************************************************************)
EXTENDS Integers

CONSTANTS
    Employees,
    Approvers,     \* the employees with a role in APPROVER_ROLES
    Partners,      \* the employees with the role HR_PARTNER_ROLE
    Payloads,      \* what a request can propose
    Unseen,        \* the payload of a client that saw none
    Slots,         \* bound: the calls that are underway at a time
    MaxActions,    \* bound: proposals
    MaxRequests,   \* bound: Decision Records
    MaxSeeds       \* bound: seeds

ASSUME ApiCallsAssumption ==
    /\ Approvers \subseteq Employees /\ Partners \subseteq Approvers
    /\ Unseen \notin Payloads
    /\ MaxActions \in Nat /\ MaxRequests \in Nat /\ MaxSeeds \in Nat

VARIABLES
    actions,      \* pending_actions: rows by id
    nextAction,   \* the sequence of its ids
    records,      \* decision_records: the employee of each request id
    nextRequest,  \* request ids are unique; they are numbered here
    votes,        \* feedback
    audit,        \* audit_log: of records, decisions, votes and readings
    seeds,        \* how often the database was seeded again
    calls         \* the calls underway

server == <<actions, nextAction, records, nextRequest, votes, audit, seeds>>
apiVars == <<server, calls>>

(* Nothing runs in a slot. *)
Free == [step |-> "free"]
IsFree(k) == calls[k].step = "free"
Answered(k) == calls[k].step = "answered"
Underway(k) == ~IsFree(k) /\ ~Answered(k)

(* The first statement of each handler.                                    *)
FirstStep ==
    [chat |-> "run", approvals |-> "list", decide |-> "validate",
     feedback |-> "save", records |-> "role", record |-> "role"]

(* A call of employee e about an action or a request (target), and what    *)
(* the client chose.  subject is the other employee it is about, as far as *)
(* the client or the handler knows: the requester that the client saw with *)
(* this payload, the employee whose records are listed, the owner of the   *)
(* row that was read.  heard: the client still waits for the answer.       *)
NewCall(kind, e, target, choice, subject, payload, heard) ==
    [step |-> FirstStep[kind], kind |-> kind, by |-> e, target |-> target,
     choice |-> choice, subject |-> subject, payload |-> payload, heard |-> heard,
     status |-> "none", body |-> {}]

Goto(k, step) == calls' = [calls EXCEPT ![k].step = step]

(* Nobody reads the answer to a call that its client gave up.             *)
Answer(k, status, body) ==
    calls' = [calls EXCEPT ![k] =
        IF @.heard THEN [@ EXCEPT !.step = "answered", !.payload = Unseen,
                                  !.status = status, !.body = body]
                   ELSE Free]

(* An error status has no body that a client reads.                        *)
Refuse(k, status) == Answer(k, status, {}) /\ UNCHANGED server

Event(name, e, id, about) == [event |-> name, by |-> e, id |-> id, about |-> about]

(* A table with a new row. *)
Insert(rows, i, row) == [j \in DOMAIN rows \cup {i} |-> IF j = i THEN row ELSE rows[j]]

At(k, kind, step) == calls[k].step = step /\ calls[k].kind = kind

ApiInit ==
    /\ actions = <<>>
    /\ nextAction = 1
    /\ records = <<>>
    /\ nextRequest = 1
    /\ votes = {} /\ audit = {}
    /\ seeds = 0
    /\ calls = [k \in Slots |-> Free]

-----------------------------------------------------------------------------
(* POST /chat.  A gated write of the request may commit a proposal before  *)
(* the record is saved; AgentGraph and WriteGate have the details.         *)
Propose(k) ==
    /\ At(k, "chat", "run")
    /\ nextAction <= MaxActions
    /\ \E p \in Payloads :
          actions' = Insert(actions, nextAction,
              [owner |-> calls[k].by, payload |-> p, status |-> "pending_approval",
               shown |-> <<calls[k].by, Unseen>>])
    /\ nextAction' = nextAction + 1
    /\ Goto(k, "proposed")
    /\ UNCHANGED <<records, nextRequest, votes, audit, seeds>>

SaveRecord(k) ==
    /\ At(k, "chat", "run") \/ At(k, "chat", "proposed")
    /\ nextRequest <= MaxRequests
    /\ records' = Insert(records, nextRequest, calls[k].by)
    /\ nextRequest' = nextRequest + 1
    /\ audit' = audit \cup {Event("decision_recorded", calls[k].by, nextRequest, "record")}
    /\ Answer(k, "ok", nextRequest)
    /\ UNCHANGED <<actions, nextAction, votes, seeds>>

-----------------------------------------------------------------------------
(* GET /approvals. *)
Pending == {i \in DOMAIN actions : actions[i].status = "pending_approval"}

ListPending(k) ==
    /\ At(k, "approvals", "list")
    /\ IF calls[k].by \in Approvers
       THEN Answer(k, "ok", [i \in Pending |-> [owner |-> actions[i].owner,
                                                payload |-> actions[i].payload]])
       ELSE Answer(k, "forbidden", {})
    /\ UNCHANGED server

-----------------------------------------------------------------------------
(* POST /approvals/{action_id}: validate_approver reads in statements of   *)
(* their own; then one transaction locks the row and decides.              *)
Validate(k) ==
    /\ At(k, "decide", "validate")
    /\ LET i == calls[k].target
       IN  \/ calls[k].by \notin Approvers /\ Refuse(k, "forbidden")
           \/ calls[k].by \in Approvers /\ i \notin DOMAIN actions /\ Refuse(k, "missing")
           \/ /\ calls[k].by \in Approvers /\ i \in DOMAIN actions
              /\ IF actions[i].owner = calls[k].by
                 THEN Refuse(k, "forbidden")
                 ELSE Goto(k, "lock") /\ UNCHANGED server

NewStatus(choice) == IF choice = "approve" THEN "executed" ELSE "rejected"

(* A decision that finds the row decided answers with its status. *)
DecideAgain(k) ==
    /\ calls[k].target \in DOMAIN actions
    /\ actions[calls[k].target].status # "pending_approval"
    /\ Answer(k, "ok", actions[calls[k].target].status)
    /\ UNCHANGED server

(* A row that is not pending: AlreadyDecidedError.  A row that a seed took *)
(* since it was validated: fetchone gives None, and action["status"] is a  *)
(* TypeError.                                                              *)
RefuseDecision(k) ==
    LET i == calls[k].target
    IN  \/ i \notin DOMAIN actions /\ Refuse(k, "error")
        \/ /\ i \in DOMAIN actions /\ actions[i].status # "pending_approval"
           /\ Refuse(k, "conflict")

(* NotEnoughBalanceError: nothing is saved.                                *)
RefuseForBalance(k) ==
    /\ calls[k].target \in Pending /\ calls[k].choice = "approve"
    /\ Refuse(k, "conflict")

(* The row keeps, beside the decision, what its client saw of it.          *)
TakeDecision(k) ==
    LET i == calls[k].target
        status == NewStatus(calls[k].choice)
    IN  /\ i \in Pending
        /\ actions' = [actions EXCEPT ![i].status = status,
                                      ![i].shown = <<calls[k].subject, calls[k].payload>>]
        /\ audit' = audit \cup {Event("action_decided", calls[k].by, i, status)}
        /\ Answer(k, "ok", status)
        /\ UNCHANGED <<nextAction, records, nextRequest, votes, seeds>>

Decide(k) ==
    /\ At(k, "decide", "lock")
    /\ RefuseDecision(k) \/ RefuseForBalance(k) \/ TakeDecision(k)

-----------------------------------------------------------------------------
(* POST /feedback/{request_id}, one transaction.  It holds a lock on       *)
(* decision_records from its first statement on, so no seed comes between. *)
RatesAnyRecord(k) == calls[k].target \in DOMAIN records
RatesOwnRecord(k) == calls[k].target \in DOMAIN records /\ records[calls[k].target] = calls[k].by

Vote(k) == <<calls[k].target, calls[k].choice>>

SaveFeedback(k) ==
    /\ At(k, "feedback", "save")
    /\ RatesOwnRecord(k)
    /\ votes' = votes \cup {Vote(k)}
    /\ audit' = audit \cup {Event("feedback_received", calls[k].by, calls[k].target, calls[k].choice)}
    /\ Answer(k, "ok", calls[k].choice)
    /\ UNCHANGED <<actions, nextAction, records, nextRequest, seeds>>

RefuseFeedback(k) ==
    /\ At(k, "feedback", "save")
    /\ ~RatesOwnRecord(k)
    /\ Refuse(k, "missing")

-----------------------------------------------------------------------------
(* GET /decisions and GET /decisions/{request_id}: the role, the rows and   *)
(* the audit event, each in a transaction of its own.                      *)
AtRole(k) == At(k, "records", "role") \/ At(k, "record", "role")

ValidatePartner(k) ==
    /\ AtRole(k)
    /\ IF calls[k].by \in Partners THEN Goto(k, "read") ELSE Answer(k, "forbidden", {})
    /\ UNCHANGED server

RecordsOf(e) == {r \in DOMAIN records : records[r] = e}

(* The rows of an employee.  Those of another wait for the audit event.    *)
ReadRecords(k) ==
    /\ At(k, "records", "read")
    /\ LET rows == RecordsOf(calls[k].subject)
       IN  IF calls[k].subject = calls[k].by
           THEN Answer(k, "ok", rows)
           ELSE calls' = [calls EXCEPT ![k].step = "view", ![k].target = rows]
    /\ UNCHANGED server

Missing(k) == calls[k].target \notin DOMAIN records /\ Answer(k, "missing", {})

(* The row is answered, and nothing is audited. *)
ReadUnaudited(k) ==
    /\ At(k, "record", "read")
    /\ \/ Missing(k)
       \/ calls[k].target \in DOMAIN records /\ Answer(k, "ok", records[calls[k].target])
    /\ UNCHANGED server

(* The row is kept in the handler while the event is saved.                *)
ReadRecord(k) ==
    /\ At(k, "record", "read")
    /\ LET r == calls[k].target
       IN  \/ Missing(k)
           \/ r \in RecordsOf(calls[k].by) /\ Answer(k, "ok", records[r])
           \/ /\ r \in DOMAIN records \ RecordsOf(calls[k].by)
              /\ calls' = [calls EXCEPT ![k].step = "view", ![k].subject = records[r]]
    /\ UNCHANGED server

(* The event names the request only when one record is read. *)
Viewed(k) ==
    Event("decision_records_viewed", calls[k].by,
          IF calls[k].kind = "record" THEN calls[k].target ELSE 0, calls[k].subject)

AuditView(k) ==
    /\ At(k, "records", "view") \/ At(k, "record", "view")
    /\ audit' = audit \cup {Viewed(k)}
    /\ Answer(k, "ok", IF calls[k].kind = "record" THEN calls[k].subject
                                                    ELSE calls[k].target)
    /\ UNCHANGED <<actions, nextAction, records, nextRequest, votes, seeds>>

-----------------------------------------------------------------------------
(* Any statement may raise, or the process may die: its transaction is     *)
(* rolled back, and the client gets an error.                              *)
Fail(k) ==
    /\ Underway(k)
    /\ Refuse(k, "error")

(* TRUNCATE empties the tables and restarts their sequences. *)
SeedRestartsIds == nextAction' = 1

(* TRUNCATE leaves the sequences alone.                                    *)
SeedKeepsIds == UNCHANGED nextAction

(* A seed: TRUNCATE ... CASCADE empties every table that refers to         *)
(* employees; audit_log refers to none.                                    *)
Seed ==
    /\ seeds < MaxSeeds
    /\ seeds' = seeds + 1
    /\ actions' = <<>> /\ records' = <<>> /\ votes' = {}
    /\ SeedKeepsIds
    /\ UNCHANGED <<nextRequest, audit, calls>>

Handle(k) ==
    \/ Propose(k) \/ SaveRecord(k) \/ ListPending(k)
    \/ Validate(k) \/ Decide(k)
    \/ SaveFeedback(k) \/ RefuseFeedback(k)
    \/ ValidatePartner(k) \/ ReadRecords(k) \/ ReadRecord(k) \/ AuditView(k)
    \/ Fail(k)

=============================================================================
