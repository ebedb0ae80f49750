---------------------------- MODULE RequestThreads ----------------------------
(***************************************************************************)
(* The tool calls of requests as threads (tools/base.py) that share the    *)
(* connection pool of the API process (db.py), the advisory lock of one    *)
(* employee, the audit log and, within a request, the evidence of its      *)
(* context (request_context.py).  The process may be restarted.            *)
(***************************************************************************)
EXTENDS Integers, FiniteSets

CONSTANTS
    Requests,      \* requests of one employee
    Writes, Reads, \* the tool calls of each request: gated writes and reads
    PoolSize,      \* the connections of the pool
    MaxSeeds,      \* bound: seeds
    MaxVersions    \* bound: versions of the prompts on disk

ASSUME RequestThreadsAssumption ==
    /\ Writes \cap Reads = {}
    /\ PoolSize \in Nat \ {0} /\ MaxSeeds \in Nat /\ MaxVersions \in Nat

VARIABLES
    request,    \* what each request does
    thread,     \* what the threads of its tool calls do
    locked,     \* the threads that hold the lock of the employee
    evidence,   \* the tool calls in the evidence of each request, counted
    audited,    \* its tool_call events in audit_log
    records,    \* decision_records: evidence, prompt version and build of a request
    build,      \* the index build id in the database; a seed makes a new one
    disk,       \* the version of the prompts on disk
    loaded      \* the version that the process has loaded (_registry)

serverVars == <<request, thread, locked, evidence, audited, records, build, disk, loaded>>

Calls == Writes \cup Reads
Threads == Requests \X Calls

(* Where a thread holds a connection. *)
Connected == {"begun", "in_lock", "recorded", "saving"}
Holding == {t \in Threads : thread[t] \in Connected}
IsFree == Cardinality(Holding) < PoolSize


NoCalls == [c \in Calls |-> 0]

ServerInit ==
    /\ request = [q \in Requests |-> "new"]
    /\ thread = [t \in Threads |-> "idle"]
    /\ locked = {}
    /\ evidence = [q \in Requests |-> NoCalls]
    /\ audited = [q \in Requests |-> NoCalls]
    /\ records = <<>>
    /\ build = 1 /\ disk = 1 /\ loaded = 1

Goto(t, step) == thread' = [thread EXCEPT ![t] = step]
Add(log, t) == [log EXCEPT ![t[1]][t[2]] = @ + 1]

(* One list is the default of every context. *)
AddToSharedEvidence(t) ==
    evidence' = [q \in Requests |-> [evidence[q] EXCEPT ![t[2]] = @ + 1]]

(* Each bound context has an evidence list of its own.                     *)
AddEvidence(t) == evidence' = Add(evidence, t)
AddAudit(t) == audited' = Add(audited, t)

-----------------------------------------------------------------------------
(* The tools node starts the calls of a reply side by side, and each call  *)
(* waits for a connection (db.transaction).                                *)
Waiting(t) == request[t[1]] = "tools" /\ thread[t] = "idle"

Begin(t) ==
    /\ Waiting(t) /\ IsFree
    /\ Goto(t, "begun")
    /\ UNCHANGED <<request, locked, evidence, audited, records, build, disk, loaded>>

(* A gated write waits for the lock with its connection in hand.           *)
LockRequester(t) ==
    /\ thread[t] = "begun" /\ t[2] \in Writes
    /\ locked = {}
    /\ locked' = {t}
    /\ Goto(t, "in_lock")
    /\ UNCHANGED <<request, evidence, audited, records, build, disk, loaded>>

(* record_tool_call without the cursor of the tool. *)
RecordWriteApart(t) ==
    /\ thread[t] = "in_lock" /\ IsFree
    /\ AddAudit(t) /\ AddEvidence(t)
    /\ Goto(t, "recorded")
    /\ UNCHANGED <<request, locked, records, build, disk, loaded>>

(* record_tool_call in the transaction of the write: the event is saved    *)
(* with it, the evidence item is added at once.                            *)
RecordWrite(t) ==
    /\ thread[t] = "in_lock"
    /\ AddEvidence(t)
    /\ Goto(t, "recorded")
    /\ UNCHANGED <<request, locked, audited, records, build, disk, loaded>>

CommitWrite(t) ==
    /\ thread[t] = "recorded"
    /\ AddAudit(t)
    /\ locked' = locked \ {t}
    /\ Goto(t, "ended")
    /\ UNCHANGED <<request, evidence, records, build, disk, loaded>>

(* A read gives its connection back, and takes another for its event; the  *)
(* evidence item follows the commit.                                       *)
Read(t) ==
    /\ thread[t] = "begun" /\ t[2] \in Reads
    /\ Goto(t, "read")
    /\ UNCHANGED <<request, locked, evidence, audited, records, build, disk, loaded>>

BeginEvent(t) ==
    /\ thread[t] = "read" /\ IsFree
    /\ Goto(t, "saving")
    /\ UNCHANGED <<request, locked, evidence, audited, records, build, disk, loaded>>

RecordRead(t) ==
    /\ thread[t] = "saving"
    /\ AddAudit(t) /\ AddEvidence(t)
    /\ Goto(t, "ended")
    /\ UNCHANGED <<request, locked, records, build, disk, loaded>>

(* A statement or a commit raises, or the pool has no connection in time:  *)
(* the transaction is rolled back; an evidence item that was added stays.  *)
Raise(t) ==
    /\ Waiting(t) \/ thread[t] \notin {"idle", "ended", "raised"}
    /\ Goto(t, "raised")
    /\ locked' = locked \ {t}
    /\ UNCHANGED <<request, evidence, audited, records, build, disk, loaded>>

-----------------------------------------------------------------------------
ThreadsOf(q) == {<<q, c>> : c \in Calls}
AllEnded(q) == \A t \in ThreadsOf(q) : thread[t] \in {"ended", "raised"}
OneRaised(q) == \E t \in ThreadsOf(q) : thread[t] = "raised"

(* The threads and the context of requests are gone. *)
Drop(gone) ==
    /\ thread' = [t \in Threads |-> IF t[1] \in gone THEN "idle" ELSE thread[t]]
    /\ evidence' = [q \in Requests |-> IF q \in gone THEN NoCalls ELSE evidence[q]]

(* The exception of a call fails the request when its other calls have     *)
(* ended; nothing is recorded.                                             *)
FailRequest(q) ==
    /\ request[q] = "tools" /\ AllEnded(q) /\ OneRaised(q)
    /\ request' = [request EXCEPT ![q] = "error"]
    /\ Drop({q})
    /\ UNCHANGED <<locked, audited, records, build, disk, loaded>>

(* finalize_node: the record has the evidence of the request's context and *)
(* the prompt versions of the process.                                     *)
Finalize(q) ==
    /\ request[q] = "tools" /\ AllEnded(q) /\ ~OneRaised(q) /\ IsFree
    /\ records' = [r \in DOMAIN records \cup {q} |->
          IF r = q THEN [evidence |-> evidence[q], prompts |-> loaded, build |-> build]
          ELSE records[r]]
    /\ request' = [request EXCEPT ![q] = "answered"]
    /\ Drop({q})
    /\ UNCHANGED <<locked, audited, build, disk, loaded>>

(* The process is started again, with the prompts on disk: its threads,    *)
(* connections and locks are gone.                                         *)
Restart ==
    /\ loaded' = disk
    /\ request' = [q \in Requests |-> IF request[q] = "tools" THEN "error" ELSE request[q]]
    /\ Drop(Requests)
    /\ locked' = {}
    /\ UNCHANGED <<audited, records, build, disk>>

EditPrompts ==
    /\ disk < MaxVersions
    /\ disk' = disk + 1
    /\ UNCHANGED <<request, thread, locked, evidence, audited, records, build, loaded>>

(* A seed takes the Decision Records and leaves the audit log.             *)
Seed ==
    /\ build <= MaxSeeds
    /\ build' = build + 1
    /\ records' = <<>>
    /\ UNCHANGED <<request, thread, locked, evidence, audited, disk, loaded>>

ThreadStep(t) ==
    \/ Begin(t) \/ LockRequester(t) \/ RecordWrite(t) \/ CommitWrite(t)
    \/ Read(t) \/ BeginEvent(t) \/ RecordRead(t)

=============================================================================
