------------------------------- MODULE EvalRun --------------------------------
(***************************************************************************)
(* One run of eval/run_eval.py against the API: the scenarios of a persona *)
(* one after the other, each with the checks of its Decision Record, and   *)
(* the header of the results.  The runner gives a request up after 180     *)
(* seconds; the API works on it beside the next scenario.                  *)
(***************************************************************************)
EXTENDS RequestThreads, Sequences

CONSTANT Scenarios     \* how many scenarios the run has; they are the requests

ASSUME EvalRunAssumption == Scenarios \in Nat \ {0} /\ Requests = 1..Scenarios

VARIABLES
    scenario,   \* the scenario that runs
    step,       \* what run_scenario does next
    since,      \* the build in the database when it began
    read,       \* the Decision Record that it read, if there was one
    results,    \* one result per scenario that ended
    header,     \* the header, once the results are written
    restarted   \* whether the API was restarted since the run began

runVars == <<scenario, step, since, read, results, header>>
vars == <<serverVars, runVars, restarted>>

(* The prompts may have been edited since the API was started.             *)
Init ==
    /\ ServerInit
    /\ scenario = 1 /\ step = "post" /\ since = 1
    /\ read = {} /\ results = <<>> /\ header = {}
    /\ restarted = FALSE

-----------------------------------------------------------------------------
Reading == UNCHANGED <<serverVars, restarted>>

Post ==
    /\ step = "post" /\ scenario <= Scenarios
    /\ request' = [request EXCEPT ![scenario] = "tools"]
    /\ step' = "chat"
    /\ since' = build
    /\ UNCHANGED <<thread, locked, evidence, audited, records, build, disk, loaded,
                   scenario, read, results, header, restarted>>

TakeAnswer ==
    /\ step = "chat" /\ request[scenario] = "answered"
    /\ step' = "record"
    /\ UNCHANGED <<scenario, since, read, results, header>> /\ Reading

(* GET /decisions/{request_id}; a 404 is no error.                         *)
ReadRecord ==
    /\ step = "record"
    /\ read' = IF scenario \in DOMAIN records THEN {records[scenario]} ELSE {}
    /\ step' = "audit"
    /\ UNCHANGED <<scenario, since, results, header>> /\ Reading

(* get_audited_tool_calls: the tool_call events of this request.           *)
AuditedToolCalls == audited[scenario]

(* _record_problems: there is a record, and it shows the calls of the log. *)
RecordProblems ==
    \/ read = {}
    \/ \E record \in read : record.evidence # AuditedToolCalls

AddResult(kind, record) ==
    /\ results' = Append(results, [kind |-> kind, seeded |-> since # build,
          names |-> {[prompts |-> r.prompts, build |-> r.build] : r \in record}])
    /\ scenario' = scenario + 1
    /\ step' = "post"
    /\ read' = {}
    /\ UNCHANGED <<since, header>> /\ Reading

(* The audit log is read, and check_run compares.                          *)
CheckRun ==
    /\ step = "audit"
    /\ AddResult(IF RecordProblems THEN "failed" ELSE "passed", read)

(* An error of the API, or the timeout while the request goes on.          *)
ErrorResult ==
    /\ step \in {"chat", "record"}
    /\ AddResult("error", {})

Recorded == {i \in DOMAIN results : results[i].names # {}}

(* The prompt versions are those on disk. *)
PromptsOnDisk == disk

(* get_header: the records name the prompt versions, a later one over an   *)
(* earlier one; without records, they are those on disk.                   *)
HeaderPrompts ==
    IF Recorded = {} THEN disk
    ELSE LET last == CHOOSE i \in Recorded : \A j \in Recorded : j <= i
         IN  (CHOOSE names \in results[last].names : TRUE).prompts

(* The build is read from the database when all scenarios have ended.      *)
WriteHeader ==
    /\ step = "post" /\ scenario > Scenarios /\ header = {}
    /\ header' = {[build |-> build, prompts |-> HeaderPrompts]}
    /\ UNCHANGED <<scenario, step, since, read, results>> /\ Reading

Server ==
    /\ \/ \E t \in Threads : ThreadStep(t) \/ Raise(t)
       \/ \E q \in Requests : FailRequest(q) \/ Finalize(q)
       \/ EditPrompts \/ Seed
    /\ UNCHANGED <<runVars, restarted>>

RestartStep == Restart /\ restarted' = TRUE /\ UNCHANGED runVars

Next ==
    \/ Server \/ RestartStep
    \/ Post \/ TakeAnswer \/ ReadRecord \/ CheckRun \/ ErrorResult \/ WriteHeader

Spec == Init /\ [][Next]_vars

(* Every thread of the API keeps running, and so does every request that   *)
(* waits for its threads.  Nothing makes a statement fail, a client give   *)
(* up or anyone restart the API.                                           *)
FairSpec ==
    /\ Spec
    /\ \A t \in Threads : WF_vars(ThreadStep(t) /\ UNCHANGED <<runVars, restarted>>)
    /\ \A q \in Requests :
          WF_vars((FailRequest(q) \/ Finalize(q)) /\ UNCHANGED <<runVars, restarted>>)

-----------------------------------------------------------------------------
(* The runner never blames a request for calls it did not make: a scenario *)
(* during which nobody seeds passes the check of its record, whatever the  *)
(* requests that were given up still do.                                   *)
RecordCheckIsFair ==
    \A i \in DOMAIN results :
       ~results[i].seeded => results[i].kind # "failed"

(* The header names what the results were measured on: the build unless    *)
(* someone seeded during the run, the prompts unless the API was restarted, *)
(* also when the prompts were edited since the API was started.            *)
UndisturbedHeaderIsExact ==
    \A h \in header : \A i \in DOMAIN results : \A names \in results[i].names :
       /\ h.build = 1 => names.build = h.build
       /\ ~restarted => names.prompts = h.prompts

(* A request that was started is answered or fails: its threads, and those *)
(* of other requests, never wait for each other's lock and connections in  *)
(* a circle, with no timeout of the pool to end it.                        *)
EveryRequestEnds ==
    \A q \in Requests : request[q] = "tools" ~> request[q] \in {"answered", "error"}

=============================================================================
