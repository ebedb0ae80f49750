------------------------------ MODULE AgentGraph ------------------------------
(***************************************************************************)
(* One request through the agent graph (graph.py): the node that runs next *)
(* and the state the nodes share (state.py).  A step runs one node of      *)
(* nodes.py and the routing function after it.  What the model answers and *)
(* what the tools find is chosen freely.                                   *)
(***************************************************************************)
EXTENDS Integers, Sequences, FiniteSets, Functions

CONSTANTS
    MaxToolCalls,   \* settings.max_tool_calls_per_request
    Ids,            \* the chunk ids that a reply may hold
    Corpus,         \* the ids that a search can find
    Citable,        \* the ids that CITATION_PATTERN finds in a text
    Actions,        \* ids of rows of pending_actions
    Earlier,        \* the employee's rows that wait since earlier requests
    NoAction,       \* a tool result names no row
    ToolCalls,      \* the tool calls that one reply may ask for, by tool
    NoRecord        \* the request has no Decision Record

Tools == {"read", "search_policies", "write", "decline_request"}

ASSUME AgentGraphAssumption ==
    /\ MaxToolCalls \in Nat
    /\ Corpus \subseteq Ids
    /\ Earlier \subseteq Actions
    /\ NoAction \notin Actions
    /\ ToolCalls \subseteq Seq(Tools) \ {<<>>}

VARIABLES
    node,       \* the node that runs next; "end" and "failed" end the request
    outcome,    \* "none" until one is set
    objection,  \* verifier_objection is set
    used,       \* tool_calls_used
    retrieved,  \* retrieved_chunk_ids
    proposed,   \* proposed_action_ids
    reply,      \* the latest AIMessage: its tool calls and the ids it cites
    evidence,   \* decision_evidence
    rows,       \* rows this request added to pending_actions
    record,     \* its Decision Record
    steps       \* nodes that have run

stateVars == <<outcome, objection, used, retrieved, proposed, reply>>
vars == <<node, stateVars, evidence, rows, record, steps>>

Nodes == {"classify", "agent", "tools", "decline", "tool_limit_reached", "verify",
          "refuse", "finalize"}
Ended == {"end", "failed"}
Outcomes == {"resolve", "propose_action", "escalate", "refuse_with_citation"}
Reasons == {"classification_failed", "out_of_scope", "model_unavailable",
            "invalid_tool_arguments", "tool_limit_reached", "citation_check_failed"}

(* Beside other tool calls, nobody looks at what a reply cites.            *)
Replies ==
    {r \in [calls : ToolCalls \cup {<<>>}, cites : SUBSET Ids] :
        r.cites # {} => r.calls = <<>> \/ \E i \in DOMAIN r.calls : r.calls[i] = "decline_request"}

(* Evidence: the items that decide about a request or prove what it did.   *)
ToolItems == [type : {"tool_result"}, tool : Tools, chunks : SUBSET Corpus,
              action : Actions \cup {NoAction}, declined : BOOLEAN]
Verdicts == [type : {"verifier_verdict"}, passed : BOOLEAN, citations : SUBSET Ids]
Escalations == [type : {"escalation"}, reason : Reasons]
Retries == [type : {"retry"}]
Items == ToolItems \cup Verdicts \cup Escalations \cup Retries

Records == [outcome : Outcomes, citations : SUBSET Ids, evidence : Seq(Items)]

Escalation(why) == [type |-> "escalation", reason |-> why]
Retry == [type |-> "retry"]

Init ==
    /\ node = "classify"
    /\ outcome = "none"
    /\ objection = FALSE
    /\ used = 0
    /\ retrieved = {}
    /\ proposed = {}
    /\ reply = [calls |-> <<>>, cites |-> {}]
    /\ evidence = <<>>
    /\ rows = {}
    /\ record = NoRecord
    /\ steps = 0

GoTo(n) == node' = n /\ steps' = steps + 1

(* End the normal course of the request with an escalation. *)
Escalate(n, why) ==
    /\ outcome' = "escalate"
    /\ evidence' = evidence \o <<Escalation(why)>>
    /\ GoTo(n)

-----------------------------------------------------------------------------
Classify ==
    /\ node = "classify"
    /\ \/ GoTo("agent") /\ UNCHANGED <<outcome, evidence>>
       \/ \E why \in {"out_of_scope", "classification_failed"} : Escalate("refuse", why)
    /\ UNCHANGED <<objection, used, retrieved, proposed, reply, rows, record>>

(* The limit is compared before the calls of this reply are counted.       *)
RouteAfterAgentLate(calls) ==
    CASE calls = <<>> -> "verify"
      [] calls # <<>> /\ used >= MaxToolCalls -> "tool_limit_reached"
      [] OTHER -> "tools"

(* All calls of a reply run, or none does. *)
RouteAfterAgent(calls) ==
    CASE calls = <<>> -> "verify"
      [] calls # <<>> /\ used + Len(calls) > MaxToolCalls -> "tool_limit_reached"
      [] OTHER -> "tools"

Agent ==
    /\ node = "agent"
    /\ \/ \E r \in Replies :
             /\ reply' = r
             /\ GoTo(RouteAfterAgent(r.calls))
             /\ UNCHANGED <<outcome, evidence>>
       \/ /\ \E why \in {"model_unavailable", "invalid_tool_arguments"} :
                Escalate("refuse", why)
          /\ UNCHANGED reply
    /\ UNCHANGED <<objection, used, retrieved, proposed, rows, record>>

ToolLimit ==
    /\ node = "tool_limit_reached"
    /\ Escalate("refuse", "tool_limit_reached")
    /\ UNCHANGED <<objection, used, retrieved, proposed, reply, rows, record>>

(* What a call of each tool may leave as its evidence. *)
Results(tool) ==
    {item \in ToolItems :
        /\ item.tool = tool
        /\ item.chunks # {} => tool = "search_policies"
        /\ item.action # NoAction => tool = "write"
        /\ item.declined => tool = "decline_request"}

(* The evidence that a reply's calls may leave.  ToolNode runs them in     *)
(* threads, so it comes in any order, and a call whose arguments do not    *)
(* fit the tool leaves none.                                               *)
Ran(calls, items) ==
    \E call \in [DOMAIN items -> DOMAIN calls] :
       IsInjective(call) /\ \A i \in DOMAIN items : items[i] \in Results(calls[call[i]])

ItemsOf(calls) ==
    LET left == UNION {Results(calls[i]) : i \in DOMAIN calls} IN
    {items \in UNION {[1..n -> left] : n \in 0..Len(calls)} : Ran(calls, items)}

Named(items) == {items[i].action : i \in DOMAIN items} \ {NoAction}
Found(items) == UNION {items[i].chunks : i \in DOMAIN items}
Declined(items) == \E i \in DOMAIN items : items[i].declined

(* Each round of tools forgets what earlier rounds proposed.               *)
ToolsForgetsProposals ==
    /\ node = "tools"
    /\ \E items \in ItemsOf(reply.calls) :
          /\ evidence' = evidence \o items
          /\ retrieved' = retrieved \cup Found(items)
          /\ proposed' = Named(items)
          /\ rows' = rows \cup (Named(items) \ Earlier)
          /\ GoTo(IF Declined(items) THEN "decline" ELSE "agent")
    /\ used' = used + Len(reply.calls)
    /\ UNCHANGED <<outcome, objection, reply, record>>

(* The slice of new evidence starts one item too late.                     *)
ToolsLoseEvidence ==
    /\ node = "tools"
    /\ \E items \in ItemsOf(reply.calls) :
          /\ evidence' = evidence \o (IF items = <<>> THEN items ELSE Tail(items))
          /\ retrieved' = retrieved \cup Found(items)
          /\ proposed' = proposed \cup Named(items)
          /\ rows' = rows \cup (Named(items) \ Earlier)
          /\ GoTo(IF Declined(items) THEN "decline" ELSE "agent")
    /\ used' = used + Len(reply.calls)
    /\ UNCHANGED <<outcome, objection, reply, record>>

(* The tools node, with route_after_tools.  A write answers with the row   *)
(* it added, or with an equal one that waits already.                      *)
RunTools ==
    /\ node = "tools"
    /\ \E items \in ItemsOf(reply.calls) :
          /\ evidence' = evidence \o items
          /\ retrieved' = retrieved \cup Found(items)
          /\ proposed' = proposed \cup Named(items)
          /\ rows' = rows \cup (Named(items) \ Earlier)
          /\ GoTo(IF Declined(items) THEN "decline" ELSE "agent")
    /\ used' = used + Len(reply.calls)
    /\ UNCHANGED <<outcome, objection, reply, record>>

(* The accepted refusal becomes the draft answer. *)
Decline ==
    /\ node = "decline"
    /\ outcome' = "refuse_with_citation"
    /\ reply' = [calls |-> <<>>, cites |-> reply.cites]
    /\ GoTo("verify")
    /\ UNCHANGED <<objection, used, retrieved, proposed, evidence, rows, record>>

(* verify_citations of the draft. *)
Verdict ==
    LET citations == reply.cites \cap Citable IN
    [type |-> "verifier_verdict",
     passed |-> /\ citations \subseteq retrieved
                /\ outcome = "refuse_with_citation" => citations # {},
     citations |-> citations]

PassedOutcome ==
    IF outcome = "refuse_with_citation" THEN outcome
    ELSE IF proposed # {} THEN "propose_action" ELSE "resolve"

(* A draft that failed twice goes back to the agent, too.                  *)
RouteAfterVerifyToAgent(o) == IF o \in {"none", "escalate"} THEN "agent" ELSE "finalize"

(* Nothing goes back to the agent. *)
RouteAfterVerifyWithoutRetry(o) == IF o = "escalate" THEN "refuse" ELSE "finalize"

RouteAfterVerify(o) ==
    CASE o = "escalate" -> "refuse"
      [] o = "none" -> "agent"
      [] OTHER -> "finalize"

(* A refusal that fails keeps its outcome, so the request ends with it.    *)
VerifyKeepsOutcome ==
    /\ node = "verify"
    /\ \/ /\ Verdict.passed
          /\ outcome' = PassedOutcome
          /\ evidence' = evidence \o <<Verdict>>
          /\ UNCHANGED objection
       \/ /\ ~Verdict.passed /\ ~objection
          /\ objection' = TRUE
          /\ evidence' = evidence \o <<Verdict, Retry>>
          /\ UNCHANGED outcome
       \/ /\ ~Verdict.passed /\ objection
          /\ outcome' = "escalate"
          /\ evidence' = evidence \o <<Verdict, Escalation("citation_check_failed")>>
          /\ UNCHANGED objection
    /\ GoTo(RouteAfterVerify(outcome'))
    /\ UNCHANGED <<used, retrieved, proposed, reply, rows, record>>

(* Every draft that fails is tried again.                                  *)
VerifyRetriesAlways ==
    /\ node = "verify"
    /\ \/ /\ Verdict.passed
          /\ outcome' = PassedOutcome
          /\ evidence' = evidence \o <<Verdict>>
          /\ UNCHANGED objection
       \/ /\ ~Verdict.passed
          /\ objection' = TRUE
          /\ outcome' = "none"
          /\ evidence' = evidence \o <<Verdict, Retry>>
    /\ GoTo(RouteAfterVerify(outcome'))
    /\ UNCHANGED <<used, retrieved, proposed, reply, rows, record>>

(* The first draft that fails is tried again, without an outcome; the      *)
(* second ends the request.                                                *)
Verify ==
    /\ node = "verify"
    /\ \/ /\ Verdict.passed
          /\ outcome' = PassedOutcome
          /\ evidence' = evidence \o <<Verdict>>
          /\ UNCHANGED objection
       \/ /\ ~Verdict.passed /\ ~objection
          /\ objection' = TRUE
          /\ outcome' = "none"
          /\ evidence' = evidence \o <<Verdict, Retry>>
       \/ /\ ~Verdict.passed /\ objection
          /\ outcome' = "escalate"
          /\ evidence' = evidence \o <<Verdict, Escalation("citation_check_failed")>>
          /\ UNCHANGED objection
    /\ GoTo(RouteAfterVerify(outcome'))
    /\ UNCHANGED <<used, retrieved, proposed, reply, rows, record>>

(* The fixed answer of an escalation cites nothing. *)
Refuse ==
    /\ node = "refuse"
    /\ outcome' = "escalate"
    /\ reply' = [calls |-> <<>>, cites |-> {}]
    /\ GoTo("finalize")
    /\ UNCHANGED <<objection, used, retrieved, proposed, evidence, rows, record>>

(* The citations of a record: those of the last verdict, if it passed. *)
CitationsOf(ev) ==
    LET verdicts == {i \in DOMAIN ev : ev[i].type = "verifier_verdict"}
        last == {i \in verdicts : ev[i].passed /\ \A j \in verdicts : j <= i}
    IN  UNION {ev[i].citations : i \in last}

(* A request without an outcome is never recorded: the code raises. *)
Finalize ==
    /\ node = "finalize"
    /\ outcome # "none"
    /\ record' = [outcome |-> outcome, citations |-> CitationsOf(evidence),
                  evidence |-> evidence]
    /\ GoTo("end")
    /\ UNCHANGED <<stateVars, evidence, rows>>

(* An exception in a node, or the end of the process.  In the tools node   *)
(* some of the writes may have committed.                                  *)
Fail ==
    /\ node \in Nodes
    /\ IF node = "tools"
       THEN \E items \in ItemsOf(reply.calls) : rows' = rows \cup (Named(items) \ Earlier)
       ELSE UNCHANGED rows
    /\ GoTo("failed")
    /\ UNCHANGED <<stateVars, evidence, record>>

RunNode ==
    \/ Classify \/ Agent \/ ToolLimit \/ RunTools \/ Decline \/ Verify \/ Refuse \/ Finalize

Next == RunNode \/ Fail

Spec == Init /\ [][Next]_vars

(* LangGraph runs the next node as long as there is one.                   *)
FairSpec == Spec /\ WF_vars(RunNode)

-----------------------------------------------------------------------------
TypeOK ==
    /\ node \in Nodes \cup Ended
    /\ outcome \in Outcomes \cup {"none"}
    /\ objection \in BOOLEAN
    /\ used \in Nat
    /\ retrieved \subseteq Corpus
    /\ proposed \subseteq Actions
    /\ reply \in Replies
    /\ evidence \in Seq(Items)
    /\ rows \subseteq Actions
    /\ record \in Records \cup {NoRecord}
    /\ steps \in Nat

ItemsOfType(ev, type) == {i \in DOMAIN ev : ev[i].type = type}
FoundIn(ev) == UNION {ev[i].chunks : i \in ItemsOfType(ev, "tool_result")}
NamedIn(ev) == {ev[i].action : i \in ItemsOfType(ev, "tool_result")} \ {NoAction}

(* A request never runs more tool calls than its limit, though replies ask *)
(* for several at once: route_after_agent counts a reply before it runs.   *)
ToolLimitHolds ==
    /\ Cardinality(ItemsOfType(evidence, "tool_result")) <= used
    /\ used <= MaxToolCalls

(* An answer cites only chunks that a search of this same request returned *)
(* and its record names exactly those; a refusal cites at least one.  This *)
(* must survive the retry, which starts over with the outcome of the first *)
(* draft still in the state.                                               *)
CitationsAreFound ==
    record # NoRecord =>
       LET cited == reply.cites \cap Citable IN
       /\ record.citations = cited
       /\ cited \subseteq FoundIn(record.evidence)
       /\ record.outcome = "refuse_with_citation" => cited # {}

(* The evidence has one reason for an escalation, and none without one:    *)
(* summarize reads the last reason it finds.                               *)
EscalationHasOneReason ==
    /\ \A i, j \in ItemsOfType(evidence, "escalation") : i = j
    /\ record # NoRecord =>
         (record.outcome = "escalate" <=> ItemsOfType(record.evidence, "escalation") # {})

(* A request that proposed something is never recorded as resolved, and    *)
(* one that is recorded as a proposal names a row, also when the proposal  *)
(* was made before a draft that failed.                                    *)
OutcomeTellsOfProposals ==
    record # NoRecord =>
       /\ record.outcome = "resolve" => NamedIn(record.evidence) = {}
       /\ record.outcome = "propose_action" => NamedIn(record.evidence) # {}

(* Once a request escalates, it runs no tool and changes its mind no more. *)
EscalationEndsWork ==
    [][outcome = "escalate" =>
          outcome' = outcome /\ evidence' = evidence /\ rows' = rows]_vars

(* The nodes that may still run from node n: whether the retry is used, and *)
(* the calls that the limit still allows.                                   *)
LeftFrom(n, retried, calls) ==
    CASE n \in Ended -> 0
      [] n = "finalize" -> 1
      [] n = "refuse" -> 2
      [] n = "tool_limit_reached" -> 3
      [] n = "verify" -> IF retried THEN 3 ELSE 2 * calls + 5
      [] n = "decline" -> IF retried THEN 4 ELSE 2 * calls + 6
      [] n = "tools" -> IF retried THEN 2 * calls + 3 ELSE 2 * calls + 5
      [] n = "agent" -> IF retried THEN 2 * calls + 4 ELSE 2 * calls + 6
      [] n = "classify" -> 2 * calls + 7

Left == LeftFrom(node, objection, MaxToolCalls - used)

(* The graph has cycles, and no request goes around them for ever: every   *)
(* turn uses up a tool call or the one retry.                              *)
StepsBounded == steps + Left <= 2 * MaxToolCalls + 7

(* Every request ends: with a record, or with a failure from outside its   *)
(* course (Fail).  No node waits for ever, and none is reached that cannot *)
(* run.                                                                    *)
Termination == <>(node \in Ended)

(* To the rest of the system a request is one that keeps the promises of   *)
(* RequestLife: its record explains every row that it added.               *)
Life == INSTANCE RequestLife WITH
    phase <- CASE node = "end" -> "recorded" [] node = "failed" -> "lost"
               [] OTHER -> "running",
    explained <- IF node = "end" THEN NamedIn(record.evidence) \ Earlier ELSE {}
LifeSpec == Life!Spec

-----------------------------------------------------------------------------
(* The inductive invariant.                                                *)

(* The lists that the nodes keep are what the evidence says.               *)
StateMatchesEvidence ==
    /\ retrieved = FoundIn(evidence)
    /\ proposed = NamedIn(evidence)
    /\ node # "failed" => rows = proposed \ Earlier
    /\ outcome = "escalate" <=> ItemsOfType(evidence, "escalation") # {}

(* The outcome that a node may find.                                       *)
OutcomeFitsNode ==
    /\ node \in {"classify", "agent", "tools", "decline", "tool_limit_reached"} =>
         outcome = "none"
    /\ node = "verify" => outcome \in {"none", "refuse_with_citation"}
    /\ node = "refuse" => outcome = "escalate"
    /\ node \in {"finalize", "end"} => outcome \in Outcomes

(* Calls that are about to run fit the limit.                              *)
CallsFit ==
    node = "tools" => reply.calls \in ToolCalls /\ used + Len(reply.calls) <= MaxToolCalls

PassedIn(ev) == {i \in ItemsOfType(ev, "verifier_verdict") : ev[i].passed}

(* A draft that passes is the end of the work; its verdict comes last.     *)
VerdictIsLast ==
    /\ node \in Nodes \ {"finalize"} => PassedIn(evidence) = {}
    /\ node \in {"finalize", "end"} =>
         IF outcome = "escalate" THEN PassedIn(evidence) = {} /\ reply.cites = {}
         ELSE LET cited == reply.cites \cap Citable IN
              /\ evidence # <<>>
              /\ evidence[Len(evidence)] =
                   [type |-> "verifier_verdict", passed |-> TRUE, citations |-> cited]
              /\ cited \subseteq retrieved
              /\ outcome = "refuse_with_citation" => cited # {}
              /\ outcome = "resolve" => proposed = {}
              /\ outcome = "propose_action" => proposed # {}

RecordTellsTheEnd ==
    /\ node = "end" => record = [outcome |-> outcome, citations |-> CitationsOf(evidence),
                                 evidence |-> evidence]
    /\ node # "end" => record = NoRecord

GraphInvariant ==
    /\ TypeOK /\ StateMatchesEvidence /\ OutcomeFitsNode /\ CallsFit /\ VerdictIsLast
    /\ RecordTellsTheEnd /\ ToolLimitHolds /\ EscalationHasOneReason /\ StepsBounded

=============================================================================
