-------------------------- MODULE AgentGraph_proofs --------------------------
(***************************************************************************)
(* A request through the graph keeps its promises for every limit of tool  *)
(* calls, every set of chunks and rows and every reply of the model.       *)
(*                                                                         *)
(* GraphInvariant is inductive.  Every node only adds to the evidence, so  *)
(* the proofs rest on what a sequence of items says once more is appended. *)
(***************************************************************************)
EXTENDS AgentGraph, SequenceTheorems, FiniteSetTheorems, TLAPS

-----------------------------------------------------------------------------
(* Evidence with more items at its end.                                    *)

(* The items keep their places, and more comes behind them.                *)
LEMMA Extended ==
    ASSUME NEW ev \in Seq(Items), NEW more \in Seq(Items)
    PROVE  /\ ev \o more \in Seq(Items)
           /\ Len(ev \o more) = Len(ev) + Len(more)
           /\ DOMAIN (ev \o more) = 1..(Len(ev) + Len(more))
           /\ \A i \in DOMAIN ev : (ev \o more)[i] = ev[i]
           /\ \A i \in DOMAIN more : (ev \o more)[Len(ev) + i] = more[i]
           /\ \A i \in DOMAIN (ev \o more) :
                 \/ i \in DOMAIN ev
                 \/ i - Len(ev) \in DOMAIN more /\ i = Len(ev) + (i - Len(ev))
<1>1. /\ Len(ev) \in Nat /\ DOMAIN ev = 1..Len(ev)
      /\ Len(more) \in Nat /\ DOMAIN more = 1..Len(more)
    BY LenProperties
<1>2. /\ ev \o more \in Seq(Items)
      /\ Len(ev \o more) = Len(ev) + Len(more)
      /\ \A i \in 1..(Len(ev) + Len(more)) :
            (ev \o more)[i] = IF i <= Len(ev) THEN ev[i] ELSE more[i - Len(ev)]
    BY ConcatProperties
<1>3. DOMAIN (ev \o more) = 1..(Len(ev) + Len(more))
    BY <1>2, LenProperties
<1> QED
    BY <1>1, <1>2, <1>3

(* The places of the items of a type.                                      *)
LEMMA ExtendedItems ==
    ASSUME NEW ev \in Seq(Items), NEW more \in Seq(Items), NEW type
    PROVE  ItemsOfType(ev \o more, type) =
              ItemsOfType(ev, type) \cup {Len(ev) + i : i \in ItemsOfType(more, type)}
BY Extended, LenProperties DEF ItemsOfType

(* What the tool results say adds up.                                      *)
LEMMA ExtendedResults ==
    ASSUME NEW ev \in Seq(Items), NEW more \in Seq(Items)
    PROVE  /\ FoundIn(ev \o more) = FoundIn(ev) \cup FoundIn(more)
           /\ NamedIn(ev \o more) = NamedIn(ev) \cup NamedIn(more)
<1> DEFINE all == ev \o more
           old == ItemsOfType(ev, "tool_result")
           new == ItemsOfType(more, "tool_result")
           both == ItemsOfType(all, "tool_result")
<1>1. both = old \cup {Len(ev) + i : i \in new}
    BY ExtendedItems
<1>2. \A i \in old : all[i] = ev[i]
    BY Extended DEF ItemsOfType
<1>3. \A i \in new : all[Len(ev) + i] = more[i]
    BY Extended DEF ItemsOfType
<1> HIDE DEF all, old, new, both
<1>4. {all[i].chunks : i \in both} = {ev[i].chunks : i \in old} \cup {more[i].chunks : i \in new}
    BY <1>1, <1>2, <1>3
<1>5. {all[i].action : i \in both} = {ev[i].action : i \in old} \cup {more[i].action : i \in new}
    BY <1>1, <1>2, <1>3
<1>6. UNION {all[i].chunks : i \in both} =
         (UNION {ev[i].chunks : i \in old}) \cup (UNION {more[i].chunks : i \in new})
    BY <1>4, Zenon
<1> QED
    BY <1>5, <1>6 DEF FoundIn, NamedIn, all, old, new, both

(* One item or two, none of them a tool result: nothing was found or       *)
(* proposed.                                                               *)
LEMMA OneMore ==
    ASSUME NEW ev \in Seq(Items), NEW x \in Items, x.type # "tool_result"
    PROVE  /\ ev \o <<x>> \in Seq(Items)
           /\ Len(ev \o <<x>>) = Len(ev) + 1
           /\ (ev \o <<x>>)[Len(ev) + 1] = x
           /\ \A i \in DOMAIN ev : (ev \o <<x>>)[i] = ev[i]
           /\ DOMAIN (ev \o <<x>>) = 1..(Len(ev) + 1)
           /\ ItemsOfType(ev \o <<x>>, "tool_result") = ItemsOfType(ev, "tool_result")
           /\ FoundIn(ev \o <<x>>) = FoundIn(ev)
           /\ NamedIn(ev \o <<x>>) = NamedIn(ev)
<1>1. <<x>> \in Seq(Items) /\ Len(<<x>>) = 1 /\ DOMAIN <<x>> = 1..1 /\ <<x>>[1] = x
    OBVIOUS
<1>2. ItemsOfType(<<x>>, "tool_result") = {}
    BY <1>1 DEF ItemsOfType
<1>3. FoundIn(<<x>>) = {} /\ NamedIn(<<x>>) = {}
    BY <1>2 DEF FoundIn, NamedIn
<1>4. Len(ev) \in Nat
    BY LenProperties
<1> DEFINE more == <<x>>
           all == ev \o more
<1>5. more \in Seq(Items) /\ Len(more) = 1 /\ DOMAIN more = 1..1 /\ more[1] = x
    BY <1>1
<1>6. ItemsOfType(more, "tool_result") = {} /\ FoundIn(more) = {} /\ NamedIn(more) = {}
    BY <1>2, <1>3
<1> HIDE DEF more
<1>7. ItemsOfType(all, "tool_result") =
         ItemsOfType(ev, "tool_result") \cup {Len(ev) + i : i \in ItemsOfType(more, "tool_result")}
    BY <1>5, ExtendedItems
<1>9. FoundIn(all) = FoundIn(ev) \cup FoundIn(more) /\ NamedIn(all) = NamedIn(ev) \cup NamedIn(more)
    BY <1>5, ExtendedResults
<1>10. /\ all \in Seq(Items) /\ Len(all) = Len(ev) + 1 /\ DOMAIN all = 1..(Len(ev) + 1)
       /\ all[Len(ev) + 1] = x
       /\ \A i \in DOMAIN ev : all[i] = ev[i]
    <2>1. /\ all \in Seq(Items) /\ Len(all) = Len(ev) + Len(more)
          /\ DOMAIN all = 1..(Len(ev) + Len(more))
          /\ \A i \in DOMAIN ev : all[i] = ev[i]
          /\ \A i \in DOMAIN more : all[Len(ev) + i] = more[i]
        BY <1>5, Extended
    <2> HIDE DEF all
    <2>2. 1 \in DOMAIN more
        BY <1>5
    <2> QED
        BY <1>5, <2>1, <2>2
<1> HIDE DEF all
<1>11. /\ ItemsOfType(all, "tool_result") = ItemsOfType(ev, "tool_result")
       /\ FoundIn(all) = FoundIn(ev)
       /\ NamedIn(all) = NamedIn(ev)
    BY <1>6, <1>7, <1>9
<1> QED
    BY <1>10, <1>11 DEF more, all

LEMMA TwoMore ==
    ASSUME NEW ev \in Seq(Items), NEW x \in Items, NEW y \in Items,
           x.type # "tool_result", y.type # "tool_result"
    PROVE  ev \o <<x, y>> = (ev \o <<x>>) \o <<y>>
<1>1. <<x>> \in Seq(Items) /\ <<y>> \in Seq(Items) /\ <<x, y>> \in Seq(Items)
    OBVIOUS
<1>2. <<x>> \o <<y>> \in Seq(Items) /\ Len(<<x>> \o <<y>>) = 2
      /\ (<<x>> \o <<y>>)[1] = x /\ (<<x>> \o <<y>>)[2] = y
    BY <1>1
<1>3. <<x, y>> = <<x>> \o <<y>>
    <2> DEFINE s == <<x, y>>
               t == <<x>> \o <<y>>
    <2>1. Len(s) = 2 /\ s[1] = x /\ s[2] = y /\ s \in Seq(Items)
        BY <1>1
    <2>2. Len(t) = 2 /\ t[1] = x /\ t[2] = y /\ t \in Seq(Items)
        BY <1>2
    <2> HIDE DEF s, t
    <2>3. \A i \in 1..Len(s) : s[i] = t[i]
        BY <2>1, <2>2
    <2>4. s = t
        BY <2>1, <2>2, <2>3, SeqEqual
    <2> QED
        BY <2>4 DEF s, t
<1>4. ev \o (<<x>> \o <<y>>) = (ev \o <<x>>) \o <<y>>
    BY <1>1, ConcatAssociative
<1> QED
    BY <1>3, <1>4

(* The places of one more item.                                            *)
LEMMA OneMorePlace ==
    ASSUME NEW ev \in Seq(Items), NEW x \in Items, NEW type
    PROVE  ItemsOfType(ev \o <<x>>, type) =
              IF x.type = type THEN ItemsOfType(ev, type) \cup {Len(ev) + 1}
              ELSE ItemsOfType(ev, type)
<1> DEFINE more == <<x>>
<1>1. more \in Seq(Items) /\ Len(more) = 1 /\ DOMAIN more = 1..1 /\ more[1] = x
    OBVIOUS
<1>2. Len(ev) \in Nat
    BY LenProperties
<1> HIDE DEF more
<1>3. ItemsOfType(ev \o more, type) =
         ItemsOfType(ev, type) \cup {Len(ev) + i : i \in ItemsOfType(more, type)}
    BY <1>1, ExtendedItems
<1>4. ItemsOfType(more, type) = IF x.type = type THEN {1} ELSE {}
    BY <1>1 DEF ItemsOfType
<1>5. {Len(ev) + i : i \in {1}} = {Len(ev) + 1} /\ {Len(ev) + i : i \in {}} = {}
    OBVIOUS
<1>6. ItemsOfType(ev \o more, type) =
         IF x.type = type THEN ItemsOfType(ev, type) \cup {Len(ev) + 1}
         ELSE ItemsOfType(ev, type)
    BY <1>3, <1>4, <1>5
<1> QED
    BY <1>6 DEF more

(* The kinds of items.                                                     *)
LEMMA Kinds ==
    /\ \A why \in Reasons : Escalation(why) \in Items /\ Escalation(why).type = "escalation"
    /\ Retry \in Items /\ Retry.type = "retry"
    /\ \A x \in ToolItems : x \in Items /\ x.type = "tool_result"
BY DEF Items, Escalations, Escalation, Retries, Retry, ToolItems, Reasons

(* A record cites chunk ids.                                               *)
LEMMA CitationsType ==
    ASSUME NEW ev \in Seq(Items)
    PROVE  CitationsOf(ev) \subseteq Ids
<1>1. \A i \in DOMAIN ev : ev[i] \in Items
    BY LenProperties
<1>2. \A i \in DOMAIN ev : ev[i].type = "verifier_verdict" => ev[i].citations \subseteq Ids
    BY <1>1 DEF Items, Verdicts, ToolItems, Escalations, Retries
<1> QED
    BY <1>2, Zenon DEF CitationsOf

(* The verdict on a reply.                                                 *)
LEMMA VerdictKind ==
    ASSUME TypeOK
    PROVE  /\ Verdict \in Items
           /\ Verdict.type = "verifier_verdict"
           /\ Verdict.citations = reply.cites \cap Citable
           /\ Verdict.passed \in BOOLEAN
           /\ Verdict.passed <=>
                 /\ reply.cites \cap Citable \subseteq retrieved
                 /\ outcome = "refuse_with_citation" => reply.cites \cap Citable # {}
<1>1. reply.cites \cap Citable \in SUBSET Ids
    BY DEF TypeOK, Replies
<1> QED
    BY <1>1 DEF Verdict, Items, Verdicts

(* The evidence that tool calls leave.                                     *)
LEMMA ItemsType ==
    ASSUME NEW calls \in Seq(Tools), NEW items \in ItemsOf(calls)
    PROVE  /\ items \in Seq(Items)
           /\ Len(items) <= Len(calls)
           /\ \A i \in DOMAIN items : items[i] \in ToolItems
<1>1. PICK n \in 0..Len(calls) :
         items \in [1..n -> UNION {Results(calls[i]) : i \in DOMAIN calls}]
    BY DEF ItemsOf
<1>2. \A tool : Results(tool) \subseteq ToolItems
    BY DEF Results
<1>3. UNION {Results(calls[i]) : i \in DOMAIN calls} \subseteq ToolItems
    BY <1>2, Zenon
<1>4. items \in [1..n -> ToolItems]
    BY <1>1, <1>3
<1>5. Len(calls) \in Nat
    BY LenProperties
<1>6. items \in Seq(ToolItems) /\ Len(items) = n
    BY <1>4, <1>5
<1>7. ToolItems \subseteq Items
    BY DEF Items
<1> QED
    BY <1>4, <1>5, <1>6, <1>7, SeqMonotonic

(* What they found and named.                                              *)
LEMMA ItemsSay ==
    ASSUME NEW calls \in Seq(Tools), NEW items \in ItemsOf(calls)
    PROVE  /\ FoundIn(items) = Found(items) /\ Found(items) \subseteq Corpus
           /\ NamedIn(items) = Named(items) /\ Named(items) \subseteq Actions
<1>1. \A i \in DOMAIN items : items[i] \in ToolItems
    BY ItemsType
<1>2. \A i \in DOMAIN items : /\ items[i].type = "tool_result"
                              /\ items[i].chunks \subseteq Corpus
                              /\ items[i].action \in Actions \cup {NoAction}
    BY <1>1 DEF ToolItems
<1>3. ItemsOfType(items, "tool_result") = DOMAIN items
    BY <1>2 DEF ItemsOfType
<1>4. Found(items) \subseteq Corpus
    BY <1>2, Zenon DEF Found
<1> QED
    BY <1>2, <1>3, <1>4 DEF FoundIn, NamedIn, Found, Named

-----------------------------------------------------------------------------
(* The node, and what it may find.                                         *)

(* Every variable keeps its type.                                          *)
LEMMA TypePreserved ==
    ASSUME TypeOK, OutcomeFitsNode, [Next]_vars
    PROVE  TypeOK'
<1> USE AgentGraphAssumption
<1>1. evidence \in Seq(Items) /\ reply.calls \in Seq(Tools) /\ Len(reply.calls) \in Nat
    <2>1. evidence \in Seq(Items) /\ reply.calls \in ToolCalls \cup {<<>>}
        BY DEF TypeOK, Replies
    <2>2. <<>> \in Seq(Tools)
        BY EmptySeq
    <2> QED
        BY <2>1, <2>2, LenProperties
<1>2. \A why \in Reasons : evidence \o <<Escalation(why)>> \in Seq(Items)
    BY <1>1, Kinds, OneMore
<1>3. CASE Classify
    BY <1>2, <1>3, SMTT(30) DEF Classify, TypeOK, GoTo, Escalate, Reasons, Nodes, Outcomes
<1>4. CASE Agent
    <2>1. CASE \E r \in Replies : /\ reply' = r
                                  /\ GoTo(RouteAfterAgent(r.calls))
                                  /\ UNCHANGED <<outcome, evidence>>
        BY <1>4, <2>1 DEF Agent, TypeOK, GoTo, Nodes, RouteAfterAgent
    <2>2. CASE \E why \in {"model_unavailable", "invalid_tool_arguments"} :
                  Escalate("refuse", why) /\ UNCHANGED reply
        BY <1>2, <1>4, <2>2 DEF Agent, TypeOK, GoTo, Escalate, Reasons, Nodes, Outcomes
    <2> QED
        BY <1>4, <2>1, <2>2 DEF Agent
<1>5. CASE ToolLimit
    BY <1>2, <1>5 DEF ToolLimit, TypeOK, GoTo, Escalate, Reasons, Nodes, Outcomes
<1>6. CASE RunTools
    <2>1. PICK items \in ItemsOf(reply.calls) :
             /\ evidence' = evidence \o items
             /\ retrieved' = retrieved \cup Found(items)
             /\ proposed' = proposed \cup Named(items)
             /\ rows' = rows \cup (Named(items) \ Earlier)
             /\ GoTo(IF Declined(items) THEN "decline" ELSE "agent")
        BY <1>6 DEF RunTools
    <2>2. items \in Seq(Items) /\ Found(items) \subseteq Corpus /\ Named(items) \subseteq Actions
        BY <1>1, ItemsType, ItemsSay
    <2>3. evidence' \in Seq(Items)
        BY <1>1, <2>1, <2>2, Extended
    <2> QED
        BY <1>1, <1>6, <2>1, <2>2, <2>3 DEF RunTools, TypeOK, GoTo, Nodes
<1>7. CASE Decline
    <2>1. reply' \in Replies
        BY <1>7 DEF Decline, TypeOK, Replies
    <2> QED
        BY <1>7, <2>1 DEF Decline, TypeOK, GoTo, Nodes, Outcomes
<1>8. CASE Verify
    <2>1. evidence \o <<Verdict>> \in Seq(Items)
        BY <1>1, VerdictKind, OneMore
    <2>2. evidence \o <<Verdict, Retry>> \in Seq(Items)
        BY <1>1, <2>1, VerdictKind, Kinds, OneMore, TwoMore
    <2>3. evidence \o <<Verdict, Escalation("citation_check_failed")>> \in Seq(Items)
        <3>1. "citation_check_failed" \in Reasons
            BY DEF Reasons
        <3> QED
            BY <1>1, <2>1, <3>1, VerdictKind, Kinds, OneMore, TwoMore
    <2>4. outcome' \in Outcomes \cup {"none"} /\ objection' \in BOOLEAN
        BY <1>8 DEF Verify, TypeOK, PassedOutcome, Outcomes
    <2>5. evidence' \in Seq(Items)
        BY <1>8, <2>1, <2>2, <2>3 DEF Verify
    <2>6. node' \in Nodes /\ steps' \in Nat
        BY <1>8 DEF Verify, TypeOK, GoTo, RouteAfterVerify, Nodes
    <2> QED
        BY <1>8, <2>4, <2>5, <2>6 DEF Verify, TypeOK
<1>9. CASE Refuse
    <2>1. reply' \in Replies
        BY <1>9 DEF Refuse, TypeOK, Replies
    <2> QED
        BY <1>9, <2>1 DEF Refuse, TypeOK, GoTo, Nodes, Outcomes
<1>10. CASE Finalize
    <2>1. CitationsOf(evidence) \subseteq Ids
        BY <1>1, CitationsType
    <2>2. outcome \in Outcomes
        BY <1>10 DEF Finalize, TypeOK
    <2>3. record' \in Records
        BY <1>1, <1>10, <2>1, <2>2 DEF Finalize, Records
    <2> QED
        BY <1>10, <2>3 DEF Finalize, TypeOK, stateVars, GoTo, Ended
<1>11. CASE Fail
    <2>1. rows' \subseteq Actions
        <3>1. \A items \in ItemsOf(reply.calls) : Named(items) \subseteq Actions
            BY <1>1, ItemsSay
        <3> QED
            BY <1>11, <3>1 DEF Fail, TypeOK
    <2> QED
        BY <1>11, <2>1 DEF Fail, TypeOK, stateVars, GoTo, Ended
<1>12. CASE UNCHANGED vars
    BY <1>12 DEF TypeOK, vars, stateVars
<1> QED
    BY <1>3, <1>4, <1>5, <1>6, <1>7, <1>8, <1>9, <1>10, <1>11, <1>12 DEF Next, RunNode

(* The measure, node by node.                                              *)
LEMMA LeftFromNode ==
    ASSUME NEW retried \in BOOLEAN, NEW calls \in Int
    PROVE  /\ LeftFrom("end", retried, calls) = 0
           /\ LeftFrom("failed", retried, calls) = 0
           /\ LeftFrom("finalize", retried, calls) = 1
           /\ LeftFrom("refuse", retried, calls) = 2
           /\ LeftFrom("tool_limit_reached", retried, calls) = 3
           /\ LeftFrom("verify", retried, calls) = IF retried THEN 3 ELSE 2 * calls + 5
           /\ LeftFrom("decline", retried, calls) = IF retried THEN 4 ELSE 2 * calls + 6
           /\ LeftFrom("tools", retried, calls) = IF retried THEN 2 * calls + 3 ELSE 2 * calls + 5
           /\ LeftFrom("agent", retried, calls) = IF retried THEN 2 * calls + 4 ELSE 2 * calls + 6
           /\ LeftFrom("classify", retried, calls) = 2 * calls + 7
BY DEF LeftFrom, Ended

(* A step that leaves less to come keeps the bound.                        *)
LEMMA LessToCome ==
    ASSUME NEW s \in Int, NEW l \in Int, NEW s2 \in Int, NEW l2 \in Int, NEW bound \in Int,
           s + l <= bound, s2 = s + 1, l2 <= l - 1
    PROVE  s2 + l2 <= bound
OBVIOUS

LEMMA OneStepLess ==
    ASSUME TypeOK, StepsBounded, MaxToolCalls \in Nat,
           steps' = steps + 1, Left \in Int, Left' \in Int, Left' <= Left - 1
    PROVE  StepsBounded'
<1>1. steps \in Int /\ steps' \in Int
    BY DEF TypeOK
<1> DEFINE bound == 2 * MaxToolCalls + 7
<1>2. bound \in Int
    OBVIOUS
<1>3. steps + Left <= bound
    BY DEF StepsBounded
<1> HIDE DEF bound
<1>4. steps' + Left' <= bound
    BY <1>1, <1>2, <1>3, LessToCome
<1> QED
    BY <1>4 DEF StepsBounded, bound

(* The control of the graph: a node finds the outcome that it expects, the *)
(* calls of a reply that runs fit the limit, and every step leaves fewer   *)
(* to come.                                                                *)
LEMMA ControlPreserved ==
    ASSUME TypeOK, OutcomeFitsNode, CallsFit, used <= MaxToolCalls, StepsBounded, [Next]_vars
    PROVE  OutcomeFitsNode' /\ CallsFit' /\ used' <= MaxToolCalls /\ StepsBounded'
<1> USE AgentGraphAssumption
<1>1. MaxToolCalls \in Nat /\ used \in Nat /\ steps \in Nat /\ objection \in BOOLEAN
    BY DEF TypeOK
<1>2. \A calls \in ToolCalls : Len(calls) \in Nat /\ Len(calls) >= 1
    <2>1. \A calls \in ToolCalls : calls \in Seq(Tools) /\ calls # <<>>
        OBVIOUS
    <2> QED
        BY <2>1, EmptySeq
<1>3. CASE Classify
    <2> DEFINE r == MaxToolCalls - used
    <2>1. node = "classify" /\ steps' = steps + 1 /\ UNCHANGED <<used, objection>>
          /\ \/ node' = "agent" /\ outcome' = outcome
             \/ node' = "refuse" /\ outcome' = "escalate"
        BY <1>3 DEF Classify, GoTo, Escalate
    <2>2. r \in Nat
        BY <1>1
    <2>3. Left = LeftFrom("classify", objection, r) /\ Left' = LeftFrom(node', objection, r)
        BY <2>1 DEF Left
    <2> HIDE DEF r
    <2>4. /\ LeftFrom("classify", objection, r) = 2 * r + 7
          /\ LeftFrom("agent", objection, r) = IF objection THEN 2 * r + 4 ELSE 2 * r + 6
          /\ LeftFrom("refuse", objection, r) = 2
        BY <1>1, <2>2, LeftFromNode
    <2>5. Left \in Int /\ Left' \in Int /\ Left' <= Left - 1
        BY <1>1, <2>1, <2>2, <2>3, <2>4
    <2>6. StepsBounded'
        BY <1>1, <2>1, <2>5, OneStepLess
    <2> QED
        BY <1>1, <2>1, <2>6 DEF OutcomeFitsNode, CallsFit, Outcomes
<1>4. CASE Agent
    <2>1. CASE \E r \in Replies : /\ reply' = r
                                  /\ GoTo(RouteAfterAgent(r.calls))
                                  /\ UNCHANGED <<outcome, evidence>>
        <3>1. PICK r \in Replies : /\ reply' = r
                                   /\ GoTo(RouteAfterAgent(r.calls))
                                   /\ UNCHANGED <<outcome, evidence>>
            BY <2>1
        <3>2. r.calls \in ToolCalls \cup {<<>>}
            BY DEF Replies
        <3>3. node = "agent" /\ outcome = "none" /\ UNCHANGED <<objection, used, outcome>>
            BY <1>4, <3>1 DEF Agent, OutcomeFitsNode
        <3>4. /\ node' = RouteAfterAgent(r.calls)
              /\ steps' = steps + 1
              /\ reply' = r
            BY <3>1 DEF GoTo
        <3>5. CASE r.calls = <<>>
            <4>1. node' = "verify"
                BY <3>4, <3>5 DEF RouteAfterAgent
            <4> QED
                BY <1>1, <3>3, <3>4, <4>1 DEF OutcomeFitsNode, CallsFit, StepsBounded, Left, LeftFrom, Ended
        <3>6. CASE r.calls # <<>> /\ used + Len(r.calls) > MaxToolCalls
            <4>1. node' = "tool_limit_reached"
                BY <3>4, <3>6 DEF RouteAfterAgent
            <4> QED
                BY <1>1, <3>3, <3>4, <4>1 DEF OutcomeFitsNode, CallsFit, StepsBounded, Left, LeftFrom, Ended
        <3>7. CASE r.calls # <<>> /\ ~(used + Len(r.calls) > MaxToolCalls)
            <4>1. node' = "tools"
                BY <3>4, <3>7 DEF RouteAfterAgent
            <4>2. r.calls \in ToolCalls /\ used + Len(r.calls) <= MaxToolCalls
                <5>1. r.calls \in ToolCalls
                    BY <3>2, <3>7
                <5>2. Len(r.calls) \in Nat
                    BY <1>2, <5>1
                <5> QED
                    BY <1>1, <3>7, <5>1, <5>2
            <4>3. OutcomeFitsNode' /\ CallsFit'
                BY <1>1, <3>3, <3>4, <4>1, <4>2 DEF OutcomeFitsNode, CallsFit
            <4>4. StepsBounded'
                BY <1>1, <3>3, <3>4, <4>1 DEF StepsBounded, Left, LeftFrom, Ended
            <4> QED
                BY <1>1, <3>3, <4>3, <4>4
        <3> QED
            BY <3>5, <3>6, <3>7
    <2>2. CASE \E why \in {"model_unavailable", "invalid_tool_arguments"} :
                  Escalate("refuse", why) /\ UNCHANGED reply
        BY <1>1, <1>4, <2>2 DEF Agent, OutcomeFitsNode, CallsFit, StepsBounded, Left, LeftFrom, Ended, GoTo,
            Escalate, Outcomes, Ended
    <2> QED
        BY <1>4, <2>1, <2>2 DEF Agent
<1>5. CASE ToolLimit
    BY <1>1, <1>5 DEF ToolLimit, OutcomeFitsNode, CallsFit, StepsBounded, Left, LeftFrom, Ended, GoTo, Escalate,
        Outcomes, Ended
<1>6. CASE RunTools
    <2>1. /\ node = "tools" /\ node' \in {"decline", "agent"} /\ steps' = steps + 1
          /\ used' = used + Len(reply.calls)
          /\ UNCHANGED <<outcome, objection>>
        BY <1>6 DEF RunTools, GoTo
    <2>2. reply.calls \in ToolCalls /\ used + Len(reply.calls) <= MaxToolCalls /\ outcome = "none"
        BY <2>1 DEF CallsFit, OutcomeFitsNode
    <2>3. Len(reply.calls) \in Nat /\ Len(reply.calls) >= 1
        BY <1>2, <2>2
    <2> DEFINE n == Len(reply.calls)
    <2>4. n \in Nat /\ n >= 1 /\ used' = used + n /\ used + n <= MaxToolCalls
        BY <2>1, <2>2, <2>3
    <2> HIDE DEF n
    <2>5. Left = IF objection THEN 2 * (MaxToolCalls - used) + 3 ELSE 2 * (MaxToolCalls - used) + 5
        <3>1. MaxToolCalls - used \in Int
            BY <1>1
        <3>2. Left = LeftFrom("tools", objection, MaxToolCalls - used)
            BY <2>1 DEF Left
        <3> QED
            BY <1>1, <3>1, <3>2, LeftFromNode
    <2>6. /\ Left' \in Int
          /\ Left' <= IF objection THEN 2 * (MaxToolCalls - used) + 2
                      ELSE 2 * (MaxToolCalls - used) + 4
        <3> DEFINE r == MaxToolCalls - used
                   r2 == MaxToolCalls - used'
        <3>1. r \in Int /\ r2 \in Int /\ r2 >= 0 /\ r2 <= r - 1
            BY <1>1, <2>4
        <3>2. Left' = LeftFrom(node', objection, r2)
            BY <2>1 DEF Left
        <3> HIDE DEF r, r2
        <3>3. /\ Left' \in Int
              /\ Left' <= IF objection THEN 2 * r + 2 ELSE 2 * r + 4
            <4>1. /\ LeftFrom("decline", objection, r2) = IF objection THEN 4 ELSE 2 * r2 + 6
                  /\ LeftFrom("agent", objection, r2) =
                        IF objection THEN 2 * r2 + 4 ELSE 2 * r2 + 6
                BY <1>1, <3>1, LeftFromNode
            <4>2. CASE node' = "decline"
                <5>1. Left' = IF objection THEN 4 ELSE 2 * r2 + 6
                    BY <3>2, <4>1, <4>2
                <5> QED
                    BY <1>1, <3>1, <5>1
            <4>3. CASE node' = "agent"
                <5>1. Left' = IF objection THEN 2 * r2 + 4 ELSE 2 * r2 + 6
                    BY <3>2, <4>1, <4>3
                <5> QED
                    BY <1>1, <3>1, <5>1
            <4> QED
                BY <2>1, <4>2, <4>3
        <3> QED
            BY <3>3 DEF r
    <2>8. StepsBounded'
        <3>1. Left \in Int /\ Left' <= Left - 1
            BY <1>1, <2>5, <2>6
        <3> QED
            BY <1>1, <2>1, <2>6, <3>1, OneStepLess
    <2>9. OutcomeFitsNode' /\ CallsFit' /\ used' <= MaxToolCalls
        BY <1>1, <2>1, <2>2, <2>4 DEF OutcomeFitsNode, CallsFit
    <2> QED
        BY <2>8, <2>9
<1>7. CASE Decline
    BY <1>1, <1>7 DEF Decline, OutcomeFitsNode, CallsFit, StepsBounded, Left, LeftFrom, Ended, GoTo, Outcomes, Ended
<1>8. CASE Verify
    <2>1. /\ node = "verify" /\ UNCHANGED used /\ steps' = steps + 1
          /\ node' = RouteAfterVerify(outcome')
        BY <1>8 DEF Verify, GoTo
    <2>2. outcome \in {"none", "refuse_with_citation"}
        BY <2>1 DEF OutcomeFitsNode
    <2>3. \/ /\ outcome' = PassedOutcome /\ UNCHANGED objection
          \/ /\ ~objection /\ objection' = TRUE /\ outcome' = "none"
          \/ /\ objection /\ outcome' = "escalate" /\ UNCHANGED objection
        BY <1>8 DEF Verify
    <2>4. \/ /\ outcome' \in {"resolve", "propose_action", "refuse_with_citation"}
             /\ UNCHANGED objection /\ node' = "finalize"
          \/ /\ ~objection /\ objection' = TRUE /\ outcome' = "none" /\ node' = "agent"
          \/ /\ objection /\ outcome' = "escalate" /\ UNCHANGED objection /\ node' = "refuse"
        BY <2>1, <2>2, <2>3 DEF PassedOutcome, RouteAfterVerify
    <2> QED
        <3> DEFINE r == MaxToolCalls - used
        <3>1. r \in Nat /\ r \in Int
            BY <1>1
        <3>2. Left = LeftFrom("verify", objection, r) /\ Left' = LeftFrom(node', objection', r)
            BY <2>1 DEF Left
        <3> HIDE DEF r
        <3>3. /\ LeftFrom("verify", objection, r) = IF objection THEN 3 ELSE 2 * r + 5
              /\ LeftFrom("agent", TRUE, r) = 2 * r + 4
              /\ \A o \in BOOLEAN : LeftFrom("finalize", o, r) = 1 /\ LeftFrom("refuse", o, r) = 2
            <4>1. LeftFrom("verify", objection, r) = IF objection THEN 3 ELSE 2 * r + 5
                BY <1>1, <3>1, LeftFromNode
            <4>2. LeftFrom("agent", TRUE, r) = 2 * r + 4
                BY <3>1 DEF LeftFrom, Ended
            <4>3. \A o \in BOOLEAN : LeftFrom("finalize", o, r) = 1 /\ LeftFrom("refuse", o, r) = 2
                BY <3>1 DEF LeftFrom, Ended
            <4> QED
                BY <4>1, <4>2, <4>3
        <3>4. Left = IF objection THEN 3 ELSE 2 * r + 5
            BY <3>2, <3>3
        <3>5. Left \in Int /\ Left' \in Int /\ Left' <= Left - 1
            <4>1. CASE objection' \in BOOLEAN /\ node' \in {"finalize", "refuse"}
                <5>1. Left' \in {1, 2}
                    BY <3>2, <3>3, <4>1
                <5>2. Left \in Int /\ Left >= 3
                    BY <1>1, <3>1, <3>4
                <5> QED
                    BY <5>1, <5>2
            <4>2. CASE ~objection /\ objection' = TRUE /\ node' = "agent"
                <5>1. Left' = 2 * r + 4
                    BY <3>2, <3>3, <4>2
                <5>2. Left = 2 * r + 5
                    BY <3>4, <4>2
                <5> QED
                    BY <3>1, <5>1, <5>2
            <4> QED
                BY <1>1, <2>4, <4>1, <4>2
        <3>6. StepsBounded'
            BY <1>1, <2>1, <3>5, OneStepLess
        <3> QED
            BY <1>1, <2>1, <2>4, <3>6 DEF OutcomeFitsNode, CallsFit, Outcomes
<1>9. CASE Refuse
    BY <1>1, <1>9 DEF Refuse, OutcomeFitsNode, CallsFit, StepsBounded, Left, LeftFrom, Ended, GoTo, Outcomes, Ended
<1>10. CASE Finalize
    BY <1>1, <1>10 DEF Finalize, OutcomeFitsNode, CallsFit, StepsBounded, Left, LeftFrom, Ended, GoTo, Outcomes,
        Ended, stateVars
<1>11. CASE Fail
    <2>1. Left >= 1 /\ Left \in Int
        <3> DEFINE r == MaxToolCalls - used
        <3>1. r \in Nat /\ node \in Nodes
            BY <1>1, <1>11 DEF Fail
        <3>2. Left = LeftFrom(node, objection, r)
            BY DEF Left
        <3> HIDE DEF r
        <3>3. r \in Int /\ objection \in BOOLEAN
            BY <1>1, <3>1
        <3>4. \A n \in Nodes : LeftFrom(n, objection, r) \in Int /\ LeftFrom(n, objection, r) >= 1
            <4>1. /\ LeftFrom("finalize", objection, r) = 1
                  /\ LeftFrom("refuse", objection, r) = 2
                  /\ LeftFrom("tool_limit_reached", objection, r) = 3
                  /\ LeftFrom("verify", objection, r) = IF objection THEN 3 ELSE 2 * r + 5
                  /\ LeftFrom("decline", objection, r) = IF objection THEN 4 ELSE 2 * r + 6
                  /\ LeftFrom("tools", objection, r) =
                        IF objection THEN 2 * r + 3 ELSE 2 * r + 5
                  /\ LeftFrom("agent", objection, r) =
                        IF objection THEN 2 * r + 4 ELSE 2 * r + 6
                  /\ LeftFrom("classify", objection, r) = 2 * r + 7
                BY <3>3, LeftFromNode
            <4>2. r \in Nat
                BY <3>1
            <4> QED
                BY <3>3, <4>1, <4>2 DEF Nodes
        <3> QED
            BY <3>1, <3>2, <3>4
    <2>2. /\ node' = "failed" /\ steps' = steps + 1 /\ UNCHANGED <<outcome, used>>
        BY <1>11 DEF Fail, GoTo, stateVars
    <2>3. Left' = 0
        BY <1>1, <2>2 DEF Left, LeftFrom, Ended
    <2> QED
        BY <1>1, <2>1, <2>2, <2>3 DEF OutcomeFitsNode, CallsFit, StepsBounded
<1>12. CASE UNCHANGED vars
    BY <1>12 DEF OutcomeFitsNode, CallsFit, StepsBounded, Left, LeftFrom, Ended, vars, stateVars
<1> QED
    BY <1>3, <1>4, <1>5, <1>6, <1>7, <1>8, <1>9, <1>10, <1>11, <1>12 DEF Next, RunNode

-----------------------------------------------------------------------------
(* The evidence.                                                           *)

(* One more item changes the verdicts that passed only if it is one.       *)
LEMMA OneMorePassed ==
    ASSUME NEW ev \in Seq(Items), NEW x \in Items, x.type # "tool_result"
    PROVE  PassedIn(ev \o <<x>>) =
              IF x.type = "verifier_verdict" /\ x.passed THEN PassedIn(ev) \cup {Len(ev) + 1}
              ELSE PassedIn(ev)
<1> DEFINE all == ev \o <<x>>
           places == ItemsOfType(ev, "verifier_verdict")
<1>1. all[Len(ev) + 1] = x /\ \A i \in DOMAIN ev : all[i] = ev[i]
    BY OneMore
<1>2. ItemsOfType(all, "verifier_verdict") =
         IF x.type = "verifier_verdict" THEN places \cup {Len(ev) + 1} ELSE places
    BY OneMorePlace
<1>3. places \subseteq DOMAIN ev
    BY DEF ItemsOfType
<1> HIDE DEF all, places
<1>4. \A i \in places : all[i].passed = ev[i].passed
    BY <1>1, <1>3
<1>5. all[Len(ev) + 1].passed = x.passed
    BY <1>1
<1>6. PassedIn(all) = {i \in ItemsOfType(all, "verifier_verdict") : all[i].passed}
    BY DEF PassedIn
<1>7. PassedIn(ev) = {i \in places : ev[i].passed}
    BY DEF PassedIn, places
<1>8. PassedIn(all) =
         IF x.type = "verifier_verdict" /\ x.passed THEN PassedIn(ev) \cup {Len(ev) + 1}
         ELSE PassedIn(ev)
    BY <1>2, <1>4, <1>5, <1>6, <1>7
<1> QED
    BY <1>8 DEF all

(* An escalation is the only thing that an item with its reason adds.      *)
LEMMA OneEscalation ==
    ASSUME NEW ev \in Seq(Items), NEW why \in Reasons
    PROVE  LET all == ev \o <<Escalation(why)>> IN
           /\ all \in Seq(Items)
           /\ ItemsOfType(all, "tool_result") = ItemsOfType(ev, "tool_result")
           /\ FoundIn(all) = FoundIn(ev)
           /\ NamedIn(all) = NamedIn(ev)
           /\ PassedIn(all) = PassedIn(ev)
           /\ ItemsOfType(all, "escalation") = ItemsOfType(ev, "escalation") \cup {Len(ev) + 1}
<1> DEFINE x == Escalation(why)
<1>1. x \in Items /\ x.type = "escalation"
    BY Kinds
<1> HIDE DEF x
<1>2. /\ ev \o <<x>> \in Seq(Items)
      /\ ItemsOfType(ev \o <<x>>, "tool_result") = ItemsOfType(ev, "tool_result")
      /\ FoundIn(ev \o <<x>>) = FoundIn(ev)
      /\ NamedIn(ev \o <<x>>) = NamedIn(ev)
    BY <1>1, OneMore
<1>3. PassedIn(ev \o <<x>>) = PassedIn(ev)
    BY <1>1, OneMorePassed
<1>4. ItemsOfType(ev \o <<x>>, "escalation") = ItemsOfType(ev, "escalation") \cup {Len(ev) + 1}
    BY <1>1, OneMorePlace
<1> QED
    BY <1>2, <1>3, <1>4 DEF x

(* The verdict on a reply is the only thing that it adds.                  *)
LEMMA OneVerdict ==
    ASSUME TypeOK
    PROVE  LET all == evidence \o <<Verdict>> IN
           /\ all \in Seq(Items)
           /\ all # <<>> /\ Len(all) = Len(evidence) + 1 /\ all[Len(all)] = Verdict
           /\ ItemsOfType(all, "tool_result") = ItemsOfType(evidence, "tool_result")
           /\ FoundIn(all) = FoundIn(evidence)
           /\ NamedIn(all) = NamedIn(evidence)
           /\ ItemsOfType(all, "escalation") = ItemsOfType(evidence, "escalation")
           /\ ~Verdict.passed => PassedIn(all) = PassedIn(evidence)
<1> DEFINE x == Verdict
           ev == evidence
<1>1. x \in Items /\ x.type = "verifier_verdict"
    BY VerdictKind
<1>2. ev \in Seq(Items) /\ Len(ev) \in Nat
    BY LenProperties DEF TypeOK
<1> HIDE DEF x, ev
<1>3. /\ ev \o <<x>> \in Seq(Items)
      /\ Len(ev \o <<x>>) = Len(ev) + 1
      /\ (ev \o <<x>>)[Len(ev) + 1] = x
      /\ ItemsOfType(ev \o <<x>>, "tool_result") = ItemsOfType(ev, "tool_result")
      /\ FoundIn(ev \o <<x>>) = FoundIn(ev)
      /\ NamedIn(ev \o <<x>>) = NamedIn(ev)
    BY <1>1, <1>2, OneMore
<1>4. ev \o <<x>> # <<>>
    BY <1>2, <1>3, EmptySeq
<1>5. ItemsOfType(ev \o <<x>>, "escalation") = ItemsOfType(ev, "escalation")
    BY <1>1, <1>2, OneMorePlace
<1>6. ~x.passed => PassedIn(ev \o <<x>>) = PassedIn(ev)
    BY <1>1, <1>2, OneMorePassed
<1> QED
    BY <1>3, <1>4, <1>5, <1>6 DEF x, ev

(* So does a retry.                                                        *)
LEMMA OneRetry ==
    ASSUME NEW ev \in Seq(Items)
    PROVE  LET all == ev \o <<Retry>> IN
           /\ all \in Seq(Items)
           /\ ItemsOfType(all, "tool_result") = ItemsOfType(ev, "tool_result")
           /\ FoundIn(all) = FoundIn(ev)
           /\ NamedIn(all) = NamedIn(ev)
           /\ PassedIn(all) = PassedIn(ev)
           /\ ItemsOfType(all, "escalation") = ItemsOfType(ev, "escalation")
<1>1. Retry \in Items /\ Retry.type = "retry"
    BY Kinds
<1>2. /\ ev \o <<Retry>> \in Seq(Items)
      /\ ItemsOfType(ev \o <<Retry>>, "tool_result") = ItemsOfType(ev, "tool_result")
      /\ FoundIn(ev \o <<Retry>>) = FoundIn(ev)
      /\ NamedIn(ev \o <<Retry>>) = NamedIn(ev)
    BY <1>1, OneMore
<1>3. PassedIn(ev \o <<Retry>>) = PassedIn(ev)
    BY <1>1, OneMorePassed
<1>4. ItemsOfType(ev \o <<Retry>>, "escalation") = ItemsOfType(ev, "escalation")
    BY <1>1, OneMorePlace
<1> QED
    BY <1>2, <1>3, <1>4

(* Tool results add what was found and named, and nothing else.            *)
LEMMA MoreResults ==
    ASSUME NEW ev \in Seq(Items), NEW calls \in Seq(Tools), NEW items \in ItemsOf(calls)
    PROVE  LET all == ev \o items IN
           /\ FoundIn(all) = FoundIn(ev) \cup Found(items)
           /\ NamedIn(all) = NamedIn(ev) \cup Named(items)
           /\ PassedIn(all) = PassedIn(ev)
           /\ ItemsOfType(all, "escalation") = ItemsOfType(ev, "escalation")
<1>1. items \in Seq(Items) /\ \A i \in DOMAIN items : items[i].type = "tool_result"
    BY ItemsType, Kinds
<1>2. ItemsOfType(items, "escalation") = {} /\ ItemsOfType(items, "verifier_verdict") = {}
    BY <1>1 DEF ItemsOfType
<1> DEFINE all == ev \o items
<1>3. /\ FoundIn(all) = FoundIn(ev) \cup Found(items)
      /\ NamedIn(all) = NamedIn(ev) \cup Named(items)
    BY <1>1, ItemsSay, ExtendedResults
<1>4. /\ ItemsOfType(all, "escalation") =
            ItemsOfType(ev, "escalation") \cup {Len(ev) + i : i \in ItemsOfType(items, "escalation")}
      /\ ItemsOfType(all, "verifier_verdict") = ItemsOfType(ev, "verifier_verdict")
            \cup {Len(ev) + i : i \in ItemsOfType(items, "verifier_verdict")}
    BY <1>1, ExtendedItems
<1>5. \A i \in DOMAIN ev : all[i] = ev[i]
    BY <1>1, Extended
<1> HIDE DEF all
<1>6. /\ ItemsOfType(all, "escalation") = ItemsOfType(ev, "escalation")
      /\ ItemsOfType(all, "verifier_verdict") = ItemsOfType(ev, "verifier_verdict")
    BY <1>2, <1>4
<1>7. \A i \in ItemsOfType(ev, "verifier_verdict") : all[i] = ev[i]
    BY <1>5 DEF ItemsOfType
<1>8. PassedIn(all) = PassedIn(ev)
    BY <1>6, <1>7 DEF PassedIn
<1> QED
    BY <1>3, <1>6, <1>8 DEF all

(* What the evidence, the state and the record have to do with each other. *)
EscalatedOnce == \A i, j \in ItemsOfType(evidence, "escalation") : i = j

EvidenceInvariant ==
    StateMatchesEvidence /\ EscalatedOnce /\ VerdictIsLast /\ RecordTellsTheEnd

(* An escalation keeps it, from whichever node.                            *)
LEMMA EscalateKeeps ==
    ASSUME TypeOK, EvidenceInvariant, NEW why \in Reasons, Escalate("refuse", why),
           outcome = "none", node \in Nodes \ {"finalize"},
           UNCHANGED <<retrieved, proposed, rows, record>>
    PROVE  EvidenceInvariant'
<1>1. evidence \in Seq(Items)
    BY DEF TypeOK
<1>2. evidence' = evidence \o <<Escalation(why)>> /\ outcome' = "escalate" /\ node' = "refuse"
    BY DEF Escalate, GoTo
<1>3. /\ FoundIn(evidence') = FoundIn(evidence)
      /\ NamedIn(evidence') = NamedIn(evidence)
      /\ PassedIn(evidence') = PassedIn(evidence)
      /\ ItemsOfType(evidence', "escalation") =
            ItemsOfType(evidence, "escalation") \cup {Len(evidence) + 1}
    BY <1>1, <1>2, OneEscalation
<1>4. ItemsOfType(evidence, "escalation") = {}
    BY DEF EvidenceInvariant, StateMatchesEvidence
<1>5. node # "failed" /\ node # "end"
    BY DEF Nodes
<1>6. StateMatchesEvidence'
    BY <1>2, <1>3, <1>5 DEF EvidenceInvariant, StateMatchesEvidence
<1>7. EscalatedOnce'
    BY <1>3, <1>4 DEF EscalatedOnce
<1>8. VerdictIsLast'
    BY <1>2, <1>3 DEF EvidenceInvariant, VerdictIsLast
<1>9. RecordTellsTheEnd'
    BY <1>2, <1>5 DEF EvidenceInvariant, RecordTellsTheEnd
<1> QED
    BY <1>6, <1>7, <1>8, <1>9 DEF EvidenceInvariant

(* So does a step to a node that works on, if it adds nothing.             *)
LEMMA WorkKeeps ==
    ASSUME EvidenceInvariant, node \in Nodes \ {"finalize"}, node' \in Nodes \ {"finalize"},
           UNCHANGED <<retrieved, proposed, rows, record, evidence>>,
           outcome' = "escalate" <=> outcome = "escalate"
    PROVE  EvidenceInvariant'
<1>1. node # "failed" /\ node # "end" /\ node' # "failed" /\ node' # "end" /\ node' # "finalize"
    BY DEF Nodes
<1>2. StateMatchesEvidence' /\ EscalatedOnce'
    BY <1>1 DEF EvidenceInvariant, StateMatchesEvidence, EscalatedOnce
<1>3. VerdictIsLast'
    BY <1>1 DEF EvidenceInvariant, VerdictIsLast
<1>4. RecordTellsTheEnd'
    BY <1>1 DEF EvidenceInvariant, RecordTellsTheEnd
<1> QED
    BY <1>2, <1>3, <1>4 DEF EvidenceInvariant

(* The tools node adds to the lists what it adds to the evidence.          *)
LEMMA ToolsKeep ==
    ASSUME TypeOK, OutcomeFitsNode, EvidenceInvariant, RunTools
    PROVE  EvidenceInvariant'
<1>1. PICK items \in ItemsOf(reply.calls) :
         /\ evidence' = evidence \o items
         /\ retrieved' = retrieved \cup Found(items)
         /\ proposed' = proposed \cup Named(items)
         /\ rows' = rows \cup (Named(items) \ Earlier)
         /\ GoTo(IF Declined(items) THEN "decline" ELSE "agent")
    BY DEF RunTools
<1>2. node = "tools" /\ node' \in {"decline", "agent"} /\ UNCHANGED <<outcome, record, reply>>
    BY <1>1 DEF RunTools, GoTo
<1>3. evidence \in Seq(Items) /\ reply.calls \in Seq(Tools)
    <2>1. reply.calls \in ToolCalls \cup {<<>>}
        BY DEF TypeOK, Replies
    <2> QED
        BY <2>1, EmptySeq, AgentGraphAssumption DEF TypeOK
<1>4. /\ FoundIn(evidence') = FoundIn(evidence) \cup Found(items)
      /\ NamedIn(evidence') = NamedIn(evidence) \cup Named(items)
      /\ PassedIn(evidence') = PassedIn(evidence)
      /\ ItemsOfType(evidence', "escalation") = ItemsOfType(evidence, "escalation")
    BY <1>1, <1>3, MoreResults
<1>5. retrieved' = FoundIn(evidence') /\ proposed' = NamedIn(evidence')
    BY <1>1, <1>4 DEF EvidenceInvariant, StateMatchesEvidence
<1>6. rows' = proposed' \ Earlier
    BY <1>1, <1>2 DEF EvidenceInvariant, StateMatchesEvidence
<1>7. StateMatchesEvidence'
    BY <1>2, <1>4, <1>5, <1>6 DEF EvidenceInvariant, StateMatchesEvidence
<1>8. EscalatedOnce'
    BY <1>4 DEF EvidenceInvariant, EscalatedOnce
<1>9. VerdictIsLast'
    BY <1>2, <1>4 DEF EvidenceInvariant, VerdictIsLast, Nodes
<1>10. RecordTellsTheEnd'
    BY <1>2 DEF EvidenceInvariant, RecordTellsTheEnd
<1> QED
    BY <1>7, <1>8, <1>9, <1>10 DEF EvidenceInvariant

(* The verify node: a draft that passes, the first and the second that     *)
(* fail.                                                                   *)
LEMMA VerifyKeeps ==
    ASSUME TypeOK, OutcomeFitsNode, EvidenceInvariant, Verify
    PROVE  EvidenceInvariant'
<1>1. /\ node = "verify" /\ node' = RouteAfterVerify(outcome')
      /\ UNCHANGED <<used, retrieved, proposed, reply, rows, record>>
    BY DEF Verify, GoTo
<1>2. outcome \in {"none", "refuse_with_citation"}
    BY <1>1 DEF OutcomeFitsNode
<1>3. evidence \in Seq(Items)
    BY DEF TypeOK
<1>4. /\ retrieved = FoundIn(evidence) /\ proposed = NamedIn(evidence)
      /\ rows = proposed \ Earlier
      /\ ItemsOfType(evidence, "escalation") = {}
      /\ PassedIn(evidence) = {}
      /\ record = NoRecord
    BY <1>1, <1>2 DEF EvidenceInvariant, StateMatchesEvidence, VerdictIsLast, RecordTellsTheEnd,
        Nodes
<1> DEFINE judged == evidence \o <<Verdict>>
<1>5. /\ judged \in Seq(Items)
      /\ judged # <<>> /\ judged[Len(judged)] = Verdict
      /\ FoundIn(judged) = FoundIn(evidence)
      /\ NamedIn(judged) = NamedIn(evidence)
      /\ ItemsOfType(judged, "escalation") = {}
      /\ ~Verdict.passed => PassedIn(judged) = {}
    BY <1>3, <1>4, OneVerdict
<1>6. /\ Verdict \in Items /\ Verdict.type = "verifier_verdict"
      /\ Retry \in Items /\ Retry.type # "tool_result"
      /\ "citation_check_failed" \in Reasons
    BY VerdictKind, Kinds DEF Reasons
<1>7. CASE Verdict.passed /\ outcome' = PassedOutcome /\ evidence' = judged
    <2>1. /\ outcome' \in {"resolve", "propose_action", "refuse_with_citation"}
          /\ node' = "finalize"
        BY <1>1, <1>2, <1>7 DEF PassedOutcome, RouteAfterVerify
    <2>2. StateMatchesEvidence' /\ EscalatedOnce'
        BY <1>1, <1>4, <1>5, <1>7, <2>1 DEF StateMatchesEvidence, EscalatedOnce
    <2>3. LET cited == reply.cites \cap Citable IN
          /\ Verdict = [type |-> "verifier_verdict", passed |-> TRUE, citations |-> cited]
          /\ cited \subseteq retrieved
          /\ outcome = "refuse_with_citation" => cited # {}
        BY <1>7 DEF Verdict
    <2>4. /\ outcome' = "refuse_with_citation" => outcome = "refuse_with_citation"
          /\ outcome' = "resolve" => proposed = {}
          /\ outcome' = "propose_action" => proposed # {}
        BY <1>2, <1>7 DEF PassedOutcome
    <2>5. VerdictIsLast'
        BY <1>1, <1>5, <1>7, <2>1, <2>3, <2>4 DEF VerdictIsLast
    <2>6. RecordTellsTheEnd'
        BY <1>1, <1>4, <2>1 DEF RecordTellsTheEnd
    <2> QED
        BY <2>2, <2>5, <2>6 DEF EvidenceInvariant
<1>8. CASE /\ ~Verdict.passed /\ outcome' = "none" /\ evidence' = evidence \o <<Verdict, Retry>>
    <2>1. evidence' = judged \o <<Retry>>
        BY <1>3, <1>6, <1>8, TwoMore
    <2>2. /\ FoundIn(evidence') = FoundIn(evidence)
          /\ NamedIn(evidence') = NamedIn(evidence)
          /\ PassedIn(evidence') = {}
          /\ ItemsOfType(evidence', "escalation") = {}
        BY <1>5, <1>8, <2>1, OneRetry
    <2>3. node' = "agent"
        BY <1>1, <1>8 DEF RouteAfterVerify
    <2> QED
        BY <1>1, <1>4, <1>8, <2>2, <2>3 DEF EvidenceInvariant, StateMatchesEvidence, EscalatedOnce,
            VerdictIsLast, RecordTellsTheEnd
<1>9. CASE /\ ~Verdict.passed /\ outcome' = "escalate"
           /\ evidence' = evidence \o <<Verdict, Escalation("citation_check_failed")>>
    <2>1. evidence' = judged \o <<Escalation("citation_check_failed")>>
        BY <1>3, <1>6, <1>9, Kinds, TwoMore
    <2>2. /\ FoundIn(evidence') = FoundIn(evidence)
          /\ NamedIn(evidence') = NamedIn(evidence)
          /\ PassedIn(evidence') = {}
          /\ ItemsOfType(evidence', "escalation") = {Len(judged) + 1}
        BY <1>5, <1>6, <1>9, <2>1, OneEscalation
    <2>3. node' = "refuse"
        BY <1>1, <1>9 DEF RouteAfterVerify
    <2> QED
        BY <1>1, <1>4, <1>9, <2>2, <2>3 DEF EvidenceInvariant, StateMatchesEvidence, EscalatedOnce,
            VerdictIsLast, RecordTellsTheEnd
<1> QED
    BY <1>7, <1>8, <1>9 DEF Verify

(* Every step keeps it.                                                    *)
LEMMA EvidencePreserved ==
    ASSUME TypeOK, OutcomeFitsNode, EvidenceInvariant, [Next]_vars
    PROVE  EvidenceInvariant'
<1>1. CASE Classify
    <2>1. CASE GoTo("agent") /\ UNCHANGED <<outcome, evidence>>
        BY <1>1, <2>1, WorkKeeps DEF Classify, GoTo, Nodes
    <2>2. CASE \E why \in {"out_of_scope", "classification_failed"} : Escalate("refuse", why)
        BY <1>1, <2>2, EscalateKeeps DEF Classify, OutcomeFitsNode, Reasons, Nodes
    <2> QED
        BY <1>1, <2>1, <2>2 DEF Classify
<1>2. CASE Agent
    <2>1. CASE \E r \in Replies : /\ reply' = r
                                  /\ GoTo(RouteAfterAgent(r.calls))
                                  /\ UNCHANGED <<outcome, evidence>>
        BY <1>2, <2>1, WorkKeeps DEF Agent, GoTo, RouteAfterAgent, Nodes
    <2>2. CASE \E why \in {"model_unavailable", "invalid_tool_arguments"} :
                  Escalate("refuse", why)
        BY <1>2, <2>2, EscalateKeeps DEF Agent, OutcomeFitsNode, Reasons, Nodes
    <2> QED
        BY <1>2, <2>1, <2>2 DEF Agent
<1>3. CASE ToolLimit
    BY <1>3, EscalateKeeps DEF ToolLimit, OutcomeFitsNode, Reasons, Nodes
<1>4. CASE RunTools
    BY <1>4, ToolsKeep
<1>5. CASE Decline
    BY <1>5, WorkKeeps DEF Decline, GoTo, OutcomeFitsNode, Nodes
<1>6. CASE Verify
    BY <1>6, VerifyKeeps
<1>7. CASE Refuse
    <2>1. /\ node = "refuse" /\ outcome = "escalate" /\ outcome' = "escalate"
          /\ node' = "finalize" /\ reply'.cites = {}
          /\ UNCHANGED <<retrieved, proposed, evidence, rows, record>>
        BY <1>7 DEF Refuse, GoTo, OutcomeFitsNode
    <2>2. PassedIn(evidence) = {}
        BY <2>1 DEF EvidenceInvariant, VerdictIsLast, Nodes
    <2>3. StateMatchesEvidence' /\ EscalatedOnce'
        BY <2>1 DEF EvidenceInvariant, StateMatchesEvidence, EscalatedOnce
    <2>4. VerdictIsLast'
        BY <2>1, <2>2 DEF VerdictIsLast
    <2>5. RecordTellsTheEnd'
        BY <2>1 DEF EvidenceInvariant, RecordTellsTheEnd
    <2> QED
        BY <2>3, <2>4, <2>5 DEF EvidenceInvariant
<1>8. CASE Finalize
    <2>1. /\ node = "finalize" /\ node' = "end"
          /\ record' = [outcome |-> outcome, citations |-> CitationsOf(evidence),
                        evidence |-> evidence]
          /\ UNCHANGED <<outcome, retrieved, proposed, reply, evidence, rows>>
        BY <1>8 DEF Finalize, GoTo, stateVars
    <2>2. StateMatchesEvidence' /\ EscalatedOnce'
        BY <2>1 DEF EvidenceInvariant, StateMatchesEvidence, EscalatedOnce
    <2>3. VerdictIsLast'
        BY <2>1 DEF EvidenceInvariant, VerdictIsLast, Nodes
    <2>4. RecordTellsTheEnd'
        BY <2>1 DEF RecordTellsTheEnd
    <2> QED
        BY <2>2, <2>3, <2>4 DEF EvidenceInvariant
<1>9. CASE Fail
    <2>1. /\ node \in Nodes /\ node' = "failed"
          /\ UNCHANGED <<outcome, retrieved, proposed, reply, evidence, record>>
        BY <1>9 DEF Fail, GoTo, stateVars
    <2>2. node # "end"
        BY <2>1 DEF Nodes
    <2>3. StateMatchesEvidence' /\ EscalatedOnce'
        BY <2>1 DEF EvidenceInvariant, StateMatchesEvidence, EscalatedOnce
    <2>4. VerdictIsLast'
        BY <2>1 DEF VerdictIsLast, Nodes
    <2>5. RecordTellsTheEnd'
        BY <2>1, <2>2 DEF EvidenceInvariant, RecordTellsTheEnd
    <2> QED
        BY <2>3, <2>4, <2>5 DEF EvidenceInvariant
<1>10. CASE UNCHANGED vars
    BY <1>10 DEF EvidenceInvariant, StateMatchesEvidence, EscalatedOnce, VerdictIsLast,
        RecordTellsTheEnd, vars, stateVars
<1> QED
    BY <1>1, <1>2, <1>3, <1>4, <1>5, <1>6, <1>7, <1>8, <1>9, <1>10 DEF Next, RunNode

(* The items of a type can be counted.                                     *)
LEMMA PlacesFinite ==
    ASSUME NEW ev \in Seq(Items), NEW type
    PROVE  IsFiniteSet(ItemsOfType(ev, type)) /\ Cardinality(ItemsOfType(ev, type)) \in Nat
<1>1. Len(ev) \in Nat /\ DOMAIN ev = 1..Len(ev)
    BY LenProperties
<1>2. IsFiniteSet(1..Len(ev))
    BY <1>1, FS_Interval
<1>3. ItemsOfType(ev, type) \in SUBSET (1..Len(ev))
    BY <1>1 DEF ItemsOfType
<1>4. IsFiniteSet(ItemsOfType(ev, type))
    BY <1>2, <1>3, FS_Subset
<1> QED
    BY <1>4, FS_CardinalityType

(* A reply's calls leave at most one result each.                          *)
LEMMA ResultsCounted ==
    ASSUME NEW ev \in Seq(Items), NEW calls \in Seq(Tools), NEW items \in ItemsOf(calls)
    PROVE  Cardinality(ItemsOfType(ev \o items, "tool_result")) <=
              Cardinality(ItemsOfType(ev, "tool_result")) + Len(calls)
<1> DEFINE old == ItemsOfType(ev, "tool_result")
           new == (Len(ev) + 1)..(Len(ev) + Len(items))
           all == ItemsOfType(ev \o items, "tool_result")
<1>1. /\ items \in Seq(Items) /\ Len(items) \in Nat /\ Len(ev) \in Nat /\ Len(calls) \in Nat
      /\ DOMAIN items = 1..Len(items) /\ Len(items) <= Len(calls)
    BY ItemsType, LenProperties
<1>2. all = old \cup {Len(ev) + i : i \in ItemsOfType(items, "tool_result")}
    BY <1>1, ExtendedItems
<1>3. {Len(ev) + i : i \in ItemsOfType(items, "tool_result")} \subseteq new
    BY <1>1 DEF ItemsOfType
<1>4. IsFiniteSet(new) /\ Cardinality(new) = Len(items)
    <2> DEFINE a == Len(ev) + 1
               b == Len(ev) + Len(items)
    <2>1. a \in Int /\ b \in Int /\ (a > b => Len(items) = 0) /\ b - a + 1 = Len(items)
        BY <1>1
    <2> HIDE DEF a, b
    <2>2. IsFiniteSet(a..b) /\ Cardinality(a..b) = IF a > b THEN 0 ELSE b - a + 1
        BY <2>1, FS_Interval
    <2>3. IsFiniteSet(a..b) /\ Cardinality(a..b) = Len(items)
        BY <2>1, <2>2
    <2> QED
        BY <2>3 DEF a, b
<1>5. IsFiniteSet(old) /\ Cardinality(old) \in Nat
    BY PlacesFinite
<1> HIDE DEF old, new, all
<1>6. all \in SUBSET (old \cup new)
    BY <1>2, <1>3
<1>7. IsFiniteSet(old \cup new) /\ Cardinality(old \cup new) <= Cardinality(old) + Cardinality(new)
    <2>1. /\ IsFiniteSet(old \cup new)
          /\ Cardinality(old \cup new) =
                Cardinality(old) + Cardinality(new) - Cardinality(old \cap new)
        BY <1>4, <1>5, FS_Union
    <2>2. IsFiniteSet(old \cap new)
        BY <1>5, FS_Intersection
    <2>3. Cardinality(old \cap new) \in Nat
        BY <2>2, FS_CardinalityType
    <2> QED
        BY <1>1, <1>4, <1>5, <2>1, <2>3
<1>8. Cardinality(all) <= Cardinality(old \cup new) /\ IsFiniteSet(all)
    BY <1>6, <1>7, FS_Subset
<1>9. Cardinality(all) \in Nat /\ Cardinality(old \cup new) \in Nat
    BY <1>7, <1>8, FS_CardinalityType
<1>10. Cardinality(all) <= Cardinality(old) + Len(calls)
    BY <1>1, <1>4, <1>5, <1>7, <1>8, <1>9
<1> QED
    BY <1>10 DEF all, old

(* The limit of tool calls.                                                *)
LEMMA ToolLimitPreserved ==
    ASSUME TypeOK, CallsFit, ToolLimitHolds, used' <= MaxToolCalls, [Next]_vars
    PROVE  ToolLimitHolds'
<1> DEFINE Count(ev) == Cardinality(ItemsOfType(ev, "tool_result"))
<1>1. evidence \in Seq(Items) /\ Count(evidence) <= used
    BY DEF TypeOK, ToolLimitHolds
<1>2. CASE RunTools
    <2>1. PICK items \in ItemsOf(reply.calls) : evidence' = evidence \o items
        BY <1>2 DEF RunTools
    <2>2. reply.calls \in Seq(Tools) /\ used' = used + Len(reply.calls)
        <3>1. reply.calls \in ToolCalls
            BY <1>2 DEF RunTools, CallsFit
        <3> QED
            BY <1>2, <3>1, AgentGraphAssumption DEF RunTools
    <2>3. Count(evidence') <= Count(evidence) + Len(reply.calls)
        BY <1>1, <2>1, <2>2, ResultsCounted
    <2>4. evidence' \in Seq(Items)
        BY <1>1, <2>1, <2>2, ItemsType, Extended
    <2>5. Count(evidence) \in Nat /\ Count(evidence') \in Nat
        BY <1>1, <2>4, PlacesFinite
    <2>6. used \in Nat /\ Len(reply.calls) \in Nat
        BY <2>2, LenProperties DEF TypeOK
    <2> HIDE DEF Count
    <2>7. Count(evidence') <= used'
        BY <1>1, <2>2, <2>3, <2>5, <2>6
    <2> QED
        BY <2>7 DEF ToolLimitHolds, Count
<1>3. CASE ~RunTools
    <2>1. UNCHANGED used
        BY <1>3 DEF Next, RunNode, Classify, Agent, ToolLimit, Decline, Verify, Refuse, Finalize,
            Fail, vars, stateVars
    <2>2. ItemsOfType(evidence', "tool_result") = ItemsOfType(evidence, "tool_result")
        <3>1. CASE UNCHANGED evidence
            BY <3>1
        <3>2. CASE \E why \in Reasons : evidence' = evidence \o <<Escalation(why)>>
            BY <1>1, <3>2, OneEscalation
        <3>3. CASE evidence' = evidence \o <<Verdict>>
            BY <3>3, OneVerdict
        <3>4. CASE evidence' = evidence \o <<Verdict, Retry>>
            <4>1. evidence' = (evidence \o <<Verdict>>) \o <<Retry>>
                BY <1>1, <3>4, VerdictKind, Kinds, TwoMore
            <4> QED
                BY <4>1, OneVerdict, OneRetry
        <3>5. CASE evidence' = evidence \o <<Verdict, Escalation("citation_check_failed")>>
            <4>1. "citation_check_failed" \in Reasons
                BY DEF Reasons
            <4>2. evidence' = (evidence \o <<Verdict>>) \o <<Escalation("citation_check_failed")>>
                BY <1>1, <3>5, <4>1, VerdictKind, Kinds, TwoMore
            <4> QED
                BY <4>1, <4>2, OneVerdict, OneEscalation
        <3> QED
            BY <1>3, <3>1, <3>2, <3>3, <3>4, <3>5 DEF Next, RunNode, Classify, Agent, ToolLimit,
                Decline, Verify, Refuse, Finalize, Fail, Escalate, Reasons, vars, stateVars
    <2> QED
        BY <2>1, <2>2 DEF ToolLimitHolds
<1> QED
    BY <1>2, <1>3

-----------------------------------------------------------------------------
(* The invariant holds.                                                    *)

(* A reason is given exactly for an escalation: the first part is kept by  *)
(* every step, the record repeats the second.                              *)
LEMMA OneReasonFollows ==
    ASSUME EvidenceInvariant
    PROVE  EscalationHasOneReason
<1>1. ASSUME record # NoRecord
      PROVE  record.outcome = outcome /\ record.evidence = evidence
    BY <1>1 DEF EvidenceInvariant, RecordTellsTheEnd
<1> QED
    BY <1>1 DEF EvidenceInvariant, EscalatedOnce, StateMatchesEvidence, EscalationHasOneReason

LEMMA InitHolds ==
    ASSUME Init
    PROVE  GraphInvariant
<1> USE AgentGraphAssumption
<1>1. evidence = <<>> /\ evidence \in Seq(Items) /\ DOMAIN evidence = {}
    BY EmptySeq DEF Init
<1>2. \A type : ItemsOfType(evidence, type) = {}
    BY <1>1 DEF ItemsOfType
<1>3. TypeOK
    BY <1>1 DEF Init, TypeOK, Nodes, Replies
<1>4. StateMatchesEvidence /\ EscalatedOnce
    BY <1>2 DEF Init, StateMatchesEvidence, EscalatedOnce, FoundIn, NamedIn
<1>5. VerdictIsLast /\ RecordTellsTheEnd /\ OutcomeFitsNode /\ CallsFit
    BY <1>2 DEF Init, VerdictIsLast, RecordTellsTheEnd, OutcomeFitsNode, CallsFit, PassedIn
<1>6. ToolLimitHolds
    <2>1. Cardinality(ItemsOfType(evidence, "tool_result")) = 0
        BY <1>2, FS_EmptySet
    <2> QED
        BY <2>1 DEF Init, ToolLimitHolds
<1>7. StepsBounded
    <2>1. Left = LeftFrom("classify", FALSE, MaxToolCalls - 0)
        BY DEF Left, Init
    <2>2. MaxToolCalls - 0 = MaxToolCalls
        OBVIOUS
    <2>3. LeftFrom("classify", FALSE, MaxToolCalls) = 2 * MaxToolCalls + 7
        BY DEF LeftFrom, Ended
    <2>4. Left = 2 * MaxToolCalls + 7
        BY <2>1, <2>2, <2>3
    <2> QED
        BY <2>4 DEF Init, StepsBounded
<1>8. EscalationHasOneReason
    BY <1>4, <1>5, OneReasonFollows DEF EvidenceInvariant
<1> QED
    BY <1>3, <1>4, <1>5, <1>6, <1>7, <1>8 DEF GraphInvariant

(* The parts, together, survive a step.                                    *)
LEMMA GraphInvariantPreserved ==
    ASSUME GraphInvariant, [Next]_vars
    PROVE  GraphInvariant'
<1>1. /\ TypeOK /\ OutcomeFitsNode /\ CallsFit /\ ToolLimitHolds /\ StepsBounded
      /\ used <= MaxToolCalls
      /\ EvidenceInvariant
    BY DEF GraphInvariant, ToolLimitHolds, EvidenceInvariant, EscalatedOnce,
        EscalationHasOneReason
<1>2. TypeOK'
    BY <1>1, TypePreserved
<1>3. OutcomeFitsNode' /\ CallsFit' /\ used' <= MaxToolCalls /\ StepsBounded'
    BY <1>1, ControlPreserved
<1>4. EvidenceInvariant'
    BY <1>1, EvidencePreserved
<1>5. ToolLimitHolds'
    BY <1>1, <1>3, ToolLimitPreserved
<1>6. EscalationHasOneReason'
    <2>1. ASSUME record' # NoRecord
          PROVE  record'.outcome = outcome' /\ record'.evidence = evidence'
        BY <1>4, <2>1 DEF EvidenceInvariant, RecordTellsTheEnd
    <2> QED
        BY <1>4, <2>1 DEF EvidenceInvariant, EscalatedOnce, StateMatchesEvidence,
            EscalationHasOneReason
<1> QED
    BY <1>2, <1>3, <1>4, <1>5, <1>6 DEF GraphInvariant, EvidenceInvariant

(* Every request keeps the invariant, and with it the limit of its tool    *)
(* calls, one reason for an escalation, and a bound on its steps that no   *)
(* reply of the model can push.                                            *)
THEOREM GraphInvariantHolds == Spec => []GraphInvariant
<1>1. Init => GraphInvariant
    BY InitHolds
<1>2. GraphInvariant /\ [Next]_vars => GraphInvariant'
    BY GraphInvariantPreserved
<1> QED
    BY <1>1, <1>2, PTL DEF Spec

(* route_after_agent never lets a request pass the limit of tool calls.    *)
THEOREM ToolLimitNeverPassed == Spec => []ToolLimitHolds
<1>1. GraphInvariant => ToolLimitHolds
    BY DEF GraphInvariant
<1> QED
    BY <1>1, GraphInvariantHolds, PTL

(* A request runs at most 2 * MaxToolCalls + 7 nodes.                      *)
THEOREM StepsBoundHolds == Spec => []StepsBounded
<1>1. GraphInvariant => StepsBounded
    BY DEF GraphInvariant
<1> QED
    BY <1>1, GraphInvariantHolds, PTL

-----------------------------------------------------------------------------
(* What the record says.                                                   *)

(* The citations of a record are those of a last verdict that passed, and  *)
(* none without one.                                                       *)
LEMMA CitationsOfEnd ==
    ASSUME NEW ev \in Seq(Items)
    PROVE  /\ PassedIn(ev) = {} => CitationsOf(ev) = {}
           /\ \A cited \in SUBSET Ids :
                 /\ ev # <<>>
                 /\ ev[Len(ev)] =
                       [type |-> "verifier_verdict", passed |-> TRUE, citations |-> cited]
                 => CitationsOf(ev) = cited
<1> DEFINE verdicts == {i \in DOMAIN ev : ev[i].type = "verifier_verdict"}
           last == {i \in verdicts : ev[i].passed /\ \A j \in verdicts : j <= i}
<1>1. CitationsOf(ev) = UNION {ev[i].citations : i \in last}
    BY DEF CitationsOf
<1>2. verdicts = ItemsOfType(ev, "verifier_verdict")
    BY DEF ItemsOfType
<1>3. Len(ev) \in Nat /\ DOMAIN ev = 1..Len(ev)
    BY LenProperties
<1>4. ASSUME PassedIn(ev) = {}
      PROVE  CitationsOf(ev) = {}
    <2>1. last = {}
        BY <1>2, <1>4 DEF PassedIn
    <2> HIDE DEF last
    <2>2. {ev[i].citations : i \in last} = {}
        BY <2>1
    <2> QED
        BY <1>1, <2>2, Zenon
<1>5. ASSUME NEW cited \in SUBSET Ids, ev # <<>>,
             ev[Len(ev)] = [type |-> "verifier_verdict", passed |-> TRUE, citations |-> cited]
      PROVE  CitationsOf(ev) = cited
    <2>1. Len(ev) \in 1..Len(ev)
        BY <1>3, <1>5, EmptySeq
    <2>2. Len(ev) \in verdicts
        BY <1>3, <1>5, <2>1
    <2>3. \A j \in verdicts : j \in Nat /\ j <= Len(ev)
        BY <1>3
    <2>4. Len(ev) \in last
        BY <1>5, <2>2, <2>3
    <2>5. \A i \in last : i = Len(ev)
        BY <1>3, <2>2, <2>3
    <2> HIDE DEF last, verdicts
    <2>6. last = {Len(ev)}
        BY <2>4, <2>5
    <2>7. {ev[i].citations : i \in last} = {cited}
        BY <1>5, <2>6
    <2>8. UNION {cited} = cited
        BY Zenon
    <2> QED
        BY <1>1, <2>7, <2>8
<1> QED
    BY <1>4, <1>5

(* At the end of a request, its outcome, answer and record agree.          *)
LEMMA EndOfRequest ==
    ASSUME GraphInvariant, record # NoRecord
    PROVE  /\ record.outcome = outcome /\ record.evidence = evidence
           /\ outcome \in Outcomes
           /\ record.citations = reply.cites \cap Citable
           /\ reply.cites \cap Citable \subseteq FoundIn(evidence)
           /\ outcome = "refuse_with_citation" => reply.cites \cap Citable # {}
           /\ outcome = "resolve" => NamedIn(evidence) = {}
           /\ outcome = "propose_action" => NamedIn(evidence) # {}
<1> DEFINE cited == reply.cites \cap Citable
<1>1. TypeOK /\ StateMatchesEvidence /\ OutcomeFitsNode /\ VerdictIsLast /\ RecordTellsTheEnd
    BY DEF GraphInvariant
<1>2. node = "end" /\ record = [outcome |-> outcome, citations |-> CitationsOf(evidence),
                                evidence |-> evidence]
    BY <1>1 DEF RecordTellsTheEnd
<1>3. evidence \in Seq(Items) /\ cited \in SUBSET Ids
    BY <1>1 DEF TypeOK, Replies
<1>4. outcome \in Outcomes
    BY <1>1, <1>2 DEF OutcomeFitsNode
<1>5. retrieved = FoundIn(evidence) /\ proposed = NamedIn(evidence)
    BY <1>1 DEF StateMatchesEvidence
<1>6. CASE outcome = "escalate"
    <2>1. PassedIn(evidence) = {} /\ cited = {}
        BY <1>1, <1>2, <1>6 DEF VerdictIsLast
    <2>2. CitationsOf(evidence) = {}
        BY <1>3, <2>1, CitationsOfEnd
    <2> QED
        BY <1>2, <1>6, <2>1, <2>2 DEF Outcomes
<1>7. CASE outcome # "escalate"
    <2>1. /\ evidence # <<>>
          /\ evidence[Len(evidence)] =
                [type |-> "verifier_verdict", passed |-> TRUE, citations |-> cited]
          /\ cited \subseteq retrieved
          /\ outcome = "refuse_with_citation" => cited # {}
          /\ outcome = "resolve" => proposed = {}
          /\ outcome = "propose_action" => proposed # {}
        BY <1>1, <1>2, <1>7 DEF VerdictIsLast
    <2>2. CitationsOf(evidence) = cited
        BY <1>3, <2>1, CitationsOfEnd
    <2> QED
        BY <1>2, <1>4, <1>5, <2>1, <2>2
<1> QED
    BY <1>6, <1>7

(* Every recorded answer cites only what its request found, and a refusal  *)
(* cites something.                                                        *)
THEOREM CitationsHold == Spec => []CitationsAreFound
<1>1. GraphInvariant => CitationsAreFound
    <2>1. ASSUME GraphInvariant, record # NoRecord
          PROVE  LET cited == reply.cites \cap Citable IN
                 /\ record.citations = cited
                 /\ cited \subseteq FoundIn(record.evidence)
                 /\ record.outcome = "refuse_with_citation" => cited # {}
        BY <2>1, EndOfRequest
    <2> QED
        BY <2>1 DEF CitationsAreFound
<1> QED
    BY <1>1, GraphInvariantHolds, PTL

(* The outcome never hides a proposal, and never claims one.               *)
THEOREM OutcomeTellsHolds == Spec => []OutcomeTellsOfProposals
<1>1. GraphInvariant => OutcomeTellsOfProposals
    <2>1. ASSUME GraphInvariant, record # NoRecord
          PROVE  /\ record.outcome = "resolve" => NamedIn(record.evidence) = {}
                 /\ record.outcome = "propose_action" => NamedIn(record.evidence) # {}
        BY <2>1, EndOfRequest
    <2> QED
        BY <2>1 DEF OutcomeTellsOfProposals
<1> QED
    BY <1>1, GraphInvariantHolds, PTL

(* After an escalation nothing but the refusal and the record follows.     *)
THEOREM EscalationEndsWorkHolds == Spec => EscalationEndsWork
<1> DEFINE Ends == outcome = "escalate" =>
                      outcome' = outcome /\ evidence' = evidence /\ rows' = rows
<1>1. ASSUME GraphInvariant, [Next]_vars
      PROVE  Ends
    <2>1. SUFFICES ASSUME outcome = "escalate"
                   PROVE  outcome' = outcome /\ evidence' = evidence /\ rows' = rows
        OBVIOUS
    <2>2. node \notin {"classify", "agent", "tools", "decline", "tool_limit_reached", "verify"}
        BY <1>1, <2>1 DEF GraphInvariant, OutcomeFitsNode
    <2> QED
        BY <1>1, <2>1, <2>2 DEF Next, RunNode, Classify, Agent, ToolLimit, RunTools, Decline,
            Verify, Refuse, Finalize, Fail, vars, stateVars
<1> QED
    BY <1>1, GraphInvariantHolds, PTL DEF Spec, EscalationEndsWork

(* A request is a RequestLife: it adds rows while it runs, and its record, *)
(* if it gets one, explains them all.                                      *)
THEOREM LifeSpecHolds == Spec => LifeSpec
<1> DEFINE phase == CASE node = "end" -> "recorded" [] node = "failed" -> "lost"
                      [] OTHER -> "running"
           explained == IF node = "end" THEN NamedIn(record.evidence) \ Earlier ELSE {}
<1>1. Init => Life!Init
    BY DEF Init, Life!Init
<1>2. ASSUME GraphInvariant, GraphInvariant', [Next]_vars
      PROVE  [Life!Next]_<<phase, rows, explained>>
    <2>1. /\ TypeOK /\ StateMatchesEvidence /\ RecordTellsTheEnd
          /\ TypeOK'
        BY <1>2 DEF GraphInvariant
    <2>2. CASE \E n \in Nodes : RunNode /\ node \in Nodes /\ node' = n
        <3>1. phase = "running" /\ phase' = "running" /\ explained = {} /\ explained' = {}
            BY <2>2 DEF Nodes
        <3>2. \E new \in SUBSET Actions : rows' = rows \cup new
            <4>1. CASE RunTools
                <5>1. PICK items \in ItemsOf(reply.calls) :
                         rows' = rows \cup (Named(items) \ Earlier)
                    BY <4>1 DEF RunTools
                <5>2. Named(items) \ Earlier \in SUBSET Actions
                    <6>1. reply.calls \in Seq(Tools)
                        BY <1>2, <4>1, AgentGraphAssumption DEF GraphInvariant, CallsFit, RunTools
                    <6> QED
                        BY <6>1, ItemsSay
                <5> QED
                    BY <5>1, <5>2
            <4>2. CASE ~RunTools
                <5>1. rows' = rows
                    BY <2>2, <4>2 DEF RunNode, Classify, Agent, ToolLimit, Decline, Verify,
                        Refuse, Finalize
                <5> WITNESS {} \in SUBSET Actions
                <5> QED
                    BY <5>1
            <4> QED
                BY <4>1, <4>2
        <3> QED
            BY <3>1, <3>2 DEF Life!Next, Life!Propose
    <2>3. CASE Finalize
        <3>1. /\ node = "finalize" /\ node' = "end" /\ rows' = rows
              /\ record'.evidence = evidence
            BY <2>3 DEF Finalize, GoTo
        <3>2. NamedIn(evidence) \ Earlier = rows
            BY <2>1, <3>1 DEF StateMatchesEvidence
        <3>3. phase = "running" /\ phase' = "recorded" /\ explained' = rows
            BY <3>1, <3>2
        <3> QED
            BY <3>1, <3>3 DEF Life!Next, Life!Record
    <2>4. CASE Fail
        <3>1. node \in Nodes /\ node' = "failed"
            BY <2>4 DEF Fail, GoTo
        <3>2. phase = "running" /\ phase' = "lost" /\ explained = {} /\ explained' = {}
            BY <3>1 DEF Nodes
        <3>3. \E new \in SUBSET Actions : rows' = rows \cup new
            <4>1. CASE node = "tools"
                <5>1. PICK items \in ItemsOf(reply.calls) :
                         rows' = rows \cup (Named(items) \ Earlier)
                    BY <2>4, <4>1 DEF Fail
                <5>2. reply.calls \in Seq(Tools)
                    BY <1>2, <4>1, AgentGraphAssumption DEF GraphInvariant, CallsFit
                <5> QED
                    BY <5>1, <5>2, ItemsSay
            <4>2. CASE node # "tools"
                <5>1. rows' = rows
                    BY <2>4, <4>2 DEF Fail
                <5> WITNESS {} \in SUBSET Actions
                <5> QED
                    BY <5>1
            <4> QED
                BY <4>1, <4>2
        <3> QED
            BY <3>2, <3>3 DEF Life!Next, Life!Lose
    <2>5. CASE UNCHANGED vars
        BY <2>5 DEF vars
    <2>6. RunNode => node \in Nodes /\ (node' \in Nodes \/ Finalize)
        BY DEF RunNode, Classify, Agent, ToolLimit, RunTools, Decline, Verify, Refuse, GoTo,
            Escalate, RouteAfterAgent, RouteAfterVerify, Finalize, Nodes
    <2> QED
        BY <1>2, <2>2, <2>3, <2>4, <2>5, <2>6 DEF Next
<1> QED
    BY <1>1, <1>2, GraphInvariantHolds, PTL DEF Spec, LifeSpec, Life!Spec

=============================================================================
