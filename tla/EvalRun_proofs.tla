---------------------------- MODULE EvalRun_proofs ----------------------------
(***************************************************************************)
(* For any number of scenarios, tool calls and connections: the record     *)
(* check blames no request for the calls of another, and the header of an  *)
(* undisturbed run is exact.                                               *)
(***************************************************************************)
EXTENDS EvalRun, SequenceTheorems, TLAPS

USE RequestThreadsAssumption, EvalRunAssumption

Counts == [Calls -> Nat]
Records == [evidence : Counts, prompts : Nat, build : Nat \ {0}]
Names == [prompts : Nat, build : Nat \ {0}]
Results == [kind : {"passed", "failed", "error"}, seeded : BOOLEAN, names : SUBSET Names]

Steps == {"idle", "begun", "in_lock", "recorded", "ended", "read", "saving", "raised"}

ServerTypeOK ==
    /\ request \in [Requests -> {"new", "tools", "answered", "error"}]
    /\ thread \in [Threads -> Steps]
    /\ evidence \in [Requests -> Counts] /\ audited \in [Requests -> Counts]
    /\ build \in Nat \ {0} /\ disk \in Nat /\ loaded \in Nat
    /\ DOMAIN records \subseteq Requests
    /\ \A q \in DOMAIN records : records[q] \in Records

RunTypeOK ==
    /\ scenario \in Nat \ {0} /\ since \in Nat
    /\ step \in {"post", "chat", "record", "audit"}
    /\ read \subseteq Records
    /\ results \in Seq(Results)
    /\ header \subseteq Names
    /\ restarted \in BOOLEAN

(* What a thread has added to the evidence and to the log.                 *)
CountsFit(t) ==
    LET shown == evidence[t[1]][t[2]]
        saved == audited[t[1]][t[2]]
    IN  /\ thread[t] \in {"idle", "begun", "in_lock", "read", "saving"} => shown = 0 /\ saved = 0
        /\ thread[t] = "recorded" => shown = 1 /\ saved = 0
        /\ thread[t] = "ended" => shown = 1 /\ saved = 1

ThreadsCount ==
    \A q \in Requests, c \in Calls :
        /\ request[q] \in {"new", "tools"} => CountsFit(<<q, c>>)
        /\ request[q] # "tools" => thread[<<q, c>>] = "idle"

RecordsAreComplete ==
    \A q \in DOMAIN records :
        /\ request[q] = "answered"
        /\ records[q].evidence = audited[q]
        /\ records[q].build <= build

LaterAreNew ==
    /\ \A q \in Requests : q > scenario => request[q] = "new"
    /\ step = "post" /\ scenario \in Requests => request[scenario] = "new"
    /\ step # "post" => scenario \in Requests /\ since <= build

AnswerIsRecorded ==
    /\ step = "chat" /\ request[scenario] = "answered" /\ since = build
          => scenario \in DOMAIN records
    /\ step = "record" => /\ request[scenario] = "answered"
                          /\ since = build => scenario \in DOMAIN records
    /\ step = "audit" => /\ request[scenario] = "answered"
                         /\ since = build => read # {}
                         /\ \A record \in read : record.evidence = audited[scenario]

(* Nothing was loaded or seeded before it is in the header.                *)
NamesAreOfTheRun ==
    /\ \A record \in read : record.build <= build
    /\ \A i \in DOMAIN results : \A names \in results[i].names : names.build <= build

PromptsAreLoaded ==
    ~restarted =>
        /\ loaded = 1
        /\ \A q \in DOMAIN records : records[q].prompts = 1
        /\ \A record \in read : record.prompts = 1
        /\ \A i \in DOMAIN results : \A names \in results[i].names : names.prompts = 1

LastIsRecorded == Recorded = {} \/ \E i \in Recorded : \A j \in Recorded : j <= i

HeaderIsLast == header # {} => step = "post" /\ scenario \notin Requests

EvalInvariant ==
    /\ ServerTypeOK /\ RunTypeOK /\ ThreadsCount /\ RecordsAreComplete
    /\ LaterAreNew /\ AnswerIsRecorded
    /\ NamesAreOfTheRun /\ PromptsAreLoaded /\ LastIsRecorded /\ HeaderIsLast
    /\ RecordCheckIsFair /\ UndisturbedHeaderIsExact

-----------------------------------------------------------------------------
(* Counting. *)

LEMMA ThreadsAre == \A q \in Requests, c \in Calls : <<q, c>> \in Threads
    BY DEF Threads

LEMMA NoCallsAreNone == NoCalls \in Counts /\ \A c \in Calls : NoCalls[c] = 0
    BY DEF NoCalls, Counts

-----------------------------------------------------------------------------
(* What the steps of a thread, and of a request, do.                       *)

Moves(t, from, to) == thread[t] \in from /\ Goto(t, to)
LogsRest == evidence' = evidence /\ audited' = audited
LEMMA ThreadSteps ==
    ASSUME ServerTypeOK, ThreadsCount, NEW q \in Requests, NEW c \in Calls,
           ThreadStep(<<q, c>>) \/ Raise(<<q, c>>)
    PROVE  /\ request[q] = "tools"
           /\ UNCHANGED <<request, records, build, disk, loaded>>
           /\ thread' \in [Threads -> Steps]
           /\ evidence' \in [Requests -> Counts] /\ audited' \in [Requests -> Counts]
           /\ \A r \in Requests \ {q} : evidence'[r] = evidence[r] /\ audited'[r] = audited[r]
           /\ CountsFit(<<q, c>>)'
           /\ \A t \in Threads \ {<<q, c>>} :
                 /\ thread'[t] = thread[t]
                 /\ CountsFit(t) => CountsFit(t)'
<1> DEFINE t == <<q, c>>
<1>1. t \in Threads /\ t[1] = q /\ t[2] = c
    BY ThreadsAre
<1>2. request[q] = "tools"
  <2>1. thread[t] # "idle" \/ request[q] = "tools"
      BY <1>1 DEF ThreadStep, Begin, LockRequester, RecordWrite, CommitWrite, Read, BeginEvent,
          RecordRead, Raise, Waiting
  <2> QED BY <2>1 DEF ThreadsCount
<1>3. CountsFit(t)
    BY <1>2 DEF ThreadsCount
<1>4. UNCHANGED <<request, records, build, disk, loaded>>
    BY DEF ThreadStep, Begin, LockRequester, RecordWrite, CommitWrite, Read, BeginEvent,
        RecordRead, Raise
<1>5. \/ Moves(t, {"idle"}, "begun") /\ LogsRest
      \/ Moves(t, {"begun"}, "in_lock") /\ LogsRest
      \/ Moves(t, {"in_lock"}, "recorded") /\ evidence' = Add(evidence, t) /\ audited' = audited
      \/ Moves(t, {"recorded"}, "ended") /\ evidence' = evidence /\ audited' = Add(audited, t)
      \/ Moves(t, {"begun"}, "read") /\ LogsRest
      \/ Moves(t, {"read"}, "saving") /\ LogsRest
      \/ Moves(t, {"saving"}, "ended") /\ evidence' = Add(evidence, t) /\ audited' = Add(audited, t)
      \/ Moves(t, Steps, "raised") /\ LogsRest
  <2>1. CASE Begin(t)
      BY <2>1 DEF Begin, Waiting, Moves, LogsRest
  <2>2. CASE LockRequester(t)
      BY <2>2 DEF LockRequester, Moves, LogsRest
  <2>3. CASE RecordWrite(t)
      BY <2>3 DEF RecordWrite, AddEvidence, Moves, LogsRest
  <2>4. CASE CommitWrite(t)
      BY <2>4 DEF CommitWrite, AddAudit, Moves, LogsRest
  <2>5. CASE Read(t)
      BY <2>5 DEF Read, Moves, LogsRest
  <2>6. CASE BeginEvent(t)
      BY <2>6 DEF BeginEvent, Moves, LogsRest
  <2>7. CASE RecordRead(t)
      BY <2>7 DEF RecordRead, AddEvidence, AddAudit, Moves, LogsRest
  <2>8. CASE Raise(t)
    <3>1. thread[t] \in Steps
        BY <1>1 DEF ServerTypeOK
    <3> QED BY <2>8, <3>1 DEF Raise, Moves, LogsRest
  <2> QED BY <2>1, <2>2, <2>3, <2>4, <2>5, <2>6, <2>7, <2>8 DEF ThreadStep
<1>6. ASSUME NEW next \in Steps, Goto(t, next)
      PROVE  /\ thread' \in [Threads -> Steps]
             /\ thread'[t] = next /\ \A u \in Threads \ {t} : thread'[u] = thread[u]
  <2> HIDE DEF t
  <2> QED BY <1>1, <1>6 DEF ServerTypeOK, Goto
<1>11. \E next \in Steps : Goto(t, next)
    BY <1>5 DEF Steps, Moves
<1>15. evidence \in [Requests -> Counts] /\ audited \in [Requests -> Counts]
    BY DEF ServerTypeOK
<1> DEFINE m == [evidence[q] EXCEPT ![c] = @ + 1]
           n == [audited[q] EXCEPT ![c] = @ + 1]
<1>16. /\ Add(evidence, t) = [evidence EXCEPT ![q] = m]
       /\ Add(audited, t) = [audited EXCEPT ![q] = n]
    BY DEF Add
<1>17. m \in Counts /\ n \in Counts
    BY <1>15 DEF Counts
<1>8. /\ \A d \in Calls \ {c} : m[d] = evidence[q][d] /\ n[d] = audited[q][d]
      /\ m[c] = evidence[q][c] + 1 /\ n[c] = audited[q][c] + 1
    BY <1>15 DEF Counts
<1> HIDE DEF m, n
<1>7. /\ evidence' = evidence \/ evidence' = [evidence EXCEPT ![q] = m]
      /\ audited' = audited \/ audited' = [audited EXCEPT ![q] = n]
    BY <1>5, <1>16, <1>17 DEF LogsRest
<1> HIDE DEF t
<1>9. \A u \in Threads \ {t} :
         evidence'[u[1]][u[2]] = evidence[u[1]][u[2]] /\ audited'[u[1]][u[2]] = audited[u[1]][u[2]]
  <2> TAKE u \in Threads \ {t}
  <2>1. PICK r \in Requests, d \in Calls : u = <<r, d>>
      BY DEF Threads
  <2>2. r # q \/ d # c
      BY <2>1 DEF t
  <2> QED BY <1>7, <1>8, <1>15, <2>1, <2>2
<1>10. CountsFit(t)'
  <2>1. \/ thread[t] = "idle" /\ thread'[t] = "begun" /\ LogsRest
        \/ thread[t] = "begun" /\ thread'[t] = "in_lock" /\ LogsRest
        \/ /\ thread[t] = "in_lock" /\ thread'[t] = "recorded"
           /\ evidence' = [evidence EXCEPT ![q] = m] /\ audited' = audited
        \/ /\ thread[t] = "recorded" /\ thread'[t] = "ended"
           /\ evidence' = evidence /\ audited' = [audited EXCEPT ![q] = n]
        \/ thread[t] = "begun" /\ thread'[t] = "read" /\ LogsRest
        \/ thread[t] = "read" /\ thread'[t] = "saving" /\ LogsRest
        \/ /\ thread[t] = "saving" /\ thread'[t] = "ended"
           /\ evidence' = [evidence EXCEPT ![q] = m] /\ audited' = [audited EXCEPT ![q] = n]
        \/ thread'[t] = "raised"
      BY <1>5, <1>6, <1>16, <1>17 DEF Steps, Moves
  <2>2. /\ thread[t] \in {"idle", "begun", "in_lock", "read", "saving"}
              => evidence[q][c] = 0 /\ audited[q][c] = 0
        /\ thread[t] = "recorded" => evidence[q][c] = 1 /\ audited[q][c] = 0
      BY <1>1, <1>3 DEF CountsFit
  <2>3. /\ thread'[t] \in {"idle", "begun", "in_lock", "read", "saving"}
              => evidence'[q][c] = 0 /\ audited'[q][c] = 0
        /\ thread'[t] = "recorded" => evidence'[q][c] = 1 /\ audited'[q][c] = 0
        /\ thread'[t] = "ended" => evidence'[q][c] = 1 /\ audited'[q][c] = 1
      BY <1>8, <1>15, <2>1, <2>2 DEF LogsRest
  <2> QED BY <1>1, <2>3 DEF CountsFit
<1>12. evidence' \in [Requests -> Counts] /\ audited' \in [Requests -> Counts]
    BY <1>7, <1>15, <1>17
<1>13. \A r \in Requests \ {q} : evidence'[r] = evidence[r] /\ audited'[r] = audited[r]
    BY <1>7, <1>15
<1>14. \A u \in Threads \ {t} : thread'[u] = thread[u] /\ (CountsFit(u) => CountsFit(u)')
    BY <1>6, <1>9, <1>11 DEF CountsFit
<1> QED BY <1>2, <1>4, <1>6, <1>10, <1>11, <1>12, <1>13, <1>14 DEF t

ServerInvariant == ServerTypeOK /\ ThreadsCount /\ RecordsAreComplete

LEMMA DropLeaves ==
    ASSUME ServerTypeOK, NEW gone \in SUBSET Requests, Drop(gone), UNCHANGED audited
    PROVE  /\ thread' \in [Threads -> Steps] /\ evidence' \in [Requests -> Counts]
           /\ \A q \in gone, c \in Calls : thread'[<<q, c>>] = "idle"
           /\ \A q \in Requests \ gone, c \in Calls :
                 /\ thread'[<<q, c>>] = thread[<<q, c>>]
                 /\ CountsFit(<<q, c>>) => CountsFit(<<q, c>>)'
<1>1. thread' \in [Threads -> Steps]
    BY DEF ServerTypeOK, Drop, Steps
<1>2. evidence' \in [Requests -> Counts]
    BY NoCallsAreNone DEF ServerTypeOK, Drop
<1>3. \A q \in gone, c \in Calls : thread'[<<q, c>>] = "idle"
    BY ThreadsAre DEF Drop
<1>4. ASSUME NEW q \in Requests \ gone, NEW c \in Calls
      PROVE  /\ thread'[<<q, c>>] = thread[<<q, c>>]
             /\ CountsFit(<<q, c>>) => CountsFit(<<q, c>>)'
  <2>1. thread'[<<q, c>>] = thread[<<q, c>>] /\ evidence'[q] = evidence[q]
      BY ThreadsAre DEF Drop
  <2> QED BY <2>1 DEF CountsFit
<1> QED BY <1>1, <1>2, <1>3, <1>4

(* The evidence of a request whose calls have ended is what was saved.     *)
LEMMA EndedIsComplete ==
    ASSUME ServerTypeOK, ThreadsCount, NEW q \in Requests, request[q] = "tools",
           AllEnded(q), ~OneRaised(q)
    PROVE  evidence[q] = audited[q]
<1>1. \A c \in Calls : thread[<<q, c>>] = "ended"
    BY DEF AllEnded, OneRaised, ThreadsOf
<1>2. \A c \in Calls : evidence[q][c] = 1 /\ audited[q][c] = 1
    BY <1>1 DEF ThreadsCount, CountsFit
<1>3. evidence[q] \in [Calls -> Nat] /\ audited[q] \in [Calls -> Nat]
    BY DEF ServerTypeOK, Counts
<1> QED BY <1>2, <1>3

LEMMA ThreadStepKeepsServer ==
    ASSUME ServerInvariant, NEW t \in Threads, ThreadStep(t) \/ Raise(t)
    PROVE  ServerInvariant' /\ \A q \in Requests :
              request[q] # "tools" => audited'[q] = audited[q]
<1>1. PICK q \in Requests, c \in Calls : t = <<q, c>>
    BY DEF Threads
<1>2. /\ request[q] = "tools"
      /\ UNCHANGED <<request, records, build, disk, loaded>>
      /\ thread' \in [Threads -> Steps]
      /\ evidence' \in [Requests -> Counts] /\ audited' \in [Requests -> Counts]
      /\ \A r \in Requests \ {q} : evidence'[r] = evidence[r] /\ audited'[r] = audited[r]
      /\ CountsFit(<<q, c>>)'
      /\ \A u \in Threads \ {<<q, c>>} :
            /\ thread'[u] = thread[u]
            /\ CountsFit(u) => CountsFit(u)'
  <2>1. ThreadStep(<<q, c>>) \/ Raise(<<q, c>>)
      BY <1>1
  <2> QED BY <2>1, ThreadSteps DEF ServerInvariant
<1>3. ServerTypeOK'
    BY <1>2 DEF ServerInvariant, ServerTypeOK
<1>4. ThreadsCount'
  <2> SUFFICES ASSUME NEW r \in Requests, NEW d \in Calls
               PROVE  /\ request'[r] \in {"new", "tools"} => CountsFit(<<r, d>>)'
                      /\ request'[r] # "tools" => thread'[<<r, d>>] = "idle"
      BY DEF ThreadsCount
  <2>1. CASE r = q /\ d = c
      BY <1>2, <2>1
  <2>2. CASE ~(r = q /\ d = c)
    <3>1. <<r, d>> \in Threads \ {<<q, c>>}
        BY <2>2, ThreadsAre
    <3> QED BY <1>2, <3>1 DEF ServerInvariant, ThreadsCount
  <2> QED BY <2>1, <2>2
<1>5. RecordsAreComplete'
    BY <1>2 DEF ServerInvariant, RecordsAreComplete, ServerTypeOK
<1> QED BY <1>2, <1>3, <1>4, <1>5 DEF ServerInvariant

LEMMA FailKeepsServer ==
    ASSUME ServerInvariant, NEW q \in Requests, FailRequest(q)
    PROVE  ServerInvariant'
<1>1. /\ request[q] = "tools" /\ request' = [request EXCEPT ![q] = "error"]
      /\ Drop({q}) /\ UNCHANGED <<audited, records, build, disk, loaded>>
    BY DEF FailRequest
<1>2. ServerTypeOK'
    BY <1>1, DropLeaves DEF ServerInvariant, ServerTypeOK
<1>3. ThreadsCount'
  <2>1. \A c \in Calls : thread'[<<q, c>>] = "idle"
      BY <1>1, DropLeaves DEF ServerInvariant
  <2>2. \A r \in Requests \ {q}, c \in Calls :
           /\ thread'[<<r, c>>] = thread[<<r, c>>]
           /\ CountsFit(<<r, c>>) => CountsFit(<<r, c>>)'
      BY <1>1, DropLeaves DEF ServerInvariant
  <2>3. request'[q] \notin {"new", "tools"} /\ \A r \in Requests \ {q} : request'[r] = request[r]
      BY <1>1 DEF ServerInvariant, ServerTypeOK
  <2> SUFFICES ASSUME NEW r \in Requests, NEW c \in Calls
               PROVE  /\ request'[r] \in {"new", "tools"} => CountsFit(<<r, c>>)'
                      /\ request'[r] # "tools" => thread'[<<r, c>>] = "idle"
      BY DEF ThreadsCount
  <2>4. CASE r = q
      BY <2>1, <2>3, <2>4
  <2>5. CASE r # q
      BY <2>2, <2>3, <2>5 DEF ServerInvariant, ThreadsCount
  <2> QED BY <2>4, <2>5
<1>4. RecordsAreComplete'
    BY <1>1 DEF ServerInvariant, RecordsAreComplete, ServerTypeOK
<1> QED BY <1>2, <1>3, <1>4 DEF ServerInvariant

LEMMA FinalizeKeepsServer ==
    ASSUME ServerInvariant, NEW q \in Requests, Finalize(q)
    PROVE  /\ ServerInvariant'
           /\ DOMAIN records' = DOMAIN records \cup {q}
           /\ records'[q].prompts = loaded
           /\ \A r \in DOMAIN records \ {q} : records'[r] = records[r]
<1>1. /\ request[q] = "tools" /\ request' = [request EXCEPT ![q] = "answered"]
      /\ Drop({q}) /\ UNCHANGED <<audited, build, disk, loaded>>
    BY DEF Finalize
<1>2. /\ DOMAIN records' = DOMAIN records \cup {q}
      /\ records'[q] = [evidence |-> evidence[q], prompts |-> loaded, build |-> build]
      /\ \A r \in DOMAIN records \ {q} : records'[r] = records[r]
    BY DEF Finalize
<1>3. records'[q] \in Records
    BY <1>2 DEF ServerInvariant, ServerTypeOK, Records
<1>4. ServerTypeOK'
    BY <1>1, <1>2, <1>3, DropLeaves DEF ServerInvariant, ServerTypeOK
<1>5. ThreadsCount'
  <2>1. \A c \in Calls : thread'[<<q, c>>] = "idle"
      BY <1>1, DropLeaves DEF ServerInvariant
  <2>2. \A r \in Requests \ {q}, c \in Calls :
           /\ thread'[<<r, c>>] = thread[<<r, c>>]
           /\ CountsFit(<<r, c>>) => CountsFit(<<r, c>>)'
      BY <1>1, DropLeaves DEF ServerInvariant
  <2>3. request'[q] \notin {"new", "tools"} /\ \A r \in Requests \ {q} : request'[r] = request[r]
      BY <1>1 DEF ServerInvariant, ServerTypeOK
  <2> SUFFICES ASSUME NEW r \in Requests, NEW c \in Calls
               PROVE  /\ request'[r] \in {"new", "tools"} => CountsFit(<<r, c>>)'
                      /\ request'[r] # "tools" => thread'[<<r, c>>] = "idle"
      BY DEF ThreadsCount
  <2>4. CASE r = q
      BY <2>1, <2>3, <2>4
  <2>5. CASE r # q
      BY <2>2, <2>3, <2>5 DEF ServerInvariant, ThreadsCount
  <2> QED BY <2>4, <2>5
<1>6. evidence[q] = audited[q]
    BY EndedIsComplete DEF ServerInvariant, Finalize
<1>7. RecordsAreComplete'
    BY <1>1, <1>2, <1>6 DEF ServerInvariant, RecordsAreComplete, ServerTypeOK
<1> QED BY <1>2, <1>4, <1>5, <1>7 DEF ServerInvariant

LEMMA RestartKeepsServer == ServerInvariant /\ Restart => ServerInvariant'
<1> SUFFICES ASSUME ServerInvariant, Restart PROVE ServerInvariant'
    OBVIOUS
<1>1. /\ request' = [q \in Requests |-> IF request[q] = "tools" THEN "error" ELSE request[q]]
      /\ Drop(Requests) /\ loaded' = disk /\ UNCHANGED <<audited, records, build, disk>>
    BY DEF Restart
<1>2. ServerTypeOK'
    BY <1>1, DropLeaves DEF ServerInvariant, ServerTypeOK
<1>3. ThreadsCount'
  <2> SUFFICES ASSUME NEW q \in Requests, NEW c \in Calls
               PROVE  /\ request'[q] \in {"new", "tools"} => CountsFit(<<q, c>>)'
                      /\ thread'[<<q, c>>] = "idle"
      BY DEF ThreadsCount
  <2>1. thread'[<<q, c>>] = "idle"
      BY <1>1, DropLeaves DEF ServerInvariant
  <2>2. ASSUME request'[q] = "new" PROVE CountsFit(<<q, c>>)'
    <3>1. request[q] = "new" /\ CountsFit(<<q, c>>) /\ thread[<<q, c>>] = "idle"
        BY <1>1, <2>2 DEF ServerInvariant, ThreadsCount
    <3>2. audited'[q][c] = 0
        BY <1>1, <3>1 DEF CountsFit
    <3>3. evidence'[q][c] = 0
        BY <1>1, NoCallsAreNone DEF Drop
    <3> QED BY <2>1, <3>2, <3>3 DEF CountsFit
  <2> QED BY <1>1, <2>1, <2>2
<1>4. RecordsAreComplete'
    BY <1>1 DEF ServerInvariant, RecordsAreComplete, ServerTypeOK
<1> QED BY <1>2, <1>3, <1>4 DEF ServerInvariant

LEMMA OutsideKeepsServer == ServerInvariant /\ (EditPrompts \/ Seed) => ServerInvariant'
<1> SUFFICES ASSUME ServerInvariant, EditPrompts \/ Seed PROVE ServerInvariant'
    OBVIOUS
<1> USE DEF ServerInvariant, ServerTypeOK, ThreadsCount, CountsFit, RecordsAreComplete
<1>1. CASE EditPrompts
    BY <1>1 DEF EditPrompts
<1>2. CASE Seed
  <2>1. records' = <<>> /\ build' = build + 1
        /\ UNCHANGED <<request, thread, locked, evidence, audited, disk, loaded>>
      BY <1>2 DEF Seed
  <2> QED BY <2>1
<1> QED BY <1>1, <1>2

(* Nothing but the runner starts a request; what ended stays as it is.     *)
LEMMA ServerMoves ==
    ASSUME ServerInvariant, Server \/ RestartStep
    PROVE  /\ ServerInvariant' /\ UNCHANGED runVars
           /\ restarted' = TRUE \/ restarted' = restarted
           /\ \A q \in Requests :
                 /\ request[q] # "tools" => request'[q] = request[q] /\ audited'[q] = audited[q]
                 /\ request[q] = "tools" /\ request'[q] = "answered" => q \in DOMAIN records'
           /\ build <= build' /\ (build' = build => DOMAIN records \subseteq DOMAIN records')
           /\ ~restarted' =>
                 /\ ~restarted /\ loaded' = loaded
                 /\ \A q \in DOMAIN records' :
                      \/ records'[q].prompts = loaded
                      \/ q \in DOMAIN records /\ records'[q].prompts = records[q].prompts
<1>1. ASSUME NEW t \in Threads, ThreadStep(t) \/ Raise(t), UNCHANGED <<runVars, restarted>>
      PROVE  /\ ServerInvariant' /\ UNCHANGED <<request, records, build, loaded>>
             /\ \A q \in Requests : request[q] # "tools" => audited'[q] = audited[q]
  <2>1. UNCHANGED <<request, records, build, loaded>>
      BY <1>1 DEF ThreadStep, Begin, LockRequester, RecordWrite, CommitWrite, Read, BeginEvent,
          RecordRead, Raise
  <2> QED BY <1>1, <2>1, ThreadStepKeepsServer
<1>2. ASSUME NEW q \in Requests, FailRequest(q)
      PROVE  /\ ServerInvariant' /\ UNCHANGED <<audited, records, build, loaded>>
             /\ request[q] = "tools" /\ request'[q] = "error"
             /\ \A r \in Requests \ {q} : request'[r] = request[r]
    BY <1>2, FailKeepsServer DEF FailRequest, ServerInvariant, ServerTypeOK
<1>3. ASSUME NEW q \in Requests, Finalize(q)
      PROVE  /\ ServerInvariant' /\ UNCHANGED <<audited, build, loaded>>
             /\ request[q] = "tools"
             /\ \A r \in Requests \ {q} : request'[r] = request[r]
             /\ DOMAIN records' = DOMAIN records \cup {q}
             /\ records'[q].prompts = loaded
             /\ \A r \in DOMAIN records \ {q} : records'[r] = records[r]
    BY <1>3, FinalizeKeepsServer DEF Finalize, ServerInvariant, ServerTypeOK
<1>4. ASSUME EditPrompts \/ Seed
      PROVE  /\ ServerInvariant' /\ UNCHANGED <<request, audited, loaded>>
             /\ \/ UNCHANGED <<records, build>>
                \/ build' = build + 1 /\ DOMAIN records' = {}
  <2>1. EditPrompts => UNCHANGED <<request, audited, loaded, records, build>>
      BY DEF EditPrompts
  <2>2. Seed => UNCHANGED <<request, audited, loaded>> /\ build' = build + 1 /\ records' = <<>>
      BY DEF Seed
  <2> QED BY <1>4, <2>1, <2>2, OutsideKeepsServer
<1>5. ASSUME Restart
      PROVE  /\ ServerInvariant' /\ UNCHANGED <<audited, records, build>>
             /\ \A q \in Requests : request'[q] = IF request[q] = "tools" THEN "error" ELSE request[q]
    BY <1>5, RestartKeepsServer DEF Restart
<1>6. build \in Nat
    BY DEF ServerInvariant, ServerTypeOK
<1>7. CASE RestartStep
    BY <1>5, <1>6, <1>7 DEF RestartStep
<1>8. CASE Server
  <2>1. UNCHANGED <<runVars, restarted>>
      BY <1>8 DEF Server
  <2>2. CASE \E t \in Threads : ThreadStep(t) \/ Raise(t)
      BY <1>1, <1>6, <2>1, <2>2
  <2>3. CASE \E q \in Requests : FailRequest(q)
      BY <1>2, <1>6, <2>1, <2>3
  <2>4. CASE \E q \in Requests : Finalize(q)
    <3>1. PICK q \in Requests : Finalize(q)
        BY <2>4
    <3>2. /\ ServerInvariant' /\ UNCHANGED <<audited, build, loaded>>
          /\ request[q] = "tools"
          /\ \A r \in Requests \ {q} : request'[r] = request[r]
          /\ DOMAIN records' = DOMAIN records \cup {q}
          /\ records'[q].prompts = loaded
          /\ \A r \in DOMAIN records \ {q} : records'[r] = records[r]
        BY <1>3, <3>1
    <3>3. \A r \in Requests :
             /\ request[r] # "tools" => request'[r] = request[r] /\ audited'[r] = audited[r]
             /\ request[r] = "tools" /\ request'[r] = "answered" => r \in DOMAIN records'
        BY <3>2
    <3>4. \A r \in DOMAIN records' :
             \/ records'[r].prompts = loaded
             \/ r \in DOMAIN records /\ records'[r].prompts = records[r].prompts
        BY <3>2
    <3> QED BY <1>6, <2>1, <3>2, <3>3, <3>4
  <2>5. CASE EditPrompts \/ Seed
    <3>1. CASE UNCHANGED <<records, build>>
        BY <1>4, <1>6, <2>1, <2>5, <3>1
    <3>2. CASE build' = build + 1 /\ DOMAIN records' = {}
      <4>1. build <= build' /\ build' # build
          BY <1>6, <3>2
      <4> QED BY <1>4, <2>1, <2>5, <3>2, <4>1
    <3> QED BY <1>4, <2>5, <3>1, <3>2
  <2> QED BY <1>8, <2>2, <2>3, <2>4, <2>5 DEF Server
<1> QED BY <1>7, <1>8

LEMMA PostKeepsServer ==
    ASSUME ServerInvariant, RunTypeOK, LaterAreNew, Post
    PROVE  /\ ServerInvariant' /\ scenario \in Requests
           /\ request' = [request EXCEPT ![scenario] = "tools"]
<1>1. /\ step = "post" /\ scenario \in Requests
      /\ request' = [request EXCEPT ![scenario] = "tools"]
      /\ UNCHANGED <<thread, locked, evidence, audited, records, build, disk, loaded>>
    BY DEF Post, RunTypeOK
<1>2. request[scenario] = "new"
    BY <1>1 DEF LaterAreNew
<1>3. ServerTypeOK'
    BY <1>1 DEF ServerInvariant, ServerTypeOK
<1>4. ThreadsCount'
  <2> SUFFICES ASSUME NEW q \in Requests, NEW c \in Calls
               PROVE  /\ request'[q] \in {"new", "tools"} => CountsFit(<<q, c>>)'
                      /\ request'[q] # "tools" => thread'[<<q, c>>] = "idle"
      BY DEF ThreadsCount
  <2>1. CountsFit(<<q, c>>) => CountsFit(<<q, c>>)'
      BY <1>1 DEF CountsFit
  <2>2. CASE q = scenario
      BY <1>1, <1>2, <2>1, <2>2 DEF ServerInvariant, ServerTypeOK, ThreadsCount
  <2>3. CASE q # scenario
      BY <1>1, <2>1, <2>3 DEF ServerInvariant, ServerTypeOK, ThreadsCount
  <2> QED BY <2>2, <2>3
<1>5. RecordsAreComplete'
    BY <1>1, <1>2 DEF ServerInvariant, ServerTypeOK, RecordsAreComplete
<1> QED BY <1>1, <1>3, <1>4, <1>5 DEF ServerInvariant

(* Steps of the runner other than Post leave the API alone.                *)
LEMMA ReadingKeepsServer == ServerInvariant /\ Reading => ServerInvariant'
    BY DEF Reading, serverVars, ServerInvariant, ServerTypeOK, ThreadsCount, CountsFit,
        RecordsAreComplete

LEMMA InvInit == Init => EvalInvariant
<1> SUFFICES ASSUME Init PROVE EvalInvariant
    OBVIOUS
<1> USE DEF Init, ServerInit
<1>1. ServerTypeOK
    BY NoCallsAreNone DEF ServerTypeOK, Steps
<1>2. ThreadsCount
    BY ThreadsAre, NoCallsAreNone DEF ThreadsCount, CountsFit
<1>3. RecordsAreComplete /\ LaterAreNew /\ AnswerIsRecorded
    BY DEF RecordsAreComplete, LaterAreNew, AnswerIsRecorded
<1>4. results \in Seq(Results) /\ DOMAIN results = {}
    OBVIOUS
<1>5. RunTypeOK
  <2>1. scenario = 1 /\ since = 1 /\ step = "post" /\ read = {} /\ header = {}
      OBVIOUS
  <2>2. restarted \in BOOLEAN
      OBVIOUS
  <2> QED BY <1>4, <2>1, <2>2 DEF RunTypeOK
<1>6. NamesAreOfTheRun /\ PromptsAreLoaded /\ HeaderIsLast
    BY <1>4 DEF NamesAreOfTheRun, PromptsAreLoaded, HeaderIsLast
<1>7. LastIsRecorded /\ RecordCheckIsFair /\ UndisturbedHeaderIsExact
    BY <1>4 DEF LastIsRecorded, Recorded, RecordCheckIsFair, UndisturbedHeaderIsExact
<1> QED BY <1>1, <1>2, <1>3, <1>5, <1>6, <1>7 DEF EvalInvariant

LEMMA ResultsHaveNames ==
    results \in Seq(Results) =>
        \A i \in DOMAIN results : /\ results[i] \in Results
                                  /\ \A names \in results[i].names : names \in Names /\ names.build \in Nat
<1> SUFFICES ASSUME results \in Seq(Results), NEW i \in DOMAIN results
             PROVE  /\ results[i] \in Results
                    /\ \A names \in results[i].names : names \in Names /\ names.build \in Nat
    OBVIOUS
<1>1. results[i] \in Results
    OBVIOUS
<1>2. results[i].names \subseteq Names
    BY <1>1 DEF Results
<1> QED BY <1>1, <1>2 DEF Names

LEMMA ServerStepKeeps == EvalInvariant /\ (Server \/ RestartStep) => EvalInvariant'
<1> SUFFICES ASSUME EvalInvariant, Server \/ RestartStep PROVE EvalInvariant'
    OBVIOUS
<1>1. /\ ServerInvariant' /\ UNCHANGED runVars
      /\ restarted' = TRUE \/ restarted' = restarted
      /\ \A q \in Requests :
            /\ request[q] # "tools" => request'[q] = request[q] /\ audited'[q] = audited[q]
            /\ request[q] = "tools" /\ request'[q] = "answered" => q \in DOMAIN records'
      /\ build <= build' /\ (build' = build => DOMAIN records \subseteq DOMAIN records')
      /\ ~restarted' =>
            /\ ~restarted /\ loaded' = loaded
            /\ \A q \in DOMAIN records' :
                 \/ records'[q].prompts = loaded
                 \/ q \in DOMAIN records /\ records'[q].prompts = records[q].prompts
    BY ServerMoves DEF EvalInvariant, ServerInvariant
<1>2. UNCHANGED <<scenario, step, since, read, results, header>>
    BY <1>1 DEF runVars
<1>3. /\ build \in Nat /\ build' \in Nat /\ since \in Nat
      /\ \A q \in Requests : request[q] \in {"new", "tools", "answered", "error"}
      /\ read \subseteq Records /\ results \in Seq(Results)
    BY <1>1 DEF EvalInvariant, ServerInvariant, ServerTypeOK, RunTypeOK
<1>4. RunTypeOK'
    BY <1>1, <1>2 DEF EvalInvariant, RunTypeOK
<1>5. LaterAreNew'
    BY <1>1, <1>2, <1>3 DEF EvalInvariant, LaterAreNew
<1>6. AnswerIsRecorded'
  <2>1. step # "post" => scenario \in Requests /\ since <= build
      BY DEF EvalInvariant, LaterAreNew
  <2>2. step # "post" /\ since = build' => since = build /\ build' = build
      BY <1>1, <1>3, <2>1
  <2>3. request[scenario] = "answered" /\ step # "post" =>
           request'[scenario] = "answered" /\ audited'[scenario] = audited[scenario]
      BY <1>1, <2>1
  <2>4. step = "chat" /\ request'[scenario] = "answered" /\ since = build'
           => scenario \in DOMAIN records'
      BY <1>1, <1>3, <2>1, <2>2 DEF EvalInvariant, AnswerIsRecorded
  <2>5. step = "record" => /\ request'[scenario] = "answered"
                           /\ since = build' => scenario \in DOMAIN records'
      BY <1>1, <2>2, <2>3 DEF EvalInvariant, AnswerIsRecorded
  <2>6. step = "audit" => /\ request'[scenario] = "answered"
                          /\ since = build' => read # {}
                          /\ \A record \in read : record.evidence = audited'[scenario]
      BY <2>2, <2>3 DEF EvalInvariant, AnswerIsRecorded
  <2> QED BY <1>2, <2>4, <2>5, <2>6 DEF AnswerIsRecorded
<1>7. NamesAreOfTheRun'
  <2>1. \A i \in DOMAIN results : \A names \in results[i].names : names.build \in Nat
      BY <1>3, ResultsHaveNames
  <2>2. \A record \in read : record.build \in Nat
      BY <1>3 DEF Records
  <2> QED BY <1>1, <1>2, <1>3, <2>1, <2>2 DEF EvalInvariant, NamesAreOfTheRun
<1>8. PromptsAreLoaded'
    BY <1>1, <1>2 DEF EvalInvariant, PromptsAreLoaded
<1>9. LastIsRecorded' /\ HeaderIsLast' /\ RecordCheckIsFair'
    BY <1>2 DEF EvalInvariant, LastIsRecorded, Recorded, HeaderIsLast, RecordCheckIsFair
<1>10. UndisturbedHeaderIsExact'
    BY <1>1, <1>2 DEF EvalInvariant, UndisturbedHeaderIsExact
<1> QED BY <1>1, <1>4, <1>5, <1>6, <1>7, <1>8, <1>9, <1>10 DEF EvalInvariant, ServerInvariant

-----------------------------------------------------------------------------
(* The steps of the runner. *)

LEMMA PostKeeps == EvalInvariant /\ Post => EvalInvariant'
<1> SUFFICES ASSUME EvalInvariant, Post PROVE EvalInvariant'
    OBVIOUS
<1>1. /\ ServerInvariant' /\ scenario \in Requests
      /\ request' = [request EXCEPT ![scenario] = "tools"]
    BY PostKeepsServer DEF EvalInvariant, ServerInvariant
<1>2. /\ step = "post" /\ step' = "chat" /\ since' = build
      /\ UNCHANGED <<audited, records, build, loaded, scenario, read, results, header, restarted>>
    BY DEF Post
<1>3. build \in Nat /\ request \in [Requests -> {"new", "tools", "answered", "error"}]
    BY DEF EvalInvariant, ServerTypeOK
<1>4. RunTypeOK'
    BY <1>2, <1>3 DEF EvalInvariant, RunTypeOK
<1>5. LaterAreNew'
  <2>1. \A q \in Requests : q > scenario => request'[q] = request[q]
      BY <1>1, <1>3
  <2> QED BY <1>1, <1>2, <1>3, <2>1 DEF EvalInvariant, LaterAreNew
<1>6. AnswerIsRecorded'
    BY <1>1, <1>2, <1>3 DEF AnswerIsRecorded
<1>7. NamesAreOfTheRun' /\ PromptsAreLoaded' /\ LastIsRecorded'
    BY <1>2 DEF EvalInvariant, NamesAreOfTheRun, PromptsAreLoaded, LastIsRecorded, Recorded
<1>8. header = {}
    BY <1>1, <1>2 DEF EvalInvariant, HeaderIsLast
<1>9. HeaderIsLast' /\ RecordCheckIsFair' /\ UndisturbedHeaderIsExact'
    BY <1>2, <1>8 DEF EvalInvariant, HeaderIsLast, RecordCheckIsFair, UndisturbedHeaderIsExact
<1> QED BY <1>1, <1>4, <1>5, <1>6, <1>7, <1>9 DEF EvalInvariant, ServerInvariant

LEMMA AnswerAndRecordKeep == EvalInvariant /\ (TakeAnswer \/ ReadRecord) => EvalInvariant'
<1> SUFFICES ASSUME EvalInvariant, TakeAnswer \/ ReadRecord PROVE EvalInvariant'
    OBVIOUS
<1>1. /\ Reading /\ step # "post"
      /\ UNCHANGED <<scenario, since, results, header>>
    BY DEF TakeAnswer, ReadRecord
<1>2. UNCHANGED <<request, audited, records, build, loaded, restarted>>
    BY <1>1 DEF Reading, serverVars
<1>3. /\ read' = read \/ (read' # {} => read' = {records[scenario]} /\ scenario \in DOMAIN records)
      /\ step' \in {"record", "audit"}
    BY DEF TakeAnswer, ReadRecord
<1>4. \A q \in DOMAIN records : records[q] \in Records
    BY DEF EvalInvariant, ServerTypeOK
<1>5. read' \subseteq Records
    BY <1>3, <1>4 DEF EvalInvariant, RunTypeOK
<1>6. RunTypeOK'
    BY <1>1, <1>2, <1>3, <1>5 DEF EvalInvariant, RunTypeOK
<1>7. LaterAreNew'
    BY <1>1, <1>2, <1>3 DEF EvalInvariant, LaterAreNew
<1>8. AnswerIsRecorded'
  <2>1. CASE TakeAnswer
      BY <1>1, <1>2, <2>1 DEF TakeAnswer, EvalInvariant, AnswerIsRecorded
  <2>2. CASE ReadRecord
      BY <1>1, <1>2, <2>2 DEF ReadRecord, EvalInvariant, AnswerIsRecorded, RecordsAreComplete
  <2> QED BY <2>1, <2>2
<1>9. \A record \in read' : /\ record.build <= build
                            /\ ~restarted => record.prompts = 1
    BY <1>3 DEF EvalInvariant, NamesAreOfTheRun, PromptsAreLoaded, RecordsAreComplete
<1>10. NamesAreOfTheRun' /\ PromptsAreLoaded'
    BY <1>1, <1>2, <1>9 DEF EvalInvariant, NamesAreOfTheRun, PromptsAreLoaded
<1>11. header = {}
    BY <1>1 DEF EvalInvariant, HeaderIsLast
<1>12. /\ LastIsRecorded' /\ HeaderIsLast'
       /\ RecordCheckIsFair' /\ UndisturbedHeaderIsExact'
    BY <1>1, <1>11 DEF EvalInvariant, LastIsRecorded, Recorded, HeaderIsLast,
        RecordCheckIsFair, UndisturbedHeaderIsExact
<1>13. ServerInvariant'
    BY <1>1, ReadingKeepsServer DEF EvalInvariant, ServerInvariant
<1> QED BY <1>6, <1>7, <1>8, <1>10, <1>12, <1>13 DEF EvalInvariant, ServerInvariant

LEMMA AddResultKeeps == EvalInvariant /\ (CheckRun \/ ErrorResult) => EvalInvariant'
<1> SUFFICES ASSUME EvalInvariant, CheckRun \/ ErrorResult PROVE EvalInvariant'
    OBVIOUS
<1> DEFINE n == Len(results) + 1
<1>1. PICK kind \in {"passed", "failed", "error"}, record \in SUBSET read :
          /\ AddResult(kind, record)
          /\ kind = "failed" => step = "audit" /\ RecordProblems
    BY DEF CheckRun, ErrorResult
<1> DEFINE r == [kind |-> kind, seeded |-> since # build,
                 names |-> {[prompts |-> x.prompts, build |-> x.build] : x \in record}]
<1>2. /\ Reading /\ step # "post" /\ results' = Append(results, r)
      /\ scenario' = scenario + 1 /\ step' = "post" /\ read' = {}
      /\ UNCHANGED <<since, header>>
    BY <1>1 DEF AddResult, CheckRun, ErrorResult
<1>3. UNCHANGED <<request, audited, records, build, loaded, restarted>>
    BY <1>2 DEF Reading, serverVars
<1>4. /\ scenario \in Nat \ {0} /\ scenario \in Requests
      /\ read \subseteq Records /\ results \in Seq(Results)
    BY <1>2 DEF EvalInvariant, RunTypeOK, LaterAreNew
<1>5. /\ r \in Results
      /\ \A names \in r.names : \E x \in read : names.prompts = x.prompts /\ names.build = x.build
  <2>1. \A x \in record : [prompts |-> x.prompts, build |-> x.build] \in Names
      BY <1>1, <1>4 DEF Records, Names
  <2>2. r.names \subseteq Names
      BY <2>1
  <2> QED BY <1>1, <2>2 DEF Results
<1> HIDE DEF r
<1>6. /\ results' \in Seq(Results) /\ DOMAIN results = 1..Len(results) /\ Len(results) \in Nat
      /\ DOMAIN results' = 1..n
      /\ results'[n] = r /\ \A i \in DOMAIN results : results'[i] = results[i] /\ i \in 1..n
      /\ \A i \in 1..n : i \in DOMAIN results \/ i = n
    BY <1>2, <1>4, <1>5
<1> HIDE DEF n
<1>7. \A i \in DOMAIN results' : results'[i] = r \/ (i \in DOMAIN results /\ results'[i] = results[i])
    BY <1>6
<1>8. RunTypeOK'
    BY <1>2, <1>3, <1>6 DEF EvalInvariant, RunTypeOK
<1>9. LaterAreNew'
  <2>1. \A q \in Requests : q >= scenario' => q > scenario
      BY <1>2, <1>4
  <2>2. scenario' \in Nat
      BY <1>2, <1>4
  <2> QED BY <1>2, <1>3, <2>1, <2>2 DEF EvalInvariant, LaterAreNew
<1>10. AnswerIsRecorded' /\ HeaderIsLast'
    BY <1>2 DEF EvalInvariant, AnswerIsRecorded, HeaderIsLast
<1>11. NamesAreOfTheRun'
  <2>1. \A names \in r.names : names.build <= build
      BY <1>5 DEF EvalInvariant, NamesAreOfTheRun
  <2> QED BY <1>2, <1>3, <1>7, <2>1 DEF EvalInvariant, NamesAreOfTheRun
<1>12. PromptsAreLoaded'
  <2>1. ~restarted => \A names \in r.names : names.prompts = 1
      BY <1>5 DEF EvalInvariant, PromptsAreLoaded
  <2> QED BY <1>2, <1>3, <1>7, <2>1 DEF EvalInvariant, PromptsAreLoaded
<1>13. LastIsRecorded'
  <2>1. CASE r.names # {}
    <3>1. n \in Recorded'
        BY <1>6, <2>1 DEF Recorded, n
    <3>2. \A j \in Recorded' : j <= n
        BY <1>6 DEF Recorded, n
    <3> QED BY <3>1, <3>2 DEF LastIsRecorded
  <2>2. CASE r.names = {}
    <3>1. Recorded' = Recorded
        BY <1>6, <1>7, <2>2 DEF Recorded
    <3> QED BY <3>1 DEF EvalInvariant, LastIsRecorded
  <2> QED BY <2>1, <2>2
<1>14. RecordCheckIsFair'
  <2>1. ~r.seeded => r.kind # "failed"
    <3>1. SUFFICES ASSUME since = build, kind = "failed" PROVE FALSE
        BY DEF r
    <3>2. step = "audit" /\ RecordProblems
        BY <1>1, <3>1
    <3> QED BY <3>1, <3>2 DEF RecordProblems, AuditedToolCalls, EvalInvariant, AnswerIsRecorded
  <2> QED BY <1>7, <2>1 DEF EvalInvariant, RecordCheckIsFair
<1>15. UndisturbedHeaderIsExact'
    BY <1>2 DEF EvalInvariant, HeaderIsLast, UndisturbedHeaderIsExact
<1>16. ServerInvariant'
    BY <1>2, ReadingKeepsServer DEF EvalInvariant, ServerInvariant
<1> QED BY <1>8, <1>9, <1>10, <1>11, <1>12, <1>13, <1>14, <1>15, <1>16
        DEF EvalInvariant, ServerInvariant

LEMMA WriteHeaderKeeps == EvalInvariant /\ WriteHeader => EvalInvariant'
<1> SUFFICES ASSUME EvalInvariant, WriteHeader PROVE EvalInvariant'
    OBVIOUS
<1>1. /\ Reading /\ step = "post" /\ scenario > Scenarios
      /\ header' = {[build |-> build, prompts |-> HeaderPrompts]}
      /\ UNCHANGED <<scenario, step, since, read, results>>
    BY DEF WriteHeader
<1>2. UNCHANGED <<request, audited, records, build, loaded, restarted>>
    BY <1>1 DEF Reading, serverVars
<1>3. /\ build \in Nat \ {0} /\ disk \in Nat /\ scenario \in Nat
      /\ results \in Seq(Results)
    BY DEF EvalInvariant, ServerTypeOK, RunTypeOK
<1>4. Recorded # {} =>
         \E i \in Recorded : \E names \in results[i].names : HeaderPrompts = names.prompts
  <2> SUFFICES ASSUME Recorded # {}
               PROVE  \E i \in Recorded : \E names \in results[i].names : HeaderPrompts = names.prompts
      OBVIOUS
  <2> DEFINE last == CHOOSE i \in Recorded : \A j \in Recorded : j <= i
             name == CHOOSE names \in results[last].names : TRUE
  <2>1. \E i \in Recorded : \A j \in Recorded : j <= i
      BY DEF EvalInvariant, LastIsRecorded
  <2>2. last \in Recorded
      BY <2>1
  <2>3. HeaderPrompts = name.prompts
      BY DEF HeaderPrompts
  <2> HIDE DEF last
  <2>4. \E names \in results[last].names : TRUE
      BY <2>2 DEF Recorded
  <2>5. name \in results[last].names
      BY <2>4
  <2> QED BY <2>2, <2>3, <2>5
<1>5. HeaderPrompts \in Nat
  <2>1. CASE Recorded = {}
      BY <1>3, <2>1 DEF HeaderPrompts
  <2>2. CASE Recorded # {}
    <3>1. PICK i \in Recorded : \E names \in results[i].names : HeaderPrompts = names.prompts
        BY <1>4, <2>2
    <3>2. PICK names \in results[i].names : HeaderPrompts = names.prompts
        BY <3>1
    <3>3. names \in Names
        BY <1>3, ResultsHaveNames DEF Recorded
    <3> QED BY <3>2, <3>3 DEF Names
  <2> QED BY <2>1, <2>2
<1>6. RunTypeOK'
    BY <1>1, <1>2, <1>3, <1>5 DEF EvalInvariant, RunTypeOK, Names
<1>7. scenario \notin Requests
    BY <1>1, <1>3
<1>8. /\ LaterAreNew' /\ AnswerIsRecorded' /\ NamesAreOfTheRun' /\ PromptsAreLoaded'
      /\ LastIsRecorded' /\ RecordCheckIsFair'
    BY <1>1, <1>2 DEF EvalInvariant, LaterAreNew, AnswerIsRecorded, NamesAreOfTheRun,
        PromptsAreLoaded, LastIsRecorded, Recorded, RecordCheckIsFair
<1>9. HeaderIsLast'
    BY <1>1, <1>7 DEF HeaderIsLast
<1>10. UndisturbedHeaderIsExact'
  <2>1. SUFFICES ASSUME NEW i \in DOMAIN results, NEW names \in results[i].names
                 PROVE  /\ build = 1 => names.build = 1
                        /\ ~restarted => names.prompts = HeaderPrompts
      BY <1>1, <1>2 DEF UndisturbedHeaderIsExact
  <2>2. names \in Names /\ names.build <= build
      BY <1>3, ResultsHaveNames DEF EvalInvariant, NamesAreOfTheRun
  <2>3. build = 1 => names.build = 1
      BY <1>3, <2>2 DEF Names
  <2>4. Recorded # {}
      BY DEF Recorded
  <2>5. ~restarted => names.prompts = 1 /\ HeaderPrompts = 1
      BY <1>4, <2>4 DEF EvalInvariant, PromptsAreLoaded, Recorded
  <2> QED BY <2>3, <2>5
<1>11. ServerInvariant'
    BY <1>1, ReadingKeepsServer DEF EvalInvariant, ServerInvariant
<1> QED BY <1>6, <1>8, <1>9, <1>10, <1>11 DEF EvalInvariant, ServerInvariant

-----------------------------------------------------------------------------
(* The results. *)

LEMMA NextKeeps == EvalInvariant /\ [Next]_vars => EvalInvariant'
<1> SUFFICES ASSUME EvalInvariant, [Next]_vars PROVE EvalInvariant'
    OBVIOUS
<1>1. CASE Server \/ RestartStep
    BY <1>1, ServerStepKeeps
<1>2. CASE Post
    BY <1>2, PostKeeps
<1>3. CASE TakeAnswer \/ ReadRecord
    BY <1>3, AnswerAndRecordKeep
<1>4. CASE CheckRun \/ ErrorResult
    BY <1>4, AddResultKeeps
<1>5. CASE WriteHeader
    BY <1>5, WriteHeaderKeeps
<1>6. CASE UNCHANGED vars
  <2>1. Reading /\ UNCHANGED <<runVars, restarted>>
      BY <1>6 DEF vars, Reading
  <2>2. ServerInvariant'
      BY <2>1, ReadingKeepsServer DEF EvalInvariant, ServerInvariant
  <2>3. UNCHANGED <<request, audited, records, build, loaded>>
      BY <2>1 DEF Reading, serverVars
  <2>4. UNCHANGED <<scenario, step, since, read, results, header, restarted>>
      BY <2>1 DEF runVars
  <2>5. RunTypeOK' /\ LaterAreNew' /\ AnswerIsRecorded' /\ NamesAreOfTheRun'
      BY <2>3, <2>4 DEF EvalInvariant, RunTypeOK, LaterAreNew, AnswerIsRecorded, NamesAreOfTheRun
  <2>6. /\ PromptsAreLoaded' /\ LastIsRecorded' /\ HeaderIsLast'
        /\ RecordCheckIsFair' /\ UndisturbedHeaderIsExact'
      BY <2>3, <2>4 DEF EvalInvariant, PromptsAreLoaded, LastIsRecorded, Recorded,
          HeaderIsLast, RecordCheckIsFair, UndisturbedHeaderIsExact
  <2> QED BY <2>2, <2>5, <2>6 DEF EvalInvariant, ServerInvariant
<1> QED BY <1>1, <1>2, <1>3, <1>4, <1>5, <1>6 DEF Next

(* In every state of a run, what the threads of a request have added to    *)
(* its Decision Record and to the audit log agrees with how far they are,  *)
(* and what run_eval.py read belongs to the scenario that runs.            *)
THEOREM EvalInvariantHolds == Spec => []EvalInvariant
    BY InvInit, NextKeeps, PTL DEF Spec

(* check_run never fails a scenario over its Decision Record unless someone *)
(* seeded while it ran, whatever the requests that the runner gave up still *)
(* do beside it.                                                           *)
THEOREM RecordCheckHolds == Spec => []RecordCheckIsFair
<1>1. EvalInvariant => RecordCheckIsFair
    BY DEF EvalInvariant
<1> QED BY <1>1, EvalInvariantHolds, PTL

(* get_header names the build of every result when nobody seeded, and the  *)
(* prompt versions of every result when the API was not restarted.         *)
THEOREM HeaderHolds == Spec => []UndisturbedHeaderIsExact
<1>1. EvalInvariant => UndisturbedHeaderIsExact
    BY DEF EvalInvariant
<1> QED BY <1>1, EvalInvariantHolds, PTL

=============================================================================
