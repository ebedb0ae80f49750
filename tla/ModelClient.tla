------------------------------ MODULE ModelClient ------------------------------
(***************************************************************************)
(* One LLMClient.create (llm.py): tries of the main model, then of the     *)
(* fallback model, with a record of every try in the audit log and in the  *)
(* evidence of the request.  The audit log is written in a transaction of  *)
(* its own before the evidence is, so a crash can come between the two.    *)
(*                                                                         *)
(* Time is counted in the base delay between two tries.  The timeout of    *)
(* the HTTP client holds for each phase of a try (connecting, waiting for  *)
(* a connection, for each read and write) and not for all of it; that one  *)
(* try takes no longer than Timeout, and a write to the audit log no time, *)
(* is an assumption of this module.                                        *)
(***************************************************************************)
EXTENDS Integers, Sequences, SequencesExt

CONSTANTS
    Models,       \* deployments that may be configured
    NoModel,      \* no fallback model is configured
    MaxRetries,   \* tries of one model after the first
    Timeout       \* how long one try may take, in base delays

ASSUME ModelClientAssumption ==
    /\ NoModel \notin Models
    /\ MaxRetries \in Nat
    /\ Timeout \in Nat

VARIABLES
    models,     \* the models to try, in order
    position,   \* the one that is tried now
    attempt,    \* the number of its next or current try
    pc,         \* what create does next
    item,       \* the evidence item that is being recorded
    audit,      \* model_call events of the audit log
    evidence,   \* the same items in the evidence of the request
    spent       \* what its tries and delays can have taken so far

vars == <<models, position, attempt, pc, item, audit, evidence, spent>>

Running == {"calling", "saving", "adding", "added"}
Ended == {"answered", "unavailable", "failed"}

Tries == MaxRetries + 1

(* is_retryable tells timeouts, lost connections, overload and server      *)
(* errors from the errors that another try would not cure.                 *)
CallStatuses == {"ok", "retryable_error", "error"}
Calls == [type : {"model_call"}, model : Models, attempt : 1..Tries, status : CallStatuses]
Changes == [type : {"model_fallback"}, model : Models]
GivenUp == [type |-> "model_degraded"]
Items == Calls \cup Changes \cup {GivenUp}

(* The fallback is left out when there is none, or when it is the model    *)
(* that is called anyway.                                                  *)
Init ==
    /\ \E model \in Models, fallback \in Models \cup {NoModel} :
          models = IF fallback \in {NoModel, model} THEN <<model>> ELSE <<model, fallback>>
    /\ position = 1
    /\ attempt = 1
    /\ pc = "calling"
    /\ item = GivenUp
    /\ audit = <<>>
    /\ evidence = <<>>
    /\ spent = 0

-----------------------------------------------------------------------------
Record(i) == item' = i /\ pc' = "saving"

(* One call of the SDK, which has its own retries switched off. *)
Try ==
    /\ pc = "calling"
    /\ \E status \in CallStatuses :
          Record([type |-> "model_call", model |-> models[position], attempt |-> attempt,
                  status |-> status])
    /\ spent' = spent + Timeout
    /\ UNCHANGED <<models, position, attempt, audit, evidence>>

(* An audit log that cannot be written is passed over.                     *)
SaveItemIfPossible ==
    /\ pc = "saving"
    /\ audit' \in {audit, Append(audit, item)}
    /\ pc' = "adding"
    /\ UNCHANGED <<models, position, attempt, item, evidence, spent>>

SaveItem ==
    /\ pc = "saving"
    /\ audit' = Append(audit, item)
    /\ pc' = "adding"
    /\ UNCHANGED <<models, position, attempt, item, evidence, spent>>

AddItem ==
    /\ pc = "adding"
    /\ evidence' = Append(evidence, item)
    /\ pc' = "added"
    /\ UNCHANGED <<models, position, attempt, item, audit, spent>>

Answer ==
    /\ pc = "added"
    /\ item.type = "model_call" /\ item.status = "ok"
    /\ pc' = "answered"
    /\ UNCHANGED <<models, position, attempt, item, audit, evidence, spent>>

(* The delay doubles one try too early. *)
LongerDelay(n) == 2 ^ n

(* The delay after try n of a model: 1, 2, 4 ... base delays. *)
Delay(n) == 2 ^ (n - 1)

WorthRetry(i) == i.status = "retryable_error" /\ i.attempt < Tries

Retry ==
    /\ pc = "added"
    /\ item.type = "model_call" /\ WorthRetry(item)
    /\ spent' = spent + Delay(attempt)
    /\ attempt' = attempt + 1
    /\ pc' = "calling"
    /\ UNCHANGED <<models, position, item, audit, evidence>>

(* This model is done; its last item was an error. *)
Exhausted == item.type = "model_call" /\ item.status # "ok" /\ ~WorthRetry(item)

(* Switch at the first error.                                              *)
AnnounceFallbackAtOnce ==
    /\ pc = "added"
    /\ item.type = "model_call" /\ item.status # "ok"
    /\ position < Len(models)
    /\ Record([type |-> "model_fallback", model |-> models[position + 1]])
    /\ UNCHANGED <<models, position, attempt, audit, evidence, spent>>

AnnounceFallback ==
    /\ pc = "added"
    /\ Exhausted /\ position < Len(models)
    /\ Record([type |-> "model_fallback", model |-> models[position + 1]])
    /\ UNCHANGED <<models, position, attempt, audit, evidence, spent>>

FallBack ==
    /\ pc = "added"
    /\ item.type = "model_fallback"
    /\ position' = position + 1
    /\ attempt' = 1
    /\ pc' = "calling"
    /\ UNCHANGED <<models, item, audit, evidence, spent>>

(* Only a fallback that fails gives up.                                    *)
AnnounceEndAfterFallback ==
    /\ pc = "added"
    /\ Exhausted /\ position = 2
    /\ Record(GivenUp)
    /\ UNCHANGED <<models, position, attempt, audit, evidence, spent>>

AnnounceEnd ==
    /\ pc = "added"
    /\ Exhausted /\ position = Len(models)
    /\ Record(GivenUp)
    /\ UNCHANGED <<models, position, attempt, audit, evidence, spent>>

(* LLMUnavailableError. *)
GiveUp ==
    /\ pc = "added"
    /\ item = GivenUp
    /\ pc' = "unavailable"
    /\ UNCHANGED <<models, position, attempt, item, audit, evidence, spent>>

(* The audit log cannot be written, or the process ends. *)
Fail ==
    /\ pc \in Running
    /\ pc' = "failed"
    /\ UNCHANGED <<models, position, attempt, item, audit, evidence, spent>>

Step ==
    \/ Try \/ SaveItem \/ AddItem \/ Answer \/ Retry \/ AnnounceFallback \/ FallBack
    \/ AnnounceEnd \/ GiveUp

Next == Step \/ Fail

Spec == Init /\ [][Next]_vars

(* The thread keeps running, and every try ends by its timeout.            *)
FairSpec == Spec /\ WF_vars(Step)

-----------------------------------------------------------------------------
TypeOK ==
    /\ models \in Seq(Models)
    /\ position \in DOMAIN models
    /\ attempt \in 1..Tries
    /\ pc \in Running \cup Ended
    /\ item \in Items
    /\ audit \in Seq(Items)
    /\ evidence \in Seq(Items)
    /\ spent \in Nat

(* The indexes of a model's tries in the evidence.                         *)
TriesOf(model) ==
    {i \in DOMAIN evidence : evidence[i].type = "model_call" /\ evidence[i].model = model}

(* A model has failed for good: an error not worth a retry, or no try left. *)
FailedForGood(model) ==
    \E i \in TriesOf(model) :
       \/ evidence[i].status = "error"
       \/ evidence[i].status = "retryable_error" /\ evidence[i].attempt = Tries

(* The fallback answers only for a main model that failed for good, and    *)
(* the request is told that no model answers only when all of them did.    *)
NoModelIsPassedOver ==
    /\ \A p \in DOMAIN models : TriesOf(models[p]) # {} =>
          \A q \in 1..(p - 1) : FailedForGood(models[q])
    /\ pc = "unavailable" => \A p \in DOMAIN models : FailedForGood(models[p])

(* What a request knows of its model calls is in the audit log first, also *)
(* when it dies between the two writes.                                    *)
EvidenceIsAudited ==
    /\ IsPrefix(evidence, audit)
    /\ Len(audit) <= Len(evidence) + 1

(* If no try takes longer than Timeout, one create takes no longer than    *)
(* its tries and the delays between them: with the defaults 183 seconds    *)
(* for two models, beside what the audit log takes.                        *)
WaitIsBounded ==
    spent <= Len(models) * (Tries * Timeout + 2 ^ MaxRetries - 1)

(* Every create answers or raises.                                         *)
Termination == <>(pc \in Ended)

=============================================================================
