--------------------------- MODULE ConditionAxis ---------------------------
(***************************************************************************)
(* generate_condition_axis as the threads of a server run it: the policy   *)
(* is read once, the entity generator is asked up to MaxAttempts times     *)
(* outside every lock, and shared counters record what came of it.  Policy *)
(* activations go on meanwhile.                                            *)
(***************************************************************************)
EXTENDS AxisPayload

CONSTANTS
  Threads,
  Bundles,
  Policy,        \* Policy[b]: thresholds and axes of axis bundle b
  Payloads,      \* what the generator may answer
  SeedMin, SeedMax,
  Enabled,       \* the integration is enabled and has a base URL
  MaxAttempts,   \* _UPSTREAM_MAX_ATTEMPTS
  MaxRequests    \* bound on the requests served

\* A generation asks the service once at least.
ASSUME AttemptsType == MaxAttempts \in Nat \ {0}

VARIABLES
  active,     \* the effective axis bundle, NULL or "broken"
  call,       \* call[t]: where thread t is
  answer,     \* answer[t]: what thread t returned last
  metrics,    \* _UPSTREAM_METRICS
  begun       \* requests served so far

genVars == <<active, call, answer, metrics, begun>>

Ended == {"timeouts", "exceptions", "unsupported", "http", "json", "shape", "success"}
Counters == Ended \cup {"requests", "retries"}

AtRest == [pc |-> "idle", wanted |-> NULL, ok |-> TRUE, bundle |-> NULL, attempt |-> 0]

GenInit ==
  /\ active \in Bundles
  /\ call = [t \in Threads |-> AtRest]
  /\ answer = [t \in Threads |-> NULL]
  /\ metrics = [c \in Counters |-> 0]
  /\ begun = 0

\* _record_upstream_metric takes the lock for each increment.
Record(c) == metrics' = [metrics EXCEPT ![c] = @ + 1]

Answer(t, status, bundle, axes) ==
  /\ answer' = [answer EXCEPT ![t] = [status |-> status, bundle |-> bundle, axes |-> axes]]
  /\ call' = [call EXCEPT ![t] = AtRest]

Refuse(t, status) == Answer(t, status, NULL, <<>>)

\* A seed out of bounds is refused before anything is looked up; without a seed
\* one is drawn from the bounds.
BeginGeneration(t, seed, wanted, strict, inputs) ==
  /\ call[t].pc = "idle"
  /\ begun < MaxRequests
  /\ begun' = begun + 1
  /\ \/ seed # NULL /\ seed \notin SeedMin..SeedMax /\ Refuse(t, 422)
     \/ /\ seed = NULL \/ seed \in SeedMin..SeedMax
        /\ call' = [call EXCEPT ![t] = [AtRest EXCEPT !.pc = "policy", !.wanted = wanted,
                                                      !.ok = ~strict \/ ValidInputs(inputs)]]
        /\ UNCHANGED answer
  /\ UNCHANGED <<active, metrics>>

\* _resolve_policy_context, _validate_runtime_inputs, and the first lines of the
\* adapter.
ResolvePolicy(t) ==
  /\ call[t].pc = "policy"
  /\ LET refused == IF active = NULL THEN 501
                    ELSE IF active = "broken" THEN 502
                    ELSE IF call[t].wanted \notin {NULL, active} THEN 404
                    ELSE IF ~call[t].ok THEN 422
                    ELSE IF ~Enabled THEN 501 ELSE 0
     IN IF refused # 0
        THEN Refuse(t, refused) /\ UNCHANGED metrics
        ELSE /\ call' = [call EXCEPT ![t] = [@ EXCEPT !.pc = "post", !.bundle = active, !.attempt = 1]]
             /\ Record("requests")
             /\ UNCHANGED answer
  /\ UNCHANGED <<active, begun>>

Retriable == {"timeouts", "exceptions", "http_timeout"}

\* Mutant of Retry: the attempt is counted among the outcomes already.
RetryCounted(t, outcome) ==
  /\ call[t].attempt < MaxAttempts
  /\ metrics' = [metrics EXCEPT !["retries"] = @ + 1,
                                ![IF outcome = "http_timeout" THEN "timeouts" ELSE outcome] = @ + 1]
  /\ call' = [call EXCEPT ![t].attempt = @ + 1]
  /\ UNCHANGED answer

Retry(t, outcome) ==
  /\ call[t].attempt < MaxAttempts
  /\ Record("retries")
  /\ call' = [call EXCEPT ![t].attempt = @ + 1]
  /\ UNCHANGED answer

\* A timeout, a broken connection, or a status that says timeout.
PostFails(t, outcome) ==
  /\ call[t].pc = "post"
  /\ outcome \in Retriable
  /\ \/ Retry(t, outcome)
     \/ /\ call[t].attempt >= MaxAttempts
        /\ Record(IF outcome = "http_timeout" THEN "timeouts" ELSE outcome)
        /\ Refuse(t, IF outcome = "exceptions" THEN 502 ELSE 504)
  /\ UNCHANGED <<active, begun>>

\* A status that is not worth a retry.
PostRefused(t, outcome) ==
  /\ call[t].pc = "post"
  /\ outcome \in {"unsupported", "http"}
  /\ Record(outcome)
  /\ Refuse(t, IF outcome = "unsupported" THEN 501 ELSE 502)
  /\ UNCHANGED <<active, begun>>

\* Status 200 with a body that is no JSON, or no object.
PostUnreadable(t, outcome) ==
  /\ call[t].pc = "post"
  /\ outcome \in {"json", "shape"}
  /\ Record(outcome)
  /\ Refuse(t, 502)
  /\ UNCHANGED <<active, begun>>

\* Mutant of CompletedWith: the policy is read again for the answer.
CompletedWithActive(t) == IF active \in Bundles THEN active ELSE call[t].bundle

\* The bundle the answer names, and is complete for: the one read at the start.
CompletedWith(t) == call[t].bundle

\* A payload: normalised, and refused when a required axis is missing.
PostSucceeds(t, payload) ==
  /\ call[t].pc = "post"
  /\ Record("success")
  /\ LET axes == Normalize(Policy[call[t].bundle], payload)
     IN IF axes = <<>> \/ MissingAxes(Policy[call[t].bundle], axes) # {}
        THEN Refuse(t, 502)
        ELSE Answer(t, 200, CompletedWith(t), axes)
  /\ UNCHANGED <<active, begun>>

\* set_policy_activation changes what the scope resolves to.
ActivateBundle(b) ==
  /\ active' = b
  /\ UNCHANGED <<call, answer, metrics, begun>>

Posted(t) ==
  \/ \E outcome \in Retriable : PostFails(t, outcome)
  \/ \E outcome \in {"unsupported", "http"} : PostRefused(t, outcome)
  \/ \E outcome \in {"json", "shape"} : PostUnreadable(t, outcome)
  \/ \E payload \in Payloads : PostSucceeds(t, payload)

Requests ==
  [seed : {NULL, SeedMin - 1, SeedMin, SeedMax, SeedMax + 1}, wanted : {NULL} \cup Bundles,
   strict : BOOLEAN,
   inputs : {[shape |-> "flat", given |-> {}], [shape |-> "nested", given |-> {"entity.species"}],
             [shape |-> "nested", given |-> RequiredInputs]}]

GenNext ==
  \/ \E t \in Threads : \/ \E r \in Requests : BeginGeneration(t, r.seed, r.wanted, r.strict, r.inputs)
                        \/ ResolvePolicy(t)
                        \/ Posted(t)
  \/ \E b \in Bundles \cup {NULL, "broken"} : ActivateBundle(b)

GenSpec == GenInit /\ [][GenNext]_genVars

-----------------------------------------------------------------------------
InFlight == {t \in Threads : call[t].pc = "post"}

\* Every request that reached the adapter is counted under exactly one outcome,
\* or is still in flight, whatever the threads do in between; and the retries
\* leave each request within its attempts.
EachCountedOnce ==
  /\ metrics["requests"] = metrics["timeouts"] + metrics["exceptions"] + metrics["unsupported"]
                            + metrics["http"] + metrics["json"] + metrics["shape"] + metrics["success"]
                            + Cardinality(InFlight)
  /\ metrics["retries"] <= (MaxAttempts - 1) * metrics["requests"]

\* An answer has a score for every axis that the bundle it names requires,
\* although other bundles may have been activated while the generator was asked.
AnswersFitTheirBundle ==
  \A t \in Threads :
    (answer[t] # NULL /\ answer[t].status = 200) =>
      MissingAxes(Policy[answer[t].bundle], answer[t].axes) = {}
=============================================================================
