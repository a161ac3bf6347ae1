------------------------------ MODULE LlmClient ------------------------------
(***************************************************************************)
(* A call of a language model (src/src/llm_client.py): the chain of         *)
(* providers it walks, the shape of the request, which is changed when a    *)
(* model refuses a field and is remembered for the whole process, and the   *)
(* tokens that end up in session.json (src/src/session_usage.py), which     *)
(* others write from what they once read (src/src/session.py).              *)
(*                                                                         *)
(* Two threads call: the worker of the run queue, and the event loop when a *)
(* client asks for evaluations; the event loop also handles the requests    *)
(* that change the settings or the session, one at a time.                  *)
(***************************************************************************)
EXTENDS SettingsStore, FiniteSets

CONSTANTS
  Roles,      \* agent roles, each with a model of its own
  Models,     \* the pairs of a base_url and a model_name
  Model,      \* which of them a provider serves a role with
  Reasoning,  \* the providers and models taken for reasoning models
  Sampling,   \* temperature, top_p and seed
  Extras,     \* response_format and stream_options
  Frank,      \* models that name the field they refuse
  Healthy,    \* the providers and models that answer
  Limits,     \* the sets of fields that each model may refuse
  MaxShapes,  \* how many shapes a call tries with one provider
  MaxCalls    \* bound on the calls

TokenFields == {"max_tokens", "max_completion_tokens"}
Effort == "reasoning_effort"
Fields == TokenFields \cup Sampling \cup Extras \cup {Effort}

ASSUME ClientAssumption ==
  /\ Model \in [Providers \X Roles -> Models]
  /\ Frank \subseteq Models /\ Healthy \subseteq Providers \X Frank
  /\ TokenFields \cap (Sampling \cup Extras \cup {Effort}) = {}
  /\ MaxShapes \in Nat \ {0} /\ MaxCalls \in Nat
  /\ IsFiniteSet(Fields) /\ Limits \in [Models -> SUBSET SUBSET Fields]

VARIABLES
  limits,   \* what each model refuses
  learned,  \* _LEARNED_PROFILES: by base_url and model_name
  calls,    \* the call of each thread
  started,  \* how many calls were made
  usage     \* token_usage: the calls counted in session.json and in each
            \* context that a thread holds, and those recorded at all

client == <<limits, learned, calls, started>>
vars == <<store, client, usage>>

Threads == {"worker", "loop"}

\* RequestProfile
Profiles == [token : TokenFields, sampling : BOOLEAN, reasoning : BOOLEAN, drop : SUBSET Fields]
NoProfile == [token |-> "max_tokens", sampling |-> FALSE, reasoning |-> FALSE, drop |-> {}]
NoRole == CHOOSE r \in Roles : TRUE
NoCall == [at |-> "idle", role |-> NoRole, chain |-> <<>>, next |-> 1, profile |-> NoProfile,
           tries |-> 0, refused |-> {}, gone |-> {}]

Init ==
  /\ StoreInit
  /\ limits \in [Models -> SUBSET Fields] /\ \A m \in Models : limits[m] \in Limits[m]
  /\ learned = [m \in Models |-> NoProfile] /\ started = 0
  /\ calls = [t \in Threads |-> NoCall]
  /\ usage = [file |-> 0, held |-> [t \in Threads |-> 0], recorded |-> 0]

Ended(how) == [NoCall EXCEPT !.at = how]
Waiting(t) == calls[t].at \in {"idle", "answered", "failed", "raised", "rejected"}
LoopFree == Waiting("loop") /\ (Loaded => Unlocked)

-----------------------------------------------------------------------------
(* The shape of a request *)

\* _classic_profile and _openai_reasoning_profile
Default(p, m) ==
  IF <<p, m>> \in Reasoning
  THEN [token |-> "max_completion_tokens", sampling |-> FALSE, reasoning |-> TRUE, drop |-> {}]
  ELSE [token |-> "max_tokens", sampling |-> TRUE, reasoning |-> FALSE, drop |-> {}]

\* resolve_request_profile: what was learned of the model goes first, through
\* whichever provider.
Resolve(p, m) == IF learned[m] # NoProfile THEN learned[m] ELSE Default(p, m)

\* Mutant: of what was refused, only the sampling as a whole is left out.
SentWithDropped(f) ==
  {f.token} \cup (IF f.sampling THEN Sampling ELSE {}) \cup (Extras \ f.drop)
  \cup (IF f.reasoning THEN {Effort} ELSE {})

\* _build_chat_kwargs
Sent(f) ==
  {f.token} \cup (((IF f.sampling THEN Sampling ELSE {}) \cup Extras
                   \cup (IF f.reasoning THEN {Effort} ELSE {})) \ f.drop)

\* apply_unsupported_param; the profile is the same when there is nothing to do.
Without(f, field) ==
  IF field \in TokenFields
  THEN [f EXCEPT !.token = CHOOSE other \in TokenFields : other # field]
  ELSE [f EXCEPT !.drop = @ \cup {field},
                 !.sampling = @ /\ ~(field \in Sampling /\ Sampling \subseteq f.drop \cup {field}),
                 !.reasoning = @ /\ field # Effort]

\* A refusal names a field that was sent; else it is taken for max_tokens.
Names(m, f) ==
  (limits[m] \cap Sent(f)) \cup (IF m \in Frank THEN {} ELSE {"max_tokens"})

-----------------------------------------------------------------------------
(* A call *)

\* _candidate_ids
Candidates(model) ==
  IF model # "auto" /\ Enabled(model) THEN <<model>> ELSE FallbackIds(settings)

\* call_llm
Start(t) ==
  /\ Waiting(t) /\ (t = "loop" => LoopFree)
  /\ Loaded /\ Unlocked
  /\ started < MaxCalls /\ started' = started + 1
  /\ \E model \in {"auto"} \cup Providers, role \in Roles :
       calls' = [calls EXCEPT ![t] =
         [NoCall EXCEPT !.role = role, !.chain = Candidates(model),
                        !.at = IF Candidates(model) = <<>> THEN "raised" ELSE "next"]]
  /\ UNCHANGED <<store, limits, learned, usage>>

\* The provider a call has come to, and the model it is asked for.
At(c) == c.chain[c.next]
Asked(c) == Model[At(c), c.role]
Backend(t) == At(calls[t])
Left(t) == calls[t].next <= Len(calls[t].chain)

\* Mutant: the missing provider's KeyError gets out of the call.
TryBackendOrRaise(t) ==
  /\ calls[t].at = "next" /\ Left(t) /\ Loaded /\ Unlocked
  /\ calls' = [calls EXCEPT ![t] =
       IF Enabled(Backend(t))
       THEN [calls[t] EXCEPT !.at = "sending", !.profile = Resolve(Backend(t), Asked(calls[t])),
                               !.tries = 1]
       ELSE [calls[t] EXCEPT !.at = "raised"]]
  /\ UNCHANGED <<store, limits, learned, started, usage>>

\* _call_single resolves its provider anew: one that is gone is passed over.
TryBackend(t) ==
  /\ calls[t].at = "next" /\ Left(t) /\ Loaded /\ Unlocked
  /\ calls' = [calls EXCEPT ![t] =
       IF Enabled(Backend(t))
       THEN [calls[t] EXCEPT !.at = "sending", !.profile = Resolve(Backend(t), Asked(calls[t])),
                               !.tries = 1]
       ELSE [calls[t] EXCEPT !.next = @ + 1, !.gone = @ \cup {Backend(t)}]]
  /\ UNCHANGED <<store, limits, learned, started, usage>>

AllFailed(t) ==
  /\ calls[t].at = "next" /\ ~Left(t)
  /\ calls' = [calls EXCEPT ![t].at = "failed"]
  /\ UNCHANGED <<store, limits, learned, started, usage>>

Accepted(t) ==
  /\ calls[t].at = "sending"
  /\ limits[Asked(calls[t])] \cap Sent(calls[t].profile) = {}
  /\ calls' = [calls EXCEPT ![t].at = "streaming"]
  /\ UNCHANGED <<store, limits, learned, started, usage>>

NextBackend(t) ==
  [calls EXCEPT ![t] = [calls[t] EXCEPT !.at = "next", !.next = @ + 1,
                                        !.profile = NoProfile, !.tries = 0, !.refused = {}]]

SendAgain(t, changed, field) ==
  [calls EXCEPT ![t] = [calls[t] EXCEPT !.profile = changed, !.tries = @ + 1,
                                        !.refused = @ \cup {field}]]

\* Mutant: what is learned of one model is kept for all of them.
RefusedByAll(t) ==
  /\ calls[t].at = "sending"
  /\ limits[Asked(calls[t])] \cap Sent(calls[t].profile) # {}
  /\ \E field \in Names(Asked(calls[t]), calls[t].profile) :
       LET changed == Without(calls[t].profile, field) IN
       IF changed = calls[t].profile
       THEN calls' = NextBackend(t) /\ UNCHANGED learned
       ELSE /\ learned' = [m \in Models |-> changed]
            /\ calls' = IF calls[t].tries = MaxShapes THEN NextBackend(t)
                        ELSE SendAgain(t, changed, field)
  /\ UNCHANGED <<store, limits, started, usage>>

\* A field is refused: the shape is changed, remembered and tried again.
Refused(t) ==
  /\ calls[t].at = "sending"
  /\ limits[Asked(calls[t])] \cap Sent(calls[t].profile) # {}
  /\ \E field \in Names(Asked(calls[t]), calls[t].profile) :
       LET changed == Without(calls[t].profile, field) IN
       IF changed = calls[t].profile
       THEN calls' = NextBackend(t) /\ UNCHANGED learned
       ELSE /\ learned' = [learned EXCEPT ![Asked(calls[t])] = changed]
            /\ calls' = IF calls[t].tries = MaxShapes THEN NextBackend(t)
                        ELSE SendAgain(t, changed, field)
  /\ UNCHANGED <<store, limits, started, usage>>

Works(c) == <<At(c), Asked(c)>> \in Healthy

\* No connection, 400, 401, 403, 429 or 5xx, or an answer that breaks off.
Unusable(t) ==
  /\ calls[t].at \in {"sending", "streaming"} /\ ~Works(calls[t])
  /\ calls' = NextBackend(t)
  /\ UNCHANGED <<store, limits, learned, started, usage>>

\* Any other status, 404 or 408 say, ends the call where it is in its chain.
Fatal(t) ==
  /\ calls[t].at = "sending" /\ ~Works(calls[t])
  /\ calls' = [calls EXCEPT ![t] = [calls[t] EXCEPT !.at = "rejected", !.profile = NoProfile,
                                                    !.tries = 0, !.refused = {}]]
  /\ UNCHANGED <<store, limits, learned, started, usage>>

\* record_session_tokens: one call more, under the lock that a save holds too.
Recorded == [usage EXCEPT !.file = @ + 1, !.recorded = @ + 1]

\* The answer is complete; only the worker's calls have a stream to count on.
Answered(t) ==
  /\ calls[t].at = "streaming"
  /\ calls' = [calls EXCEPT ![t] = Ended("answered")]
  /\ usage' = IF t = "loop" THEN usage ELSE Recorded
  /\ UNCHANGED <<store, limits, learned, started>>

-----------------------------------------------------------------------------
(* session.json *)

MayUseSession(t) == Waiting(t) /\ (t = "loop" => LoopFree)

\* load_session: a request reads the file, a run keeps what a request read.
LoadSession(t) ==
  /\ MayUseSession(t)
  /\ usage' = [usage EXCEPT !.held[t] = usage.file]
  /\ UNCHANGED <<store, client>>

Higher(m, n) == IF m > n THEN m ELSE n

\* Mutant: the context is written as it is.
SaveMetaWhole(t) ==
  /\ MayUseSession(t)
  /\ usage' = [usage EXCEPT !.file = usage.held[t]]
  /\ UNCHANGED <<store, client>>

\* _save_meta writes the whole context, with the higher of the two totals; a
\* request has done with it.
SaveMeta(t) ==
  /\ MayUseSession(t)
  /\ LET total == Higher(usage.file, usage.held[t])
     IN usage' = [usage EXCEPT !.file = total, !.held[t] = IF t = "loop" THEN 0 ELSE total]
  /\ UNCHANGED <<store, client>>

-----------------------------------------------------------------------------
SettingsStep ==
  /\ Load \/ SaveSettings \/ SaveSecrets
  /\ UNCHANGED <<client, usage>>

\* The event loop takes one request at a time.
PatchSettings == LoopFree /\ Patch /\ UNCHANGED <<client, usage>>

Crash ==
  /\ StoreCrash
  /\ learned' = [m \in Models |-> NoProfile]
  /\ calls' = [t \in Threads |-> NoCall]
  /\ usage' = [usage EXCEPT !.held = [t \in Threads |-> 0]]
  /\ UNCHANGED <<limits, started>>

CallStep(t) ==
  \/ TryBackend(t) \/ AllFailed(t) \/ Accepted(t) \/ Refused(t) \/ Unusable(t) \/ Fatal(t)
  \/ Answered(t)

Next ==
  \/ SettingsStep \/ PatchSettings \/ Crash
  \/ \E t \in Threads : Start(t) \/ CallStep(t) \/ LoadSession(t) \/ SaveMeta(t)

Spec == Init /\ [][Next]_vars

-----------------------------------------------------------------------------
(* Properties *)

\* A provider that answers for this model, once the fields it refuses are left out.
Adaptable(p, m) ==
  /\ <<p, m>> \in Healthy /\ ~(TokenFields \subseteq limits[m])
  /\ Cardinality(limits[m] \cap Fields) < MaxShapes

\* A call that ends without an answer has come to every provider of its chain that
\* could have answered, and has found it taken out of the settings; whatever the
\* other thread learns meanwhile.  The exception is in the code: a status such as
\* 404 or 408 ends the call at the provider it is from, and those behind it are not
\* asked (llm_client.py:560-600, 574-575 and 655-700).
NoWorkingProviderIsPassedOver ==
  \A t \in Threads : LET c == calls[t] IN
    c.at \in {"failed", "raised", "rejected"} =>
      \A i \in DOMAIN c.chain :
        /\ Adaptable(c.chain[i], Model[c.chain[i], c.role])
        /\ c.at = "rejected" => i <= c.next
        => c.chain[i] \in c.gone

\* Within a call, a field that its provider refused is not sent to it again, if the
\* model takes one of the two token fields (llm_client.py:362-398, 426-455).
RefusedStaysOut ==
  \A t \in Threads :
    calls[t].at = "sending" /\ Adaptable(Backend(t), Asked(calls[t])) =>
      Sent(calls[t].profile) \cap calls[t].refused = {}

\* The token fields the providers of a model begin with.
Begun(m) == {Default(pr[1], m).token : pr \in {x \in Providers \X Roles : Model[x] = m}}

\* What the process has learned of a model that says what it refuses is true,
\* whichever thread, role or provider wrote it last: nothing is left out that it
\* takes, and the token field is one it was first sent, or the other is refused.
LearnedIsTrue ==
  \A m \in Frank : learned[m] # NoProfile =>
    /\ learned[m].drop \subseteq limits[m]
    /\ learned[m].token \in Begun(m) \/ TokenFields \ {learned[m].token} \subseteq limits[m]

\* The total in session.json is what was recorded, whatever was written over the
\* file from a context that had been read before (session_usage.py:39-78 and
\* session.py:291-330).
UsageIsExact == usage.file = usage.recorded

==============================================================================
