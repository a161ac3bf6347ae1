----------------------------- MODULE MCLlmClient -----------------------------
EXTENDS LlmClient

NoKeyAt == [p \in Providers |-> NoKey]
KeyOf(p) == [NoKeyAt EXCEPT ![p] = "k1"]
MCDotEnv == KeyOf("local")
MCEnv == KeyOf("cloud")

Body(list, on, key, order, given, whole) ==
  [list |-> list, on |-> on, key |-> key, order |-> order, given |-> given, whole |-> whole]

\* A key is replaced; a provider is disabled; an order is given; everything is put
\* anew, without one of them.
MCPatches ==
  {Body(<<"local", "cloud">>, {"local", "cloud"}, [NoKeyAt EXCEPT !["local"] = "k2"], <<>>,
        {"providers"}, FALSE),
   Body(<<"local", "cloud">>, {"cloud"}, NoKeyAt, <<>>, {"providers"}, FALSE),
   Body(<<>>, {}, NoKeyAt, <<"cloud", "local">>, {"fallback_order"}, FALSE),
   Body(<<"cloud">>, {"cloud"}, NoKeyAt, <<>>, {"providers"}, TRUE)}

\* Each provider has a model per role; "small" and "large" are served by both.
MCModel ==
  (<<"local", "worker">> :> "small") @@ (<<"local", "review">> :> "large") @@
  (<<"cloud", "worker">> :> "large") @@ (<<"cloud", "review">> :> "small")
MCReasoning == {"cloud"} \X {"small", "large"}
MCHealthy == {<<"local", "small">>}

\* The small model may refuse nothing, two fields, or both token fields.
MCLimits ==
  ("small" :> {{}, {"max_tokens", "temperature"}, {"max_tokens", "max_completion_tokens"}}) @@
  ("large" :> {{"max_completion_tokens", "reasoning_effort"}})
==============================================================================
