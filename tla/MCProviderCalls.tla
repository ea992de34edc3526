--------------------------- MODULE MCProviderCalls ---------------------------
(* Two calls of one client, on its one limiter.  One unit of time stands for *)
(* RetryBackoffMs; the host is three units from GMT.                         *)
EXTENDS ProviderCalls

CONSTANTS c1, c2

\* Two embedding calls, two LLM calls, an LLM call and a synthesis.
MCClients == { (c1 :> "embedding") @@ (c2 :> "embedding") } \union
             { (c1 :> k) @@ (c2 :> "llm") : k \in {"llm", "tts"} }
MCRetries == [llm |-> 1, embedding |-> 1, tts |-> 1]
MCStatuses == {204, 304, 400, 429, 500}
MCHeaders == { NoHeader, [form |-> "seconds", value |-> 9], [form |-> "imf", value |-> 0],
               [form |-> "asctime", value |-> 2], [form |-> "year", value |-> -9],
               [form |-> "words", value |-> 0] }
=============================================================================
