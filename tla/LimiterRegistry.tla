-------------------------- MODULE LimiterRegistry --------------------------
(***************************************************************************)
(* The registry of rate limiters: at start-up every call site asks for the *)
(* limiter of its quota, and the sites that spend one quota must share one *)
(* limiter whatever the order they come in.  A limiter is named by the     *)
(* site that registered it; NO_LIMIT is the one passthrough of all quotas  *)
(* without a cap.                                                          *)
(***************************************************************************)
EXTENDS Naturals, Sequences, Functions

CONSTANTS Site,              \* the call sites: llm, intent-llm, stt, tts, embedding
          QuotaKey,          \* what the quotas of a deployment are metered by
          Symbol, Bar,       \* what the parts of a key are written in, and '|'
          Limits, Uncapped,  \* the limits a site may configure, and all zeroes
          NO_LIMIT, NotYet

VARIABLES key, limits,   \* the configuration: the quota key and limits of each site
          limiters,      \* identity -> the limiter, its limits and its call sites
          got,           \* got[s]: the limiter site s was given, NotYet before
          conflicts      \* the sites told that their limits were ignored

vars == <<key, limits, limiters, got, conflicts>>

ASSUME RegistryAssumption == Uncapped \in Limits /\ {NO_LIMIT, NotYet} \intersect Site = {}

\* A part that is not set is empty; no deployment has a '|' in one.
ASSUME KeyAssumption ==
  /\ QuotaKey \subseteq [provider : Seq(Symbol), baseUrl : Seq(Symbol), apiKey : Seq(Symbol), model : Seq(Symbol)]
  /\ Bar \notin Symbol

\* Mutant: the parts are run together.
identityOfRun(k) == k.provider \o k.baseUrl \o k.apiKey \o k.model

\* The identity is a string, the parts joined by '|'.
identityOf(k) == k.provider \o <<Bar>> \o k.baseUrl \o <<Bar>> \o k.apiKey \o <<Bar>> \o k.model

hasAnyLimit(l) == l # Uncapped

Init ==
  /\ key \in [Site -> QuotaKey]
  /\ limits \in [Site -> Limits]
  /\ limiters = [id \in {} |-> NO_LIMIT]
  /\ got = [s \in Site |-> NotYet]
  /\ conflicts = {}

\* The first site of a quota decides; the others get its limiter, and a site
\* that wanted other limits is reported.
get(s) ==
  LET id == identityOf(key[s])
      known == id \in DOMAIN limiters
      entry == IF known THEN limiters[id]
               ELSE [limiter |-> IF hasAnyLimit(limits[s]) THEN s ELSE NO_LIMIT,
                     limits |-> limits[s], callSites |-> <<>>]
  IN
  /\ got[s] = NotYet
  /\ limiters' = [i \in DOMAIN limiters \union {id} |->
                   IF i = id THEN [entry EXCEPT !.callSites = Append(@, s)] ELSE limiters[i]]
  /\ got' = [got EXCEPT ![s] = entry.limiter]
  /\ conflicts' = IF limits[s] # entry.limits THEN conflicts \union {s} ELSE conflicts
  /\ UNCHANGED <<key, limits>>

Next == \E s \in Site : get(s)

Spec == Init /\ [][Next]_vars

-----------------------------------------------------------------------------
Registered == { s \in Site : got[s] # NotYet }

(* The sites of one quota spend one budget: they hold one limiter, and no   *)
(* capped limiter is shared by two quotas.                                  *)
OneBudgetPerQuota ==
  \A s, u \in Registered :
    /\ key[s] = key[u] => got[s] = got[u]
    /\ (key[s] # key[u] /\ got[s] = got[u]) => got[s] = NO_LIMIT

(* Sites of one quota that disagree never do so in silence, not even when   *)
(* one of them asked for no cap at all.                                     *)
DisagreementIsReported ==
  \A s, u \in Registered :
    (key[s] = key[u] /\ limits[s] # limits[u]) => {s, u} \intersect conflicts # {}

(* Types; and the boot report (describe) names every site that registered,   *)
(* once, under its own quota.                                               *)
TypeOK ==
  /\ got \in [Site -> Site \union {NO_LIMIT, NotYet}]
  /\ \A id \in DOMAIN limiters :
       /\ IsInjective(limiters[id].callSites)
       /\ Range(limiters[id].callSites) = { s \in Registered : identityOf(key[s]) = id }
=============================================================================
