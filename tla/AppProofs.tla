------------------------------ MODULE AppProofs ------------------------------
(***************************************************************************)
(* What one process of the backend promises beside its carts, for any       *)
(* configuration and any requests: the registry gives every quota one       *)
(* budget and reports every disagreement; the image proxy stays within its  *)
(* bounds and the past orders of a device are complete, under any failure   *)
(* of Redis, Odoo or the client and any number of signals.                  *)
(***************************************************************************)
EXTENDS LimiterRegistry, HttpApi, SequenceTheorems, TLAPS

-----------------------------------------------------------------------------
(* The registry of rate limiters *)


Quota(s) == identityOf(key[s])

(* An entry holds what its first site asked for: its limiter is a site of  *)
(* its own quota, or the passthrough.                                      *)
EntriesOwn ==
  \A id \in DOMAIN limiters :
    limiters[id].limiter = NO_LIMIT \/ \E s \in Site : limiters[id].limiter = s /\ Quota(s) = id

(* A site that registered holds the limiter of its quota's entry, and was  *)
(* reported if it wanted other limits than those kept there.               *)
SitesHold ==
  \A s \in Registered :
    /\ Quota(s) \in DOMAIN limiters
    /\ got[s] = limiters[Quota(s)].limiter
    /\ limits[s] # limiters[Quota(s)].limits => s \in conflicts

RegistryEntry == [limiter : Site \union {NO_LIMIT}, limits : Limits, callSites : Seq(Site)]

RegistryTypes ==
  /\ key \in [Site -> QuotaKey]
  /\ limits \in [Site -> Limits]
  /\ got \in [Site -> Site \union {NO_LIMIT, NotYet}]
  /\ \A id \in DOMAIN limiters : limiters[id] \in RegistryEntry

RegistryInv == RegistryTypes /\ EntriesOwn /\ SitesHold

(* What parts are joined into, and a part joined to the rest.               *)
Text == Symbol \union {Bar}
Joined(p, r) == p \o (<<Bar>> \o r)

LEMMA JoinedType == ASSUME NEW p \in Seq(Text), NEW r \in Seq(Text) PROVE Joined(p, r) \in Seq(Text)
<1>1. <<Bar>> \in Seq(Text)
  BY DEF Text
<1>2. PICK b \in Seq(Text) : b = <<Bar>>
  BY <1>1
<1>3. b \o r \in Seq(Text)
  BY ConcatProperties
<1>4. p \o (b \o r) \in Seq(Text)
  BY <1>3, ConcatProperties
<1> QED BY <1>2, <1>4 DEF Joined

(* The first '|' of a joined text ends its first part.                      *)
LEMMA JoinSplits ==
  ASSUME NEW a \in Seq(Symbol), NEW e \in Seq(Symbol), NEW v \in Seq(Text), NEW w \in Seq(Text),
         Joined(a, v) = Joined(e, w)
  PROVE  a = e /\ v = w
<1>0. a \o (<<Bar>> \o v) = e \o (<<Bar>> \o w)
  BY DEF Joined
<1>1. a \in Seq(Text) /\ e \in Seq(Text) /\ <<Bar>> \in Seq(Text)
  BY DEF Text
<1>2. PICK p, q : p = <<Bar>> \o v /\ q = <<Bar>> \o w
  OBVIOUS
<1>3. /\ p \in Seq(Text) /\ Len(p) = 1 + Len(v) /\ p[1] = Bar
      /\ q \in Seq(Text) /\ Len(q) = 1 + Len(w) /\ q[1] = Bar
  BY <1>1, <1>2, ConcatProperties
<1>4. PICK s : s = a \o p /\ s = e \o q
  BY <1>0, <1>2
<1>5. /\ \A i \in 1..(Len(a) + Len(p)) : s[i] = IF i <= Len(a) THEN a[i] ELSE p[i - Len(a)]
      /\ \A i \in 1..(Len(e) + Len(q)) : s[i] = IF i <= Len(e) THEN e[i] ELSE q[i - Len(e)]
  <2>1. \A i \in 1..(Len(a) + Len(p)) : (a \o p)[i] = IF i <= Len(a) THEN a[i] ELSE p[i - Len(a)]
    BY <1>1, <1>3, ConcatProperties
  <2>2. \A i \in 1..(Len(e) + Len(q)) : (e \o q)[i] = IF i <= Len(e) THEN e[i] ELSE q[i - Len(e)]
    BY <1>1, <1>3, ConcatProperties
  <2> QED BY <2>1, <2>2, <1>4
<1>6. /\ Len(a) \in Nat /\ Len(e) \in Nat /\ Len(v) \in Nat /\ Len(w) \in Nat
      /\ \A i \in 1..Len(a) : a[i] # Bar
      /\ \A i \in 1..Len(e) : e[i] # Bar
  BY KeyAssumption
<1>7. Len(a) + Len(p) = Len(e) + Len(q)
  <2>1. Len(a \o p) = Len(a) + Len(p)
    BY <1>1, <1>3, ConcatProperties
  <2>2. Len(e \o q) = Len(e) + Len(q)
    BY <1>1, <1>3, ConcatProperties
  <2> QED BY <2>1, <2>2, <1>4
<1>8. ~(Len(a) < Len(e))
  <2> SUFFICES ASSUME Len(a) < Len(e) PROVE FALSE
    OBVIOUS
  <2> PICK i \in Nat : i = Len(a) + 1
    BY <1>6
  <2>1. i \in 1..(Len(a) + Len(p)) /\ i \in 1..(Len(e) + Len(q)) /\ i \in 1..Len(e)
    BY <1>3, <1>6, <1>7
  <2>2. s[i] = e[i]
    BY <1>5, <2>1, <1>6
  <2>3. ~(i <= Len(a)) /\ i - Len(a) = 1
    BY <1>6
  <2>4. s[i] = p[1]
    BY <1>5, <2>1, <2>3
  <2> QED BY <2>1, <2>2, <2>4, <1>3, <1>6
<1>9. ~(Len(e) < Len(a))
  <2> SUFFICES ASSUME Len(e) < Len(a) PROVE FALSE
    OBVIOUS
  <2> PICK i \in Nat : i = Len(e) + 1
    BY <1>6
  <2>1. i \in 1..(Len(a) + Len(p)) /\ i \in 1..(Len(e) + Len(q)) /\ i \in 1..Len(a)
    BY <1>3, <1>6, <1>7
  <2>2. s[i] = a[i]
    BY <1>5, <2>1, <1>6
  <2>3. ~(i <= Len(e)) /\ i - Len(e) = 1
    BY <1>6
  <2>4. s[i] = q[1]
    BY <1>5, <2>1, <2>3
  <2> QED BY <2>1, <2>2, <2>4, <1>3, <1>6
<1>10. Len(a) = Len(e) /\ \A i \in 1..Len(a) : a[i] = e[i]
  <2>1. Len(a) = Len(e)
    BY <1>6, <1>8, <1>9
  <2>2. ASSUME NEW i \in 1..Len(a) PROVE s[i] = a[i] /\ s[i] = e[i]
    <3>1. i \in 1..(Len(a) + Len(p)) /\ i \in 1..(Len(e) + Len(q)) /\ i <= Len(a) /\ i <= Len(e)
      BY <2>1, <1>3, <1>6
    <3> QED BY <1>5, <3>1
  <2> QED BY <2>1, <2>2
<1>11. a = e
  BY <1>10, SeqEqual
<1>12. p = q
  BY <1>1, <1>3, <1>4, <1>11, ConcatSimplifications
<1>13. v = w
  BY <1>1, <1>2, <1>12, ConcatSimplifications
<1> QED BY <1>11, <1>13

LEMMA TextAssociates ==
  ASSUME NEW x \in Seq(Text), NEW y \in Seq(Text), NEW z \in Seq(Text)
  PROVE  (x \o y) \o z = x \o (y \o z)
<1> PICK S : S = Text
  OBVIOUS
<1>1. x \in Seq(S) /\ y \in Seq(S) /\ z \in Seq(S)
  OBVIOUS
<1> QED BY ONLY <1>1, ConcatAssociative

(* An identity is its first part joined to the rest, and so on.             *)
LEMMA IdentityJoins ==
  ASSUME NEW k, k.provider \in Seq(Text), k.baseUrl \in Seq(Text), k.apiKey \in Seq(Text), k.model \in Seq(Text)
  PROVE  identityOf(k) = Joined(k.provider, Joined(k.baseUrl, Joined(k.apiKey, k.model)))
<1> PICK a, b, c, d, B : /\ a = k.provider /\ b = k.baseUrl /\ c = k.apiKey /\ d = k.model
                         /\ B = <<Bar>>
  OBVIOUS
<1>0. /\ a \in Seq(Text) /\ b \in Seq(Text) /\ c \in Seq(Text) /\ d \in Seq(Text)
      /\ B \in Seq(Text)
  BY DEF Text
<1>1. PICK t, x, u, v : t = B \o d /\ x = c \o t /\ u = B \o x /\ v = b \o u
  OBVIOUS
<1>2. t \in Seq(Text)
  BY <1>0, <1>1, ConcatProperties
<1>3. x \in Seq(Text)
  BY <1>0, <1>1, <1>2, ConcatProperties
<1>4. u \in Seq(Text)
  BY <1>0, <1>1, <1>3, ConcatProperties
<1>5. v \in Seq(Text)
  BY <1>0, <1>1, <1>4, ConcatProperties
<1>6. PICK p1, p2, p3, p4 : p1 = a \o B /\ p2 = p1 \o b /\ p3 = p2 \o B /\ p4 = p3 \o c
  OBVIOUS
<1>7. p1 \in Seq(Text)
  BY <1>0, <1>6, ConcatProperties
<1>8. p2 \in Seq(Text)
  BY <1>0, <1>6, <1>7, ConcatProperties
<1>9. p3 \in Seq(Text)
  BY <1>0, <1>6, <1>8, ConcatProperties
<1>10. p4 \in Seq(Text)
  BY <1>0, <1>6, <1>9, ConcatProperties
<1>11. (p4 \o B) \o d = p4 \o (B \o d)
  <2>1. p4 \in Seq(Text) /\ B \in Seq(Text) /\ d \in Seq(Text)
    BY ONLY <1>0, <1>10
  <2> QED BY ONLY <2>1, TextAssociates
<1>12. (p3 \o c) \o t = p3 \o (c \o t)
  <2>1. p3 \in Seq(Text) /\ c \in Seq(Text) /\ t \in Seq(Text)
    BY ONLY <1>0, <1>2, <1>9
  <2> QED BY ONLY <2>1, TextAssociates
<1>13. (p2 \o B) \o x = p2 \o (B \o x)
  <2>1. p2 \in Seq(Text) /\ B \in Seq(Text) /\ x \in Seq(Text)
    BY ONLY <1>0, <1>3, <1>8
  <2> QED BY ONLY <2>1, TextAssociates
<1>14. (p1 \o b) \o u = p1 \o (b \o u)
  <2>1. p1 \in Seq(Text) /\ b \in Seq(Text) /\ u \in Seq(Text)
    BY ONLY <1>0, <1>4, <1>7
  <2> QED BY ONLY <2>1, TextAssociates
<1>15. (a \o B) \o v = a \o (B \o v)
  BY ONLY <1>0, <1>5, TextAssociates
<1>16. a \o B \o b \o B \o c \o B \o d = a \o (B \o v)
  BY ONLY <1>1, <1>6, <1>11, <1>12, <1>13, <1>14, <1>15
<1>17. identityOf(k) = a \o B \o b \o B \o c \o B \o d
  BY DEF identityOf
<1>18. v = Joined(b, Joined(c, d))
  BY <1>1 DEF Joined
<1> QED BY <1>16, <1>17, <1>18 DEF Joined

(* Two sites have one identity exactly when they have one quota key.        *)
LEMMA IdentityIsKey ==
  ASSUME RegistryTypes, NEW s \in Site, NEW u \in Site PROVE Quota(s) = Quota(u) <=> key[s] = key[u]
<1>1. PICK k \in QuotaKey, l \in QuotaKey : k = key[s] /\ l = key[u]
  BY DEF RegistryTypes
<1>2. k \in [provider : Seq(Symbol), baseUrl : Seq(Symbol), apiKey : Seq(Symbol), model : Seq(Symbol)]
  BY KeyAssumption
<1>3. l \in [provider : Seq(Symbol), baseUrl : Seq(Symbol), apiKey : Seq(Symbol), model : Seq(Symbol)]
  BY KeyAssumption
<1>4. PICK a \in Seq(Symbol), b \in Seq(Symbol), c \in Seq(Symbol), d \in Seq(Symbol) :
         a = k.provider /\ b = k.baseUrl /\ c = k.apiKey /\ d = k.model
  BY <1>2
<1>5. PICK e \in Seq(Symbol), f \in Seq(Symbol), g \in Seq(Symbol), h \in Seq(Symbol) :
         e = l.provider /\ f = l.baseUrl /\ g = l.apiKey /\ h = l.model
  BY <1>3
<1>6. ASSUME identityOf(k) = identityOf(l) PROVE k = l
  <2>1. \A p \in Seq(Symbol) : p \in Seq(Text)
    BY DEF Text
  <2>2. PICK x \in Seq(Text), v \in Seq(Text) : x = Joined(c, d) /\ v = Joined(b, x)
    BY <2>1, JoinedType
  <2>3. PICK y \in Seq(Text), w \in Seq(Text) : y = Joined(g, h) /\ w = Joined(f, y)
    BY <2>1, JoinedType
  <2>4. Joined(a, v) = Joined(e, w)
    BY <1>4, <1>5, <1>6, <2>1, <2>2, <2>3, IdentityJoins
  <2>5. a = e /\ v = w
    BY <2>4, JoinSplits
  <2>6. b = f /\ x = y
    <3>1. Joined(b, x) = Joined(f, y)
      BY <2>2, <2>3, <2>5
    <3> QED BY <3>1, JoinSplits
  <2>7. c = g /\ d = h
    <3>1. Joined(c, d) = Joined(g, h)
      BY <2>2, <2>3, <2>6
    <3> QED BY <3>1, <2>1, JoinSplits
  <2>8. /\ k = [provider |-> a, baseUrl |-> b, apiKey |-> c, model |-> d]
        /\ l = [provider |-> e, baseUrl |-> f, apiKey |-> g, model |-> h]
    BY <1>2, <1>3, <1>4, <1>5
  <2> QED BY <2>5, <2>6, <2>7, <2>8
<1> QED
  BY <1>1, <1>6 DEF Quota

LEMMA InitRegistry == Init => RegistryInv
  BY RegistryAssumption
  DEF Init, RegistryInv, RegistryTypes, EntriesOwn, SitesHold, Registered

LEMMA AppendType == ASSUME NEW s \in Site, NEW q \in Seq(Site) PROVE Append(q, s) \in Seq(Site)
  OBVIOUS

(* The entry a call of get adds or extends, beside those of other quotas.    *)
LEMMA GetStep == ASSUME RegistryInv, NEW s \in Site, get(s) PROVE RegistryInv'
<1> DEFINE id == Quota(s)
           known == id \in DOMAIN limiters
           entry == IF known THEN limiters[id]
                    ELSE [limiter |-> IF hasAnyLimit(limits[s]) THEN s ELSE NO_LIMIT,
                          limits |-> limits[s], callSites |-> <<>>]
           new == [entry EXCEPT !.callSites = Append(@, s)]
<1>0. /\ got[s] = NotYet
      /\ limiters' = [i \in DOMAIN limiters \union {id} |-> IF i = id THEN new ELSE limiters[i]]
      /\ got' = [got EXCEPT ![s] = entry.limiter]
      /\ conflicts' = IF limits[s] # entry.limits THEN conflicts \union {s} ELSE conflicts
      /\ UNCHANGED <<key, limits>>
  BY DEF get, Quota
<1>E. entry \in RegistryEntry
  BY DEF RegistryInv, RegistryTypes, RegistryEntry
<1> HIDE DEF entry
<1>2. new \in RegistryEntry /\ new.limiter = entry.limiter /\ new.limits = entry.limits
  BY <1>E, AppendType DEF RegistryEntry
<1> HIDE DEF new
<1>1. /\ DOMAIN limiters' = DOMAIN limiters \union {id}
      /\ limiters'[id] = new
      /\ \A i \in DOMAIN limiters : i # id => limiters'[i] = limiters[i]
  BY <1>0
<1>3. entry.limiter = NO_LIMIT \/ \E u \in Site : entry.limiter = u /\ Quota(u) = id
  BY DEF RegistryInv, EntriesOwn, entry
<1>4. \A u \in Site : Quota(u)' = Quota(u)
  BY <1>0 DEF Quota, identityOf
<1>5. RegistryTypes'
  BY <1>0, <1>1, <1>2, <1>E DEF RegistryInv, RegistryTypes, RegistryEntry
<1>6. EntriesOwn'
  BY <1>1, <1>2, <1>3, <1>4 DEF RegistryInv, EntriesOwn
<1>7. SitesHold'
  <2> SUFFICES ASSUME NEW u \in Site, got'[u] # NotYet
               PROVE /\ Quota(u) \in DOMAIN limiters'
                     /\ got'[u] = limiters'[Quota(u)].limiter
                     /\ limits[u] # limiters'[Quota(u)].limits => u \in conflicts'
    BY <1>0, <1>4 DEF SitesHold, Registered
  <2>1. CASE u = s
    BY <2>1, <1>0, <1>1, <1>2 DEF RegistryInv, RegistryTypes
  <2>2. CASE u # s
    <3>1. /\ got[u] # NotYet /\ got'[u] = got[u]
      BY <2>2, <1>0 DEF RegistryInv, RegistryTypes
    <3>2. /\ Quota(u) \in DOMAIN limiters
          /\ got[u] = limiters[Quota(u)].limiter
          /\ limits[u] # limiters[Quota(u)].limits => u \in conflicts
      BY <3>1 DEF RegistryInv, SitesHold, Registered
    <3>3. Quota(u) = id => entry = limiters[id]
      BY <3>2 DEF entry
    <3> QED BY <3>1, <3>2, <3>3, <1>0, <1>1, <1>2
  <2> QED BY <2>1, <2>2
<1> QED BY <1>5, <1>6, <1>7 DEF RegistryInv

(* The invariant is inductive.                                              *)
LEMMA RegistryInvariant == Spec => []RegistryInv
<1>1. RegistryInv /\ [Next]_vars => RegistryInv'
  <2> SUFFICES ASSUME RegistryInv, [Next]_vars PROVE RegistryInv'
    OBVIOUS
  <2>1. ASSUME NEW s \in Site, get(s) PROVE RegistryInv'
    BY <2>1, GetStep
  <2>2. CASE UNCHANGED vars
    BY <2>2 DEF vars, RegistryInv, RegistryTypes, EntriesOwn, SitesHold, Registered, Quota, identityOf
  <2> QED BY <2>1, <2>2 DEF Next
<1> QED BY <1>1, InitRegistry, PTL DEF Spec

LEMMA SharedBudget == RegistryInv => OneBudgetPerQuota
<1> SUFFICES ASSUME RegistryInv, NEW s \in Registered, NEW u \in Registered
             PROVE /\ key[s] = key[u] => got[s] = got[u]
                   /\ (key[s] # key[u] /\ got[s] = got[u]) => got[s] = NO_LIMIT
  BY DEF OneBudgetPerQuota
<1>1. s \in Site /\ u \in Site
  BY DEF Registered
<1>2. /\ Quota(s) \in DOMAIN limiters /\ got[s] = limiters[Quota(s)].limiter
      /\ Quota(u) \in DOMAIN limiters /\ got[u] = limiters[Quota(u)].limiter
  BY DEF RegistryInv, SitesHold
<1>3. Quota(s) = Quota(u) <=> key[s] = key[u]
  BY <1>1, IdentityIsKey DEF RegistryInv
<1>4. ASSUME got[s] = got[u], got[s] # NO_LIMIT PROVE Quota(s) = Quota(u)
  BY <1>2, <1>4 DEF RegistryInv, EntriesOwn
<1> QED BY <1>2, <1>3, <1>4

LEMMA Reported == RegistryInv => DisagreementIsReported
<1> SUFFICES ASSUME RegistryInv, NEW s \in Registered, NEW u \in Registered,
                    key[s] = key[u], limits[s] # limits[u]
             PROVE {s, u} \intersect conflicts # {}
  BY DEF DisagreementIsReported
<1>1. Quota(s) = Quota(u)
  BY DEF Quota
<1>2. /\ limits[s] # limiters[Quota(s)].limits => s \in conflicts
      /\ limits[u] # limiters[Quota(u)].limits => u \in conflicts
  BY DEF RegistryInv, SitesHold
<1> QED BY <1>1, <1>2

(* The sites of one quota hold one limiter, and no capped limiter serves    *)
(* two quotas: RateLimiterRegistry.get in whatever order it is called.      *)
THEOREM Budgets == Spec => []OneBudgetPerQuota
  BY RegistryInvariant, SharedBudget, PTL

(* Of two sites of a quota that configured different limits, one was        *)
(* reported (ratelimit.limits_conflict).                                    *)
THEOREM Disagreements == Spec => []DisagreementIsReported
  BY RegistryInvariant, Reported, PTL

-----------------------------------------------------------------------------
(* The routes *)


Types ==
  /\ HttpTypeOK
  /\ route \in [Request -> Route]
  /\ held \in [Request -> Nat]
  /\ image \in [Request -> [kind : {"none", "not_modified", "error", "page", "svg", "picture"}, whole : BOOLEAN]]
  /\ owed \in [Request -> SUBSET CartId] /\ fresh \subseteq CartId

(* Where a request may be, given what it asks for, and what it has by then.  *)
Placed(r) ==
  /\ at[r] \in {"members", "blobs"} => route[r].path = "orders"
  /\ at[r] \in {"lock", "get", "insert", "stamp"} => route[r].path = "confirm"
  /\ at[r] \in {"fetch", "body", "cancel"} => route[r].path = "image"
  /\ at[r] = "sent" => response[r] = "open"
  /\ at[r] # "done" => status[r] = Unanswered /\ orders[r] = {}

(* The upstream connection belongs to a request that asked for an image and  *)
(* whose response is open; what is buffered of a picture fits.              *)
Proxied(r) ==
  /\ upstream[r] # "none" => at[r] \in {"fetch", "body", "cancel", "done"}
  /\ at[r] = "body" => image[r].kind = "picture"
  /\ held[r] <= MaxImage
  /\ response[r] = "closed" => upstream[r] # "open"
  /\ (status[r] = 200 /\ upstream[r] # "none") => image[r] = [kind |-> "picture", whole |-> TRUE]

Confirmed == { c \in CartId : blob[c] = "confirmed" }

(* What a request for a list owes, at each of its awaits: first it is in the *)
(* index, then among the members read, then in the answer.                  *)
Listed(r) ==
  /\ (route[r].path = "confirm" /\ status[r] = 200) => route[r].cart \in Confirmed
  /\ at[r] = "members" => owed[r] \subseteq Of(route[r].device) \cap fresh \cap Confirmed
  /\ at[r] = "blobs" => /\ owed[r] \subseteq ids[r] \cap Confirmed
                        /\ ids[r] \subseteq Of(route[r].device)
  /\ (route[r].path = "orders" /\ status[r] = 200) =>
       /\ orders[r] \subseteq Of(route[r].device) \cap Confirmed
       /\ owed[r] \subseteq orders[r]

(* The index of a device holds carts of its own, all the fresh ones.         *)
Indexed(d) == index[d] \subseteq Of(d) /\ Of(d) \cap fresh \subseteq index[d]

IInv ==
  /\ Types
  /\ \A r \in Request : Placed(r) /\ Proxied(r) /\ Listed(r)
  /\ \A d \in Device : Indexed(d)

-----------------------------------------------------------------------------
(* Initially every request is sent and nothing is read, stored or buffered.  *)
LEMMA InitIInv == HttpInit => IInv
<1> SUFFICES ASSUME HttpInit PROVE IInv
  OBVIOUS
<1> USE DEF HttpInit, ImageInit, Unanswered
<1>1. HttpTypeOK
  BY DEF HttpTypeOK
<1>2. Types
  BY <1>1, HttpAssumption DEF Types
<1>3. ASSUME NEW r \in Request PROVE Placed(r) /\ Proxied(r) /\ Listed(r)
  <2>0. at[r] = "sent" /\ status[r] = 0 /\ upstream[r] = "none" /\ held[r] = 0
    OBVIOUS
  <2>1. Placed(r)
    BY <2>0 DEF Placed
  <2>2. Proxied(r)
    BY <2>0, ImageAssumption DEF Proxied, ImageAssumption
  <2>3. Listed(r)
    BY <2>0 DEF Listed
  <2> QED
    BY <2>1, <2>2, <2>3
<1>4. ASSUME NEW d \in Device PROVE Indexed(d)
  BY DEF Indexed
<1> QED
  BY <1>2, <1>3, <1>4 DEF IInv

(* What a step of request r leaves alone: all that belongs to the other       *)
(* requests, the indexes, and the carts that are confirmed already.          *)
Same(u) ==
  /\ at'[u] = at[u] /\ status'[u] = status[u] /\ response'[u] = response[u]
  /\ upstream'[u] = upstream[u] /\ held'[u] = held[u] /\ image'[u] = image[u]
  /\ ids'[u] = ids[u] /\ orders'[u] = orders[u] /\ owed'[u] = owed[u]
Frame(r) ==
  /\ UNCHANGED <<route, fresh, index>> /\ Confirmed \subseteq Confirmed'
  /\ \A u \in Request \ {r} : Same(u)

(* The other requests keep their part of the invariant.                     *)
LEMMA RequestStep ==
  ASSUME IInv, Types', NEW r \in Request, Frame(r), Placed(r)', Proxied(r)', Listed(r)'
  PROVE  IInv'
<1>1. ASSUME NEW u \in Request \ {r} PROVE Placed(u)' /\ Proxied(u)' /\ Listed(u)'
  <2> Same(u) /\ Placed(u) /\ Proxied(u) /\ Listed(u) /\ UNCHANGED <<route, fresh>> /\ Confirmed \subseteq Confirmed'
    BY DEF IInv, Frame
  <2>1. Placed(u)'
    BY DEF Placed, Same
  <2>2. Proxied(u)'
    BY DEF Proxied, Same
  <2>3. Listed(u)'
    BY DEF Listed, Same, Of
  <2> QED
    BY <2>1, <2>2, <2>3
<1>2. ASSUME NEW d \in Device PROVE Indexed(d)'
  BY DEF IInv, Indexed, Frame, Of
<1> QED
  BY <1>1, <1>2 DEF IInv

-----------------------------------------------------------------------------
(* The steps of a request.  Most of them answer or go on to the next await.   *)
At == {"sent", "lock", "get", "insert", "stamp", "members", "blobs", "rejected",
       "fetch", "body", "cancel", "done"}
Code == {Unanswered, 200, 304, 400, 404, 500, 502}

Moved(r) ==
  /\ at' \in [Request -> At] /\ status' \in [Request -> Code]
  /\ response' \in [Request -> {"open", "ended", "closed"}]
  /\ \A u \in Request \ {r} : at'[u] = at[u] /\ status'[u] = status[u] /\ response'[u] = response[u]
  /\ at'[r] # "sent"
  /\ at'[r] = "done" \/ status'[r] = status[r]
  /\ response'[r] = "closed" <=> response[r] = "closed"

LEMMA AnswerMoves ==
  ASSUME Types, NEW r \in Request, NEW code \in Code, Answer(r, code)
  PROVE  Moved(r) /\ at'[r] = "done" /\ status'[r] \in {status[r], code}
<1>1. /\ at \in [Request -> At] /\ status \in [Request -> Code]
      /\ response \in [Request -> {"open", "ended", "closed"}]
  BY DEF Types, HttpTypeOK, At, Code
<1> QED
  BY <1>1 DEF Answer, Moved, At

LEMMA GoOnMoves ==
  ASSUME Types, NEW r \in Request, NEW next \in At \ {"sent"}, GoOn(r, next)
  PROVE  Moved(r) /\ at'[r] = next /\ status'[r] = status[r]
<1>1. /\ at \in [Request -> At] /\ status \in [Request -> Code]
      /\ response \in [Request -> {"open", "ended", "closed"}]
  BY DEF Types, HttpTypeOK, At, Code
<1> QED
  BY <1>1 DEF GoOn, Moved, At

LEMMA ConfirmStep ==
  ASSUME IInv, NEW r \in Request, confirm(r)
  PROVE  IInv'
<1> USE DEF redisVars, processVars, readVars, imageVars
<1>0. Types /\ Placed(r) /\ Proxied(r) /\ Listed(r)
  BY DEF IInv
<1>1. Moved(r) /\ at'[r] \in {"get", "rejected"} /\ status'[r] = Unanswered
  BY <1>0, AnswerMoves, GoOnMoves DEF confirm, Issue, At, Code, Placed, Unanswered
<1>2. Types'
  BY <1>0, <1>1 DEF confirm, Moved, At, Code, Types, HttpTypeOK
<1>3. Frame(r)
  BY <1>0, <1>1 DEF confirm, Moved, Frame, Same, Confirmed, Types, HttpTypeOK
<1>4. Placed(r)'
  BY <1>0, <1>1 DEF confirm, Moved, Placed, Types, HttpTypeOK
<1>5. Proxied(r)'
  BY <1>0, <1>1 DEF confirm, Moved, Proxied, Placed, Unanswered, Types, HttpTypeOK
<1>6. Listed(r)'
  BY <1>0, <1>1 DEF confirm, Moved, Listed, Placed, Confirmed, Unanswered, Of, Types, HttpTypeOK
<1> QED
  BY <1>2, <1>3, <1>4, <1>5, <1>6, RequestStep

LEMMA ConfirmGetStep ==
  ASSUME IInv, NEW r \in Request, confirmGet(r)
  PROVE  IInv'
<1> USE DEF redisVars, processVars, readVars, imageVars
<1>0. Types /\ Placed(r) /\ Proxied(r) /\ Listed(r)
  BY DEF IInv
<1>1. Moved(r) /\ at'[r] \in {"insert", "done"} /\ (status'[r] = 200 => blob[route[r].cart] = "confirmed")
  <2> DEFINE cart == blob[route[r].cart]
  <2>1. cart \in {"none", "draft", "confirmed"} /\ status[r] = Unanswered
    BY <1>0 DEF confirmGet, Placed, Types, HttpTypeOK, Route
  <2>2. CASE cart = "none"
    <3>1. Answer(r, 404)
      BY <2>2 DEF confirmGet
    <3> QED
      BY <1>0, <2>1, <3>1, AnswerMoves DEF Code, Unanswered
  <2>3. CASE cart = "confirmed"
    <3>1. Answer(r, 200)
      BY <2>3 DEF confirmGet
    <3> QED
      BY <1>0, <2>3, <3>1, AnswerMoves DEF Code
  <2>4. CASE cart = "draft"
    <3>1. GoOn(r, "insert")
      BY <2>4 DEF confirmGet
    <3> QED
      BY <1>0, <2>1, <3>1, GoOnMoves DEF At, Unanswered
  <2> QED
    BY <2>1, <2>2, <2>3, <2>4
<1>2. Types'
  BY <1>0, <1>1 DEF confirmGet, Moved, At, Code, Types, HttpTypeOK, Route
<1>3. Frame(r)
  BY <1>0, <1>1 DEF confirmGet, Moved, Frame, Same, Confirmed, Types, HttpTypeOK, Route
<1>4. Placed(r)'
  BY <1>0, <1>1 DEF confirmGet, Moved, Placed, Types, HttpTypeOK
<1>5. Proxied(r)'
  BY <1>0, <1>1 DEF confirmGet, Moved, Proxied, Placed, Unanswered, Types, HttpTypeOK
<1>6. Listed(r)'
  <2>1. route[r].path = "confirm" /\ route[r].cart \in CartId /\ UNCHANGED <<route, blob>>
    BY <1>0 DEF confirmGet, Placed, Types, Route
  <2>2. status'[r] = 200 => route[r].cart \in Confirmed'
    BY <1>1, <2>1 DEF Confirmed
  <2> QED
    BY <1>1, <2>1, <2>2 DEF Listed
<1> QED
  BY <1>2, <1>3, <1>4, <1>5, <1>6, RequestStep

LEMMA InsertStep ==
  ASSUME IInv, NEW r \in Request, insertCart(r)
  PROVE  IInv'
<1> USE DEF redisVars, processVars, readVars, imageVars
<1>0. Types /\ Placed(r) /\ Proxied(r) /\ Listed(r)
  BY DEF IInv
<1>1. Moved(r) /\ at'[r] \in {"stamp", "rejected", "done"} /\ status'[r] # 200
  BY <1>0, AnswerMoves, GoOnMoves DEF insertCart, Issue, At, Code, Placed, Unanswered
<1>2. Types'
  BY <1>0, <1>1 DEF insertCart, Moved, At, Code, Types, HttpTypeOK
<1>3. Frame(r)
  BY <1>0, <1>1 DEF insertCart, Moved, Frame, Same, Confirmed, Types, HttpTypeOK
<1>4. Placed(r)'
  BY <1>0, <1>1 DEF insertCart, Moved, Placed, Types, HttpTypeOK
<1>5. Proxied(r)'
  BY <1>0, <1>1 DEF insertCart, Moved, Proxied, Placed, Unanswered, Types, HttpTypeOK
<1>6. Listed(r)'
  BY <1>0, <1>1 DEF insertCart, Moved, Listed, Placed, Confirmed, Unanswered, Of, Types, HttpTypeOK
<1> QED
  BY <1>2, <1>3, <1>4, <1>5, <1>6, RequestStep

LEMMA ConfirmSetStep ==
  ASSUME IInv, NEW r \in Request, confirmSet(r)
  PROVE  IInv'
<1> USE DEF redisVars, processVars, readVars, imageVars
<1>0. Types /\ Placed(r) /\ Proxied(r) /\ Listed(r)
  BY DEF IInv
<1>1. Moved(r) /\ at'[r] = "done"
  BY <1>0, AnswerMoves, GoOnMoves DEF confirmSet, Issue, At, Code, Placed, Unanswered
<1>2. Types'
  <2>1. blob' \in [CartId -> {"none", "draft", "confirmed"}]
    BY <1>0 DEF confirmSet, Types, HttpTypeOK
  <2>2. UNCHANGED <<route, index, fresh, redis, process, stopping, ids, orders, owed, upstream, held, image>>
    BY DEF confirmSet
  <2> QED
    BY <1>0, <1>1, <2>1, <2>2 DEF Moved, At, Code, Types, HttpTypeOK
<1>3. Frame(r)
  BY <1>0, <1>1 DEF confirmSet, Moved, Frame, Same, Confirmed, Types, HttpTypeOK, Route
<1>4. Placed(r)'
  BY <1>0, <1>1 DEF confirmSet, Moved, Placed, Types, HttpTypeOK
<1>5. Proxied(r)'
  BY <1>0, <1>1 DEF confirmSet, Moved, Proxied, Placed, Unanswered, Types, HttpTypeOK
<1>6. Listed(r)'
  <2>1. route[r].path = "confirm" /\ route[r].cart \in CartId /\ UNCHANGED route
    BY <1>0 DEF confirmSet, Placed, Types, Route
  <2>2. route[r].cart \in Confirmed'
    BY <1>0, <2>1 DEF confirmSet, Confirmed, Types, HttpTypeOK
  <2> QED
    BY <1>1, <2>1, <2>2 DEF Listed
<1> QED
  BY <1>2, <1>3, <1>4, <1>5, <1>6, RequestStep

LEMMA GetOrdersStep ==
  ASSUME IInv, NEW r \in Request, getOrdersByDevice(r)
  PROVE  IInv'
<1> USE DEF redisVars, processVars, readVars, imageVars
<1>0. Types /\ Placed(r) /\ Proxied(r) /\ Listed(r)
  BY DEF IInv
<1>I. /\ route[r].path = "orders" /\ route[r].device \in Device
      /\ index[route[r].device] \in SUBSET CartId /\ Indexed(route[r].device)
      /\ ids' = [ids EXCEPT ![r] = index[route[r].device]]
      /\ UNCHANGED <<route, blob, index, fresh, orders, owed>>
  <2>1. route[r].path = "orders" /\ route[r].device \in Device
    BY <1>0 DEF getOrdersByDevice, Placed, Types, Route
  <2>2. index[route[r].device] \in SUBSET CartId /\ Indexed(route[r].device)
    BY <1>0, <2>1 DEF IInv, Types, HttpTypeOK
  <2> QED
    BY <2>1, <2>2 DEF getOrdersByDevice
<1>1. Moved(r) /\ at'[r] \in {"blobs", "rejected", "done"} /\ (status'[r] = 200 => ids'[r] = {})
  BY <1>0, AnswerMoves, GoOnMoves DEF getOrdersByDevice, Issue, At, Code, Placed, Unanswered
<1>2. Types'
  BY <1>0, <1>1, <1>I DEF getOrdersByDevice, Moved, At, Code, Types, HttpTypeOK
<1>3. Frame(r)
  BY <1>0, <1>1 DEF getOrdersByDevice, Moved, Frame, Same, Confirmed, Types, HttpTypeOK, Route
<1>4. Placed(r)'
  BY <1>0, <1>1 DEF getOrdersByDevice, Moved, Placed, Types, HttpTypeOK
<1>5. Proxied(r)'
  BY <1>0, <1>1 DEF getOrdersByDevice, Moved, Proxied, Placed, Unanswered, Types, HttpTypeOK
<1>6. Listed(r)'
  <2>1. at[r] = "members" /\ ids'[r] = index[route[r].device] /\ orders[r] = {}
    BY <1>0, <1>I DEF getOrdersByDevice, Placed, Types, HttpTypeOK
  <2>2. Of(route[r].device)' = Of(route[r].device) /\ Confirmed' = Confirmed
    BY <1>I DEF Of, Confirmed
  <2>3. owed[r] \subseteq ids'[r] \cap Confirmed /\ ids'[r] \subseteq Of(route[r].device)
    BY <1>0, <1>I, <2>1 DEF Listed, Indexed
  <2> QED
    BY <1>1, <1>I, <2>1, <2>2, <2>3 DEF Listed
<1> QED
  BY <1>2, <1>3, <1>4, <1>5, <1>6, RequestStep

LEMMA MgetStep ==
  ASSUME IInv, NEW r \in Request, mget(r)
  PROVE  IInv'
<1> USE DEF redisVars, processVars, readVars, imageVars
<1>0. Types /\ Placed(r) /\ Proxied(r) /\ Listed(r)
  BY DEF IInv
<1>1. Moved(r) /\ at'[r] = "done"
  BY <1>0, AnswerMoves, GoOnMoves DEF mget, Issue, At, Code, Placed, Unanswered
<1>2. Types'
  BY <1>0, <1>1 DEF mget, Moved, At, Code, Types, HttpTypeOK
<1>3. Frame(r)
  BY <1>0, <1>1 DEF mget, Moved, Frame, Same, Confirmed, Types, HttpTypeOK
<1>4. Placed(r)'
  BY <1>0, <1>1 DEF mget, Moved, Placed, Types, HttpTypeOK
<1>5. Proxied(r)'
  BY <1>0, <1>1 DEF mget, Moved, Proxied, Placed, Unanswered, Types, HttpTypeOK
<1>6. Listed(r)'
  BY <1>0, <1>1 DEF mget, Moved, Listed, Placed, Confirmed, Unanswered, Of, Types, HttpTypeOK
<1> QED
  BY <1>2, <1>3, <1>4, <1>5, <1>6, RequestStep

LEMMA RedisFailsStep ==
  ASSUME IInv, NEW r \in Request, redisFails(r)
  PROVE  IInv'
<1> USE DEF redisVars, processVars, readVars, imageVars
<1>0. Types /\ Placed(r) /\ Proxied(r) /\ Listed(r)
  BY DEF IInv
<1>1. Moved(r) /\ at'[r] = "done" /\ status'[r] # 200
  BY <1>0, AnswerMoves, GoOnMoves DEF redisFails, Issue, At, Code, Placed, Unanswered
<1>2. Types'
  BY <1>0, <1>1 DEF redisFails, Moved, At, Code, Types, HttpTypeOK
<1>3. Frame(r)
  BY <1>0, <1>1 DEF redisFails, Moved, Frame, Same, Confirmed, Types, HttpTypeOK
<1>4. Placed(r)'
  BY <1>0, <1>1 DEF redisFails, Moved, Placed, Types, HttpTypeOK
<1>5. Proxied(r)'
  BY <1>0, <1>1 DEF redisFails, Moved, Proxied, Placed, Unanswered, Types, HttpTypeOK
<1>6. Listed(r)'
  BY <1>0, <1>1 DEF redisFails, Moved, Listed, Placed, Confirmed, Unanswered, Of, Types, HttpTypeOK
<1> QED
  BY <1>2, <1>3, <1>4, <1>5, <1>6, RequestStep

LEMMA HeadersStep ==
  ASSUME IInv, NEW r \in Request, headers(r), UNCHANGED <<route, redisVars, processVars, readVars>>
  PROVE  IInv'
<1> USE DEF redisVars, processVars, readVars, imageVars
<1>0. Types /\ Placed(r) /\ Proxied(r) /\ Listed(r)
  BY DEF IInv
<1>1. Moved(r) /\ at'[r] \in {"body", "done"} /\ status'[r] # 200 /\ (at'[r] = "body" => image'[r].kind = "picture")
  <2>1. PICK kind \in {"not_modified", "error", "page", "svg", "picture"}, tooLong \in BOOLEAN :
          /\ image' = [image EXCEPT ![r].kind = kind]
          /\ CASE kind = "not_modified" -> Answer(r, 304)
               [] kind = "picture" /\ ~tooLong -> GoOn(r, "body")
               [] OTHER -> Answer(r, 502)
    BY DEF headers
  <2>2. status[r] = Unanswered
    BY <1>0 DEF headers, Placed
  <2>3. CASE kind = "picture" /\ ~tooLong
    <3>1. GoOn(r, "body") /\ image'[r].kind = "picture"
      BY <1>0, <2>1, <2>3 DEF Types
    <3> QED
      BY <1>0, <2>2, <3>1, GoOnMoves DEF At, Unanswered
  <2>4. CASE ~(kind = "picture" /\ ~tooLong)
    <3>1. Answer(r, 304) \/ Answer(r, 502)
      BY <2>1, <2>4
    <3> QED
      BY <1>0, <2>2, <3>1, AnswerMoves DEF Code, Unanswered
  <2> QED
    BY <2>3, <2>4
<1>K. image' \in [Request -> [kind : {"none", "not_modified", "error", "page", "svg", "picture"}, whole : BOOLEAN]]
  BY <1>0 DEF headers, Types
<1>2. Types'
  BY <1>0, <1>1, <1>K DEF headers, Moved, At, Code, Types, HttpTypeOK
<1>3. Frame(r)
  BY <1>0, <1>1 DEF headers, Moved, Frame, Same, Confirmed, Types, HttpTypeOK
<1>4. Placed(r)'
  BY <1>0, <1>1 DEF headers, Moved, Placed, Types, HttpTypeOK
<1>5. Proxied(r)'
  BY <1>0, <1>1 DEF headers, Moved, Proxied, Placed, Unanswered, Types, HttpTypeOK
<1>6. Listed(r)'
  BY <1>0, <1>1 DEF headers, Moved, Listed, Placed, Confirmed, Unanswered, Of, Types, HttpTypeOK
<1> QED
  BY <1>2, <1>3, <1>4, <1>5, <1>6, RequestStep

LEMMA ReadStep ==
  ASSUME IInv, NEW r \in Request, readCapped(r), UNCHANGED <<route, redisVars, processVars, readVars>>
  PROVE  IInv'
<1> USE DEF redisVars, processVars, readVars, imageVars
<1>0. Types /\ Placed(r) /\ Proxied(r) /\ Listed(r)
  BY DEF IInv
<1>1. Moved(r) /\ at'[r] \in {"body", "cancel"} /\ status'[r] = Unanswered
  <2>1. at[r] = "body" /\ status[r] = Unanswered
    BY <1>0 DEF readCapped, Placed
  <2>2. CASE UNCHANGED requestVars
    BY <1>0, <2>1, <2>2 DEF Moved, requestVars, Types, HttpTypeOK, At, Code
  <2>3. CASE GoOn(r, "cancel")
    BY <1>0, <2>1, <2>3, GoOnMoves DEF At
  <2> QED
    BY <2>2, <2>3 DEF readCapped
<1>2. Types'
  BY <1>0, <1>1 DEF readCapped, Moved, At, Code, Types, HttpTypeOK
<1>3. Frame(r)
  BY <1>0, <1>1 DEF readCapped, Moved, Frame, Same, Confirmed, Types, HttpTypeOK
<1>4. Placed(r)'
  BY <1>0, <1>1 DEF readCapped, Moved, Placed, Types, HttpTypeOK
<1>5. Proxied(r)'
  BY <1>0, <1>1 DEF readCapped, Moved, Proxied, Placed, Unanswered, Types, HttpTypeOK
<1>6. Listed(r)'
  BY <1>0, <1>1 DEF readCapped, Moved, Listed, Placed, Confirmed, Unanswered, Of, Types, HttpTypeOK
<1> QED
  BY <1>2, <1>3, <1>4, <1>5, <1>6, RequestStep

LEMMA BodyEndsStep ==
  ASSUME IInv, NEW r \in Request, bodyEnds(r), UNCHANGED <<route, redisVars, processVars, readVars>>
  PROVE  IInv'
<1> USE DEF redisVars, processVars, readVars, imageVars
<1>0. Types /\ Placed(r) /\ Proxied(r) /\ Listed(r)
  BY DEF IInv
<1>1. Moved(r) /\ at'[r] = "done"
  BY <1>0, AnswerMoves, GoOnMoves DEF bodyEnds, Issue, At, Code, Placed, Unanswered
<1>K. /\ image' = [image EXCEPT ![r].whole = TRUE]
      /\ image' \in [Request -> [kind : {"none", "not_modified", "error", "page", "svg", "picture"}, whole : BOOLEAN]]
      /\ image'[r].whole = TRUE /\ image'[r].kind = image[r].kind
  BY <1>0 DEF bodyEnds, Types
<1>2. Types'
  BY <1>0, <1>1, <1>K DEF bodyEnds, Moved, At, Code, Types, HttpTypeOK
<1>3. Frame(r)
  BY <1>0, <1>1 DEF bodyEnds, Moved, Frame, Same, Confirmed, Types, HttpTypeOK
<1>4. Placed(r)'
  BY <1>0, <1>1 DEF bodyEnds, Moved, Placed, Types, HttpTypeOK
<1>5. Proxied(r)'
  <2>1. image[r] \in [kind : {"none", "not_modified", "error", "page", "svg", "picture"}, whole : BOOLEAN]
        /\ image'[r] \in [kind : {"none", "not_modified", "error", "page", "svg", "picture"}, whole : BOOLEAN]
    BY <1>0, <1>K DEF Types
  <2>2. image'[r] = [kind |-> "picture", whole |-> TRUE]
    BY <1>0, <1>K, <2>1 DEF bodyEnds, Proxied
  <2>3. upstream'[r] = "closed" /\ at'[r] = "done" /\ held' = held
    BY <1>0, <1>1 DEF bodyEnds, Types, HttpTypeOK
  <2> QED
    BY <1>0, <2>2, <2>3 DEF Proxied
<1>6. Listed(r)'
  BY <1>0, <1>1 DEF bodyEnds, Moved, Listed, Placed, Confirmed, Unanswered, Of, Types, HttpTypeOK
<1> QED
  BY <1>2, <1>3, <1>4, <1>5, <1>6, RequestStep

LEMMA FailsStep ==
  ASSUME IInv, NEW r \in Request, fails(r), UNCHANGED <<route, redisVars, processVars, readVars>>
  PROVE  IInv'
<1> USE DEF redisVars, processVars, readVars, imageVars
<1>0. Types /\ Placed(r) /\ Proxied(r) /\ Listed(r)
  BY DEF IInv
<1>1. Moved(r) /\ at'[r] = "done" /\ status'[r] # 200
  BY <1>0, AnswerMoves, GoOnMoves DEF fails, Issue, At, Code, Placed, Unanswered
<1>2. Types'
  BY <1>0, <1>1 DEF fails, Moved, At, Code, Types, HttpTypeOK
<1>3. Frame(r)
  BY <1>0, <1>1 DEF fails, Moved, Frame, Same, Confirmed, Types, HttpTypeOK
<1>4. Placed(r)'
  BY <1>0, <1>1 DEF fails, Moved, Placed, Types, HttpTypeOK
<1>5. Proxied(r)'
  BY <1>0, <1>1 DEF fails, Moved, Proxied, Placed, Unanswered, Types, HttpTypeOK
<1>6. Listed(r)'
  BY <1>0, <1>1 DEF fails, Moved, Listed, Placed, Confirmed, Unanswered, Of, Types, HttpTypeOK
<1> QED
  BY <1>2, <1>3, <1>4, <1>5, <1>6, RequestStep

(* A 200 to a confirm means a confirmed cart, so what a list is promised is   *)
(* in the index when the request for it is taken.                            *)
LEMMA RouterStep ==
  ASSUME IInv, NEW r \in Request, createHttpRouter(r)
  PROVE  IInv'
<1>0. Types /\ Placed(r) /\ Proxied(r) /\ Listed(r)
  BY DEF IInv
<1>1. /\ at[r] = "sent" /\ status[r] = Unanswered /\ response[r] = "open" /\ upstream[r] = "none" /\ orders[r] = {}
      /\ UNCHANGED <<route, blob, index, fresh, redis, process, listening, stopping, ids, orders>>
  BY <1>0 DEF createHttpRouter, redisVars, processVars, Placed, Proxied
<1>2. CASE route[r].path = "confirm"
  <2>1. GoOn(r, "lock") /\ UNCHANGED <<upstream, held, image, owed>>
    BY <1>2 DEF createHttpRouter, imageVars
  <2>2. Moved(r) /\ at'[r] = "lock" /\ status'[r] = Unanswered
    BY <1>0, <1>1, <2>1, GoOnMoves DEF At
  <2>3. Types'
    <3>1. HttpTypeOK'
      BY <1>0, <1>1, <2>1, <2>2 DEF Moved, At, Code, Types, HttpTypeOK
    <3> QED
      BY <1>0, <1>1, <2>1, <3>1 DEF Types
  <2>4. Frame(r)
    BY <1>0, <1>1, <2>1, <2>2 DEF Moved, Frame, Same, Confirmed, Types, HttpTypeOK
  <2>5. Placed(r)' /\ Proxied(r)'
    BY <1>0, <1>1, <1>2, <2>1, <2>2 DEF Moved, Placed, Proxied, Unanswered, Types, HttpTypeOK
  <2>6. Listed(r)'
    BY <1>1, <1>2, <2>2 DEF Listed, Unanswered
  <2> QED
    BY <2>3, <2>4, <2>5, <2>6, RequestStep
<1>3. CASE route[r].path = "orders"
  <2> DEFINE d == route[r].device
  <2>1. d \in Device
    BY <1>0, <1>3 DEF Types, Route
  <2>2. Issue(r, "members") /\ UNCHANGED <<upstream, held, image>> /\ owed' = [owed EXCEPT ![r] = Promised(d)]
    BY <1>3 DEF createHttpRouter, imageVars
  <2>3. Moved(r) /\ at'[r] \in {"members", "rejected"} /\ status'[r] = Unanswered
    BY <1>0, <1>1, <2>2, GoOnMoves DEF Issue, At
  <2>4. Promised(d) \subseteq Of(d) \cap fresh \cap Confirmed
    BY DEF IInv, Listed, Promised, Confirming
  <2>5. Promised(d) \subseteq CartId
    BY <2>4 DEF Of
  <2>6. owed' \in [Request -> SUBSET CartId] /\ owed'[r] = Promised(d) /\ \A u \in Request \ {r} : owed'[u] = owed[u]
    BY <1>0, <2>2, <2>5 DEF Types
  <2>7. Types'
    BY <1>0, <1>1, <2>2, <2>3, <2>6 DEF Moved, At, Code, Types, HttpTypeOK
  <2>8. Frame(r)
    BY <1>0, <1>1, <2>2, <2>3, <2>6 DEF Moved, Frame, Same, Confirmed
  <2>9. Placed(r)' /\ Proxied(r)'
    BY <1>0, <1>1, <1>3, <2>2, <2>3 DEF Moved, Placed, Proxied, Unanswered
  <2>10. Listed(r)'
    BY <1>1, <1>3, <2>3, <2>4, <2>6 DEF Listed, Of, Confirmed, Unanswered
  <2> QED
    BY <2>7, <2>8, <2>9, <2>10, RequestStep
<1>4. CASE route[r].path = "image"
  <2>1. GoOn(r, "fetch") /\ upstream' = [upstream EXCEPT ![r] = "open"] /\ UNCHANGED <<held, image, owed>>
    BY <1>4 DEF createHttpRouter, fetchImage
  <2>2. Moved(r) /\ at'[r] = "fetch" /\ status'[r] = Unanswered
    BY <1>0, <1>1, <2>1, GoOnMoves DEF At
  <2>3. Types'
    <3>1. upstream' \in [Request -> {"none", "open", "closed"}]
      BY <1>0, <2>1 DEF Types, HttpTypeOK
    <3>2. HttpTypeOK'
      BY <1>0, <1>1, <2>2, <3>1 DEF Moved, At, Code, Types, HttpTypeOK
    <3> QED
      BY <1>0, <1>1, <2>1, <3>2 DEF Types
  <2>4. Frame(r)
    BY <1>0, <1>1, <2>1, <2>2 DEF Moved, Frame, Same, Confirmed, Types, HttpTypeOK
  <2>5. Placed(r)' /\ Proxied(r)'
    BY <1>0, <1>1, <1>4, <2>1, <2>2 DEF Moved, Placed, Proxied, Unanswered, Types, HttpTypeOK
  <2>6. Listed(r)'
    BY <1>1, <1>4, <2>2 DEF Listed, Unanswered
  <2> QED
    BY <2>3, <2>4, <2>5, <2>6, RequestStep
<1>5. CASE route[r].path \in {"malformed", "unknown"}
  <2>1. (Answer(r, 400) \/ Answer(r, 404)) /\ UNCHANGED <<upstream, held, image, owed>>
    <3>1. CASE route[r].path = "malformed"
      BY <3>1 DEF createHttpRouter, imageVars
    <3>2. CASE route[r].path = "unknown"
      BY <3>2 DEF createHttpRouter, imageVars
    <3> QED
      BY <1>5, <3>1, <3>2
  <2>2. Moved(r) /\ at'[r] = "done" /\ status'[r] # 200
    BY <1>0, <1>1, <2>1, AnswerMoves DEF Code, Unanswered
  <2>3. Types'
    <3>1. HttpTypeOK'
      BY <1>0, <1>1, <2>1, <2>2 DEF Moved, At, Code, Types, HttpTypeOK
    <3> QED
      BY <1>0, <1>1, <2>1, <3>1 DEF Types
  <2>4. Frame(r)
    BY <1>0, <1>1, <2>1, <2>2 DEF Moved, Frame, Same, Confirmed, Types, HttpTypeOK
  <2>5. Placed(r)' /\ Proxied(r)'
    BY <1>0, <1>1, <1>5, <2>1, <2>2 DEF Moved, Placed, Proxied, Unanswered, Types, HttpTypeOK
  <2>6. Listed(r)'
    BY <1>1, <1>5, <2>2 DEF Listed, Unanswered
  <2> QED
    BY <2>3, <2>4, <2>5, <2>6, RequestStep
<1>6. CASE route[r].path = "health"
  <2>1. Answer(r, 200) /\ UNCHANGED <<upstream, held, image, owed>>
    BY <1>6 DEF createHttpRouter, imageVars
  <2>2. Moved(r) /\ at'[r] = "done" /\ status'[r] \in {status[r], 200}
    BY <1>0, <1>1, <2>1, AnswerMoves DEF Code, Unanswered
  <2>3. Types'
    <3>1. HttpTypeOK'
      BY <1>0, <1>1, <2>1, <2>2 DEF Moved, At, Code, Types, HttpTypeOK
    <3> QED
      BY <1>0, <1>1, <2>1, <3>1 DEF Types
  <2>4. Frame(r)
    BY <1>0, <1>1, <2>1, <2>2 DEF Moved, Frame, Same, Confirmed, Types, HttpTypeOK
  <2>5. Placed(r)' /\ Proxied(r)'
    BY <1>0, <1>1, <1>6, <2>1, <2>2 DEF Moved, Placed, Proxied, Unanswered, Types, HttpTypeOK
  <2>6. Listed(r)'
    BY <1>0, <1>1, <1>6, <2>2 DEF Listed, Unanswered
  <2> QED
    BY <2>3, <2>4, <2>5, <2>6, RequestStep
<1> QED
  BY <1>0, <1>2, <1>3, <1>4, <1>5, <1>6 DEF Types, Route

LEMMA CloseStep ==
  ASSUME IInv, NEW r \in Request, close(r)
  PROVE  IInv'
<1> USE DEF close, closes, redisVars, processVars, readVars
<1>0. Types /\ Placed(r) /\ Proxied(r) /\ Listed(r)
  BY DEF IInv
<1>1. Types'
  BY <1>0 DEF Types, HttpTypeOK
<1>2. Frame(r)
  BY <1>0 DEF Frame, Same, Types, HttpTypeOK, Confirmed
<1>3. Placed(r)'
  BY <1>0 DEF Placed, Types, HttpTypeOK
<1>4. Proxied(r)'
  BY <1>0 DEF Proxied, Types, HttpTypeOK
<1>5. Listed(r)'
  BY <1>0 DEF Listed, Of, Confirmed
<1> QED
  BY <1>1, <1>2, <1>3, <1>4, <1>5, RequestStep

LEMMA ServeStep ==
  ASSUME IInv, NEW r \in Request, createHttpRouter(r) \/ Serve(r) \/ close(r)
  PROVE  IInv'
  BY RouterStep, CloseStep, ConfirmStep, ConfirmGetStep, InsertStep, ConfirmSetStep, GetOrdersStep, MgetStep,
     RedisFailsStep, HeadersStep, ReadStep, BodyEndsStep, FailsStep
  DEF Serve, ProxyStep

-----------------------------------------------------------------------------
(* The carts, the indexes and the process.                                   *)
LEMMA CommitStep ==
  ASSUME IInv, NEW c \in CartId, commit(c)
  PROVE  IInv'
<1>0. /\ blob[c] # "confirmed" /\ blob' = [blob EXCEPT ![c] = "draft"] /\ fresh' = fresh \union {c}
      /\ index' = [d \in Device |-> IF DeviceOf[c] = d THEN index[d] \union {c} ELSE index[d]]
      /\ UNCHANGED <<at, status, response, upstream, held, image, route, redis, process, listening, stopping,
                     ids, orders, owed>>
  BY DEF commit, requestVars, imageVars, processVars, readVars
<1>1. Types'
  BY <1>0 DEF IInv, Types, HttpTypeOK
<1>2. Confirmed' = Confirmed
  BY <1>0 DEF IInv, Types, HttpTypeOK, Confirmed
<1>3. ASSUME NEW r \in Request PROVE Placed(r)' /\ Proxied(r)' /\ Listed(r)'
  <2>0. Placed(r) /\ Proxied(r) /\ Listed(r)
    BY DEF IInv
  <2>1. Placed(r)' /\ Proxied(r)'
    BY <1>0, <2>0 DEF Placed, Proxied
  <2>2. Listed(r)'
    BY <1>0, <1>2, <2>0 DEF Listed, Of
  <2> QED
    BY <2>1, <2>2
<1>4. ASSUME NEW d \in Device PROVE Indexed(d)'
  BY <1>0 DEF IInv, Indexed, Of
<1> QED
  BY <1>1, <1>3, <1>4 DEF IInv

(* A cart has one device: what expires is owed by its lists only.            *)
LEMMA ExpireStep ==
  ASSUME IInv, NEW d \in Device, expire(d)
  PROVE  IInv'
<1>0. /\ index' = [index EXCEPT ![d] = {}] /\ fresh' = fresh \ Of(d)
      /\ owed' = [r \in Request |-> IF at[r] = "members" THEN owed[r] \ Of(d) ELSE owed[r]]
      /\ UNCHANGED <<at, status, response, upstream, held, image, route, blob, redis, process, listening, stopping,
                     ids, orders>>
  BY DEF expire, requestVars, imageVars, processVars
<1>1. Types'
  BY <1>0 DEF IInv, Types, HttpTypeOK
<1>2. ASSUME NEW r \in Request PROVE Placed(r)' /\ Proxied(r)' /\ Listed(r)'
  <2>0. Placed(r) /\ Proxied(r) /\ Listed(r)
    BY DEF IInv
  <2>1. Placed(r)' /\ Proxied(r)'
    BY <1>0, <2>0 DEF Placed, Proxied
  <2>2. Listed(r)'
    BY <1>0, <2>0 DEF Listed, Of, Confirmed
  <2> QED
    BY <2>1, <2>2
<1>3. ASSUME NEW e \in Device PROVE Indexed(e)'
  BY <1>0 DEF IInv, Types, HttpTypeOK, Indexed, Of
<1> QED
  BY <1>1, <1>2, <1>3 DEF IInv

LEMMA ProcessStep ==
  ASSUME IInv, start \/ \E k \in Signal : stop(k) \/ closeRedisClient(k) \/ closePgPool(k)
  PROVE  IInv'
<1>0. UNCHANGED <<at, status, response, upstream, held, image, route, blob, index, fresh, ids, orders, owed>>
  BY DEF start, stop, closeRedisClient, closePgPool, requestVars, imageVars, redisVars, readVars
<1>1. HttpTypeOK
  BY DEF IInv, Types
<1>2. /\ redis' \in {"open", "quit", "closed"} /\ process' \in {"booting", "up", "exited"}
      /\ stopping' \in [Signal -> {"no", "redis", "pool", "exit"}]
  BY <1>1 DEF start, stop, closeRedisClient, closePgPool, HttpTypeOK
<1>3. HttpTypeOK'
  BY <1>0, <1>1, <1>2 DEF HttpTypeOK
<1>4. Types'
  BY <1>0, <1>3 DEF IInv, Types
<1> QED
  BY <1>0, <1>4 DEF IInv, Placed, Proxied, Listed, Indexed, Of, Confirmed

-----------------------------------------------------------------------------
(* The invariant holds in every reachable state.                            *)
LEMMA Inductive == IInv /\ [HttpNext]_httpVars => IInv'
<1> SUFFICES ASSUME IInv, [HttpNext]_httpVars PROVE IInv'
  OBVIOUS
<1>1. CASE UNCHANGED httpVars
  BY <1>1 DEF httpVars, requestVars, imageVars, redisVars, processVars, readVars,
              IInv, Types, HttpTypeOK, Placed, Proxied, Listed, Indexed, Of, Confirmed
<1>2. CASE HttpNext
  BY <1>2, ServeStep, CommitStep, ExpireStep, ProcessStep DEF HttpNext
<1> QED
  BY <1>1, <1>2

(* The image proxy (fetchImage and readCapped of odoo-image-client.ts,       *)
(* proxyImage of http-router.ts) never buffers more than the cap, never      *)
(* keeps an upstream connection for a closed response, and answers 200 with  *)
(* a whole picture only.                                                    *)
THEOREM ProxyIsBounded == HttpSpec => []ProxyBounded
<1>1. IInv => ProxyBounded
  BY DEF IInv, Proxied, ProxyBounded
<1> QED
  BY <1>1, InitIInv, Inductive, PTL DEF HttpSpec

(* The list of past orders (getOrdersByDevice of cart-repository.ts) holds    *)
(* confirmed carts of the device only, and every cart whose confirmation was *)
(* answered before and whose index has not expired.                          *)
THEOREM ConfirmedIsListed == HttpSpec => []ListedUnlessExpired
<1>1. IInv => ListedUnlessExpired
  BY DEF IInv, Listed, ListedUnlessExpired, Confirmed, Of
<1> QED
  BY <1>1, InitIInv, Inductive, PTL DEF HttpSpec
=============================================================================
