--------------------------- MODULE ProviderCalls ---------------------------
(***************************************************************************)
(* One call to a rate-limited provider: the reservation, the attempts made *)
(* under it, what each failure leaves behind, and how the reservation is   *)
(* closed.  Three clients share the shape: the LLM client (the SDK         *)
(* retries, only its last error is seen), the embedding client (retries    *)
(* itself, in post) and the speech client (one timer around the SDK).      *)
(*                                                                         *)
(* An error is its chain of causes, outermost first, each node with an     *)
(* HTTP status (0: none) and a socket code.                                *)
(***************************************************************************)
EXTENDS Integers, Sequences, FiniteSetsExt, SequencesExt, Functions

CONSTANTS Calls,
          Clients,           \* which clients the calls may be made by: functions
          Retries,           \* maxRetries of each client's transport
          NeverArrivedCodes, MaxCauseDepth,
          Statuses,          \* the HTTP statuses a provider answers with
          Headers,           \* the Retry-After headers a 429 comes with; see HeaderType
          Penalty429Ms, MaxPenaltyMs, RetryBackoffMs, MaxRetryBackoffMs,
          ZoneOffset,        \* the host's distance from GMT
          MaxClock           \* bound: the clock stops here, once no retry is due later

VARIABLES client,            \* client[c]: the client that makes c
          pc, attempt,
          answer,            \* the status of the answer to the current attempt
          header,            \* its Retry-After, which an SDK keeps with its error
          status, backoff, wake, lease, floor, now,
          heard,             \* history: what became of each attempt
          demands            \* history: until when the provider told which attempt to wait

vars == <<client, pc, attempt, answer, header, status, backoff, wake, lease, floor, now, heard, demands>>
call == <<attempt, answer, header, status, backoff, wake>>

Kinds == {"llm", "embedding", "tts"}
OK(s) == s \in 200..299
Smaller(a, b) == IF a < b THEN a ELSE b
Larger(a, b) == IF a > b THEN a ELSE b

(* A Retry-After header: not there or blank, a delay, one of the three ways  *)
(* RFC 7231 writes a date, digits that are no date though Date.parse makes  *)
(* one of them, or words that begin like one.  value is the delay, or what  *)
(* the clock shows that is written down.                                    *)
NoHeader == [form |-> "absent", value |-> 0]
HeaderType == [form : {"absent", "seconds", "imf", "rfc850", "asctime", "year", "words"}, value : Int]

ASSUME ProviderAssumption ==
  /\ Clients \subseteq [Calls -> Kinds] /\ Retries \in [Kinds -> Nat]
  /\ "ECONNREFUSED" \in NeverArrivedCodes /\ {"none", "ECONNRESET"} \cap NeverArrivedCodes = {}
  /\ MaxCauseDepth \in Nat /\ MaxCauseDepth >= 3   \* post's error, fetch's, the socket's
  /\ Statuses \subseteq 100..599
  /\ NoHeader \in Headers /\ Headers \subseteq HeaderType
  /\ \A h \in Headers : h.form = "seconds" => h.value >= 0
  /\ ZoneOffset \in Int
  /\ {Penalty429Ms, MaxPenaltyMs, RetryBackoffMs, MaxRetryBackoffMs} \subseteq Nat

-----------------------------------------------------------------------------
(* Errors.                                                                 *)
Node(s, code) == [status |-> s, code |-> code]
Plain == Node(0, "none")
ConnectFails == <<Plain, Node(0, "ECONNREFUSED")>>
Reset == <<Plain, Node(0, "ECONNRESET")>>
TimedOut == <<Plain>>
isHttpStatus(s) == s \in 100..599

(* Whether the provider counted the call: the first node that tells        *)
(* decides, and an error that tells nothing counts as arrived.             *)
reachedProvider(err) ==
  LET tells == { i \in 1..Smaller(Len(err), MaxCauseDepth) :
                   isHttpStatus(err[i].status) \/ err[i].code \in NeverArrivedCodes }
  IN tells = {} \/ isHttpStatus(err[Min(tells)].status)

is429(err) == Head(err).status = 429

(* The hold-off a 429 asks for.  A zone is what names itself; what does not  *)
(* is the host's, so asctime, which is GMT all the same, is named GMT first. *)
HTTP_DATE_PREFIX(h) == h.form \in {"imf", "rfc850", "asctime", "words"}
ASCTIME(h) == h.form = "asctime"
NamesZone(h) == h.form \in {"imf", "rfc850"}
isNaN(h) == h.form = "words"

\* Mutant: a date is parsed as it is written.
parsedAsIs(h) == h.value - (IF NamesZone(h) THEN 0 ELSE ZoneOffset)

parsed(h) == h.value - (IF NamesZone(h) \/ ASCTIME(h) THEN 0 ELSE ZoneOffset)

clamp(ms) == Smaller(MaxPenaltyMs, Larger(0, ms))
retryAfterMs(h) == CASE h.form = "absent" -> Penalty429Ms
                     [] h.form = "seconds" -> clamp(h.value)
                     [] OTHER -> IF HTTP_DATE_PREFIX(h) /\ ~isNaN(h) THEN clamp(parsed(h) - now) ELSE Penalty429Ms

(* A penalty only ever extends; the speech limiter has no bucket to floor. *)
penalize(k, wait) == floor' = [floor EXCEPT ![k] = IF k = "tts" THEN @ ELSE Larger(@, now + wait)]

(* What the provider means by the header of an answer it gives now, by RFC   *)
(* 7231 and no longer than a client may be held back: a delay from now, or an *)
(* instant; what means nothing leaves it to the client.                      *)
Meant(h) == CASE h.form = "seconds" -> now + Smaller(MaxPenaltyMs, h.value)
              [] h.form \in {"imf", "rfc850", "asctime"} -> Smaller(now + MaxPenaltyMs, h.value)
              [] OTHER -> now + Penalty429Ms

-----------------------------------------------------------------------------
Init ==
  /\ client \in Clients
  /\ pc = [c \in Calls |-> "idle"]
  /\ attempt = [c \in Calls |-> 0]
  /\ answer = [c \in Calls |-> 0]
  /\ header = [c \in Calls |-> NoHeader]
  /\ status = [c \in Calls |-> 0]
  /\ backoff = [c \in Calls |-> RetryBackoffMs]
  /\ wake = [c \in Calls |-> 0]
  /\ lease = [c \in Calls |-> "none"]
  /\ floor = [k \in Kinds |-> 0]
  /\ now = 0
  /\ heard = [c \in Calls |-> <<>>]
  /\ demands = {}

(* acquire: granted once no penalty holds its bucket, or refused by the    *)
(* limiter itself, in which case nothing was reserved and nothing is sent. *)
granted(c) ==
  /\ pc[c] = "idle" /\ now >= floor[client[c]]
  /\ pc' = [pc EXCEPT ![c] = "ready"]
  /\ lease' = [lease EXCEPT ![c] = "open"]
  /\ UNCHANGED <<client, call, floor, now, heard, demands>>

rate_limited(c) ==
  /\ pc[c] = "idle"
  /\ pc' = [pc EXCEPT ![c] = "failed"]
  /\ UNCHANGED <<client, call, lease, floor, now, heard, demands>>

(* One attempt goes out: the first, or a retry whose pause is over.        *)
send(c) ==
  /\ pc[c] = "ready" /\ now >= wake[c]
  /\ pc' = [pc EXCEPT ![c] = "flight"]
  /\ attempt' = [attempt EXCEPT ![c] = @ + 1]
  /\ answer' = [answer EXCEPT ![c] = 0]
  /\ header' = [header EXCEPT ![c] = NoHeader]
  /\ UNCHANGED <<client, status, backoff, wake, lease, floor, now, heard, demands>>

(* What became of an attempt: it never connected, nobody can tell, its      *)
(* answer was cut off, or its answer was read.                              *)
Note(c, how) == heard' = [heard EXCEPT ![c] = Append(@, [how |-> how, status |-> answer[c]])]

(* The call throws err to its caller: the lease is closed by whether err   *)
(* shows that the provider was reached.                                    *)
closed(c, err) ==
  /\ pc' = [pc EXCEPT ![c] = "failed"]
  /\ lease' = [lease EXCEPT ![c] = IF reachedProvider(err) THEN "settled" ELSE "abandoned"]

\* Mutant: the error thrown drops the failure behind it.
FailureAlone(s, err) == <<Node(s, "none")>>

(* post: a caught failure is retried after the backoff, or ends the call   *)
(* with the status seen so far and the last failure as the cause.          *)
Failure(s, err) == <<Node(s, "none")>> \o err

postCaught(c, s, err) ==
  /\ status' = [status EXCEPT ![c] = s]
  /\ IF attempt[c] <= Retries["embedding"]
     THEN /\ pc' = [pc EXCEPT ![c] = "ready"]
          /\ wake' = [wake EXCEPT ![c] = now + backoff[c]]
          /\ UNCHANGED lease
     ELSE closed(c, Failure(s, err)) /\ UNCHANGED wake

(* The SDKs retry by themselves what may pass, and throw the last error.   *)
Transient(err) == Head(err).status \in {0, 408, 409, 429} \union 500..599
sdkCaught(c, err) ==
  /\ IF Transient(err) /\ attempt[c] <= Retries[client[c]]
     THEN pc' = [pc EXCEPT ![c] = "ready"] /\ UNCHANGED lease
     ELSE closed(c, err)
  /\ UNCHANGED <<status, wake>>

\* Mutant: a network failure clears the status seen before.
Cleared(c) == 0

(* A network failure leaves the status alone: it must not undo a refusal.  *)
Kept(c) == status[c]

Caught(c, err) == IF client[c] = "embedding" THEN postCaught(c, Kept(c), err) ELSE sdkCaught(c, err)

(* No answer: the connection could not be made, or broke under the call.   *)
noAnswer(c) ==
  /\ pc[c] = "flight"
  /\ \E e \in {ConnectFails, Reset} :
       /\ Note(c, IF e = ConnectFails THEN "unsent" ELSE "unknown")
       /\ Caught(c, e)
  /\ UNCHANGED <<client, attempt, answer, header, backoff, floor, now, demands>>

\* Mutant: post's timer is cleared when the answer begins.
requestTimeoutHead(c) ==
  /\ pc[c] = "flight" /\ client[c] # "tts"
  /\ Note(c, "unknown")
  /\ Caught(c, TimedOut)
  /\ UNCHANGED <<client, attempt, answer, header, backoff, floor, now, demands>>

(* The client's own timer on one attempt, which needs no provider: post's     *)
(* signal aborts the body as well, the LLM's SDK waits for the head alone.   *)
requestTimeout(c) ==
  /\ (pc[c] = "flight" /\ client[c] # "tts") \/ (pc[c] = "body" /\ client[c] = "embedding")
  /\ Note(c, IF pc[c] = "flight" THEN "unknown" ELSE "cut")
  /\ Caught(c, TimedOut)
  /\ UNCHANGED <<client, attempt, answer, header, backoff, floor, now, demands>>

(* speakBounded: one timer for the whole of a synthesis, retries included. *)
ttsTimeout(c) ==
  /\ client[c] = "tts" /\ pc[c] \in {"ready", "flight", "body"}
  /\ closed(c, TimedOut)
  /\ UNCHANGED <<client, call, floor, now, heard, demands>>

Refusal(s) == s = 429

(* The head of the answer.  The embedding client floors its limiter on a   *)
(* 429 at once, before it reads the body.                                  *)
responds(c) ==
  /\ pc[c] = "flight"
  /\ \E s \in Statuses, h \in Headers :
       /\ s = 429 \/ h = NoHeader
       /\ answer' = [answer EXCEPT ![c] = s]
       /\ demands' = IF s = 429 THEN demands \union { [call |-> c, attempt |-> attempt[c], until |-> Meant(h)] }
                     ELSE demands
       /\ IF Refusal(s) /\ client[c] = "embedding"
          THEN /\ penalize("embedding", retryAfterMs(h))
               /\ backoff' = [backoff EXCEPT ![c] = Smaller(retryAfterMs(h), MaxRetryBackoffMs)]
               /\ UNCHANGED header
          ELSE header' = [header EXCEPT ![c] = h] /\ UNCHANGED <<floor, backoff>>
  /\ pc' = [pc EXCEPT ![c] = "body"]
  /\ UNCHANGED <<client, attempt, status, wake, lease, now, heard>>

succeeds(c) ==
  /\ pc[c] = "body" /\ OK(answer[c])
  /\ Note(c, "read")
  /\ pc' = [pc EXCEPT ![c] = "done"]
  /\ lease' = [lease EXCEPT ![c] = "settled"]
  /\ UNCHANGED <<client, call, floor, now, demands>>

(* The body of an error is read.  429 outranks every other status.  What     *)
(* cannot pass is thrown at once; but the catch around it lets only a 4xx    *)
(* out, and takes another for a failure of the network.                      *)
Ranked(c) == IF status[c] = 429 THEN 429 ELSE answer[c]
Terminal(s) == s # 429 /\ s < 500
Rethrown(s) == s \in 400..499

postRejected(c) ==
  /\ client[c] = "embedding" /\ pc[c] = "body" /\ ~OK(answer[c])
  /\ Note(c, "read")
  /\ LET err == <<Node(answer[c], "none")>> IN
       \/ ~Terminal(answer[c]) /\ postCaught(c, Ranked(c), <<Plain>>)
       \/ Terminal(answer[c]) /\ Rethrown(answer[c]) /\ closed(c, err) /\ UNCHANGED <<status, wake>>
       \/ Terminal(answer[c]) /\ ~Rethrown(answer[c]) /\ postCaught(c, Kept(c), err)
  /\ UNCHANGED <<client, attempt, answer, header, backoff, floor, now, demands>>

(* onCallFailed: only a final 429 floors the LLM's limiter.                *)
sdkRejected(c) ==
  /\ client[c] # "embedding" /\ pc[c] = "body" /\ ~OK(answer[c])
  /\ Note(c, "read")
  /\ sdkCaught(c, <<Node(answer[c], "none")>>)
  /\ IF client[c] = "llm" /\ pc'[c] = "failed" /\ is429(<<Node(answer[c], "none")>>)
     THEN penalize("llm", retryAfterMs(header[c])) ELSE UNCHANGED floor
  /\ UNCHANGED <<client, attempt, answer, header, backoff, now, demands>>

(* The body breaks off, or is not what it should be (json() throws): post   *)
(* catches that as it does a network failure, whatever the status was.  The  *)
(* SDK of the LLM makes an error of a status without its body.              *)
bodyFails(c) ==
  /\ pc[c] = "body" /\ (client[c] = "llm" => OK(answer[c]))
  /\ Note(c, "cut")
  /\ IF client[c] = "embedding" THEN postCaught(c, Kept(c), Reset)
     ELSE closed(c, Reset) /\ UNCHANGED <<status, wake>>
  /\ UNCHANGED <<client, attempt, answer, header, backoff, floor, now, demands>>

(* What becomes of an LLM's answer when fetch gives up a body that stalls.   *)
bodyTimeout(c) == client[c] = "llm" /\ (bodyFails(c) \/ sdkRejected(c))

Tick ==
  /\ now < MaxClock \/ \E c \in Calls : pc[c] = "ready" /\ now < wake[c]
  /\ now' = now + 1
  /\ UNCHANGED <<client, pc, call, lease, floor, heard, demands>>

Ended(c) == pc[c] \in {"done", "failed"}

Step(c) ==
  \/ granted(c) \/ rate_limited(c) \/ send(c) \/ noAnswer(c) \/ ttsTimeout(c)
  \/ requestTimeout(c) \/ responds(c) \/ succeeds(c) \/ postRejected(c)
  \/ sdkRejected(c) \/ bodyFails(c)

Next == Tick \/ \E c \in Calls : Step(c)

(* Time passes, the limiter answers by its deadline, a due retry is sent,  *)
(* and the timers of client and transport fire.  Nothing is asked of the   *)
(* provider.                                                               *)
Fairness ==
  /\ WF_vars(Tick)
  /\ \A c \in Calls : /\ WF_vars(rate_limited(c)) /\ WF_vars(send(c))
                      /\ WF_vars(requestTimeout(c)) /\ WF_vars(ttsTimeout(c))
                      /\ WF_vars(bodyTimeout(c))

Spec == Init /\ [][Next]_vars /\ Fairness

-----------------------------------------------------------------------------
(* Types; and a call holds its lease from the grant until it ends, so no   *)
(* attempt is ever outside a reservation and none is left behind.          *)
TypeOK ==
  /\ pc \in [Calls -> {"idle", "ready", "flight", "body", "done", "failed"}]
  /\ lease \in [Calls -> {"none", "open", "settled", "abandoned"}]
  /\ \A c \in Calls :
       /\ attempt[c] \in 0..(Retries[client[c]] + 1)
       /\ status[c] \in Statuses \union {0} /\ answer[c] \in Statuses \union {0}
       /\ (lease[c] = "open") <=> (pc[c] \in {"ready", "flight", "body"})

(* An embedding request the provider was heard to refuse or to fail stays  *)
(* charged, whatever became of the retry: post's status is sticky.         *)
Rejected(c) == \E i \in DOMAIN heard[c] : heard[c][i].how = "read" /\ heard[c][i].status >= 400
RejectionStaysCharged ==
  \A c \in Calls : (client[c] = "embedding" /\ lease[c] = "abandoned") => ~Rejected(c)

(* A call none of whose attempts could connect gets its reservation back:   *)
(* the code that proves it survives the wrapping.                           *)
Unsent(c) == \A i \in DOMAIN heard[c] : heard[c][i].how = "unsent"
UnsentIsRefunded ==
  \A c \in Calls : (pc[c] = "failed" /\ heard[c] # <<>> /\ client[c] # "tts" /\ Unsent(c))
                     => lease[c] = "abandoned"

(* The quota is charged for what the provider is known to have counted, and  *)
(* for nothing it is known not to have seen, through every retry and every  *)
(* wrapping of the error.                                                   *)
ChargedIfCounted == RejectionStaysCharged /\ UnsentIsRefunded

(* What the provider asked for in a 429 that reached the code around the     *)
(* limiter: an embedding's always, an LLM's when it ended the call, as the    *)
(* SDK keeps the others to itself.                                           *)
Heeded(k) ==
  { d \in demands : /\ client[d.call] = k
                    /\ \/ k = "embedding"
                       \/ /\ k = "llm" /\ pc[d.call] = "failed"
                          /\ answer[d.call] = 429 /\ attempt[d.call] = d.attempt }

(* No call is granted before the time a heeded refusal asked for, in whatever *)
(* form, is over, however many refusals came and in whichever order; an      *)
(* embedding waits no longer than that, and nothing but a 429 makes a client *)
(* wait.                                                                     *)
RefusalIsHonoured ==
  /\ \A k \in Kinds : \A d \in Heeded(k) : d.until <= floor[k]
  /\ \A k \in Kinds : floor[k] > now => Heeded(k) # {}
  /\ floor["embedding"] > now => \E d \in Heeded("embedding") : d.until = floor["embedding"]

(* Every call ends and gives its permit back, even when the provider never  *)
(* answers: each wait has a timer of the client's own.                      *)
CallEnds == \A c \in Calls : <>Ended(c)

(* What arrival.ts says of every refund: only what never left the process.  *)
RefundOnlyUnsent ==
  \A c \in Calls : lease[c] = "abandoned" => Unsent(c)

(* What post says of its retries: a 4xx other than 429 fails fast.          *)
FailsFastOn4xx ==
  \A c \in Calls : client[c] = "embedding" =>
    \A i \in DOMAIN heard[c] : heard[c][i].status \in 400..428 => Len(heard[c]) = i /\ Ended(c)
=============================================================================
