------------------------- MODULE ProviderCallsProofs -------------------------
(***************************************************************************)
(* Calls to a metered provider, for any number of calls, any clients,      *)
(* retries, statuses, headers and penalties: every call keeps its lease    *)
(* from the grant to its end, the lease is closed as what the client heard *)
(* tells, and a refusal holds the limiter back as long as it asked to.     *)
(*                                                                         *)
(* The argument: whether a lease is refunded depends on the one error a    *)
(* call ends with.  CallInv says what post has carried into that error:    *)
(* its status is set once an answer was read, and is not set while every   *)
(* attempt failed to connect.                                              *)
(***************************************************************************)
EXTENDS ProviderCalls, TLAPS

Open == {"ready", "flight", "body"}
Report == [how : {"unsent", "unknown", "cut", "read"}, status : Statuses \union {0}]

Types ==
    /\ TypeOK
    /\ client \in [Calls -> Kinds]
    /\ attempt \in [Calls -> Nat]
    /\ status \in [Calls -> Statuses \union {0}]
    /\ answer \in [Calls -> Statuses \union {0}]
    /\ heard \in [Calls -> Seq(Report)]

CallInv(c) ==
    /\ pc[c] = "idle" => heard[c] = <<>>
    /\ pc[c] \in {"idle", "ready"} => attempt[c] <= Retries[client[c]]
    /\ pc[c] = "body" => answer[c] # 0
    /\ (client[c] = "embedding" /\ pc[c] \in Open \union {"idle"})
          => (Rejected(c) => status[c] # 0) /\ (Unsent(c) => status[c] = 0)
    /\ (client[c] = "embedding" /\ lease[c] = "abandoned") => ~Rejected(c)
    /\ (pc[c] = "failed" /\ heard[c] # <<>> /\ client[c] # "tts" /\ Unsent(c)) => lease[c] = "abandoned"

IInv == Types /\ \A c \in Calls : CallInv(c)

-----------------------------------------------------------------------------
(* Errors *)

\* What post's catch may find in its hands.
Failures == {ConnectFails, Reset, TimedOut, <<Plain>>} \union { <<Node(t, "none")>> : t \in Statuses }

LEMMA MinIs ==
    ASSUME NEW S \in SUBSET Int, NEW m \in S, \A y \in S : m <= y
    PROVE  Min(S) = m
<1>1. \A x \in S : (\A y \in S : x <= y) => x = m
  OBVIOUS
<1> QED
  BY <1>1 DEF Min

\* The nodes of an error, as deep as the code looks, that tell something.
Tells(err) == { i \in 1..Smaller(Len(err), MaxCauseDepth) :
                  isHttpStatus(err[i].status) \/ err[i].code \in NeverArrivedCodes }

LEMMA FirstTells ==
    ASSUME NEW err, NEW k \in Tells(err), \A i \in Tells(err) : k <= i
    PROVE  reachedProvider(err) <=> isHttpStatus(err[k].status)
<1>1. Tells(err) \in SUBSET Int
  BY DEF Tells
<1>2. Min(Tells(err)) = k
  <2> HIDE DEF Tells
  <2> QED
    BY <1>1, MinIs
<1>3. reachedProvider(err) <=> (Tells(err) = {} \/ isHttpStatus(err[Min(Tells(err))].status))
  BY DEF reachedProvider, Tells
<1> QED
  BY <1>2, <1>3

LEMMA StatusReaches ==
    ASSUME NEW s \in Statuses, NEW err, Len(err) \in Nat, Len(err) >= 1, err[1].status = s
    PROVE  reachedProvider(err)
<1>1. isHttpStatus(err[1].status)
  BY ProviderAssumption DEF isHttpStatus
<1>2. 1 \in 1..Smaller(Len(err), MaxCauseDepth)
  BY ProviderAssumption DEF Smaller
<1>3. 1 \in Tells(err) /\ \A i \in Tells(err) : 1 <= i
  BY <1>1, <1>2 DEF Tells
<1> QED
  BY <1>1, <1>3, FirstTells

(* An error without a status whose chain holds a code of a connection that
   was never made tells that nothing arrived, however post wrapped it. *)
LEMMA RefusedSocket ==
    ASSUME NEW err, Len(err) \in Nat, Len(err) <= 3, NEW k \in 1..Len(err),
           err[k].code = "ECONNREFUSED", \A i \in 1..Len(err) : err[i].status = 0,
           \A i \in 1..Len(err) : i # k => err[i].code = "none"
    PROVE  ~reachedProvider(err)
<1>1. Smaller(Len(err), MaxCauseDepth) = Len(err)
  BY ProviderAssumption DEF Smaller
<1>2. ~isHttpStatus(0)
  BY DEF isHttpStatus
<1>3. "none" \notin NeverArrivedCodes /\ "ECONNREFUSED" \in NeverArrivedCodes
  BY ProviderAssumption
<1>4. Tells(err) = {k}
  BY <1>1, <1>2, <1>3 DEF Tells
<1>5. k \in Tells(err) /\ \A i \in Tells(err) : k <= i
  BY <1>4
<1> QED
  BY <1>2, <1>5, FirstTells

LEMMA ConnectFailsIsUnsent ==
    /\ ~reachedProvider(ConnectFails)
    /\ ~reachedProvider(Failure(0, ConnectFails))
<1>1. /\ Len(ConnectFails) = 2
      /\ ConnectFails[1].status = 0 /\ ConnectFails[1].code = "none"
      /\ ConnectFails[2].status = 0 /\ ConnectFails[2].code = "ECONNREFUSED"
  BY DEF ConnectFails, Plain, Node
<1>2. /\ Len(Failure(0, ConnectFails)) = 3
      /\ Failure(0, ConnectFails)[1] = Node(0, "none")
      /\ Failure(0, ConnectFails)[2] = ConnectFails[1]
      /\ Failure(0, ConnectFails)[3] = ConnectFails[2]
  BY DEF Failure, ConnectFails
<1>3. PICK e : e = ConnectFails
  OBVIOUS
<1>4. PICK f : f = Failure(0, ConnectFails)
  OBVIOUS
<1>5. ~reachedProvider(e)
  <2>1. /\ Len(e) \in Nat /\ Len(e) <= 3 /\ 2 \in 1..Len(e) /\ e[2].code = "ECONNREFUSED"
        /\ \A i \in 1..Len(e) : e[i].status = 0
        /\ \A i \in 1..Len(e) : i # 2 => e[i].code = "none"
    <3>1. /\ Len(e) = 2 /\ e[1].status = 0 /\ e[1].code = "none"
          /\ e[2].status = 0 /\ e[2].code = "ECONNREFUSED"
      BY <1>1, <1>3
    <3> QED
      BY ONLY <3>1
  <2> QED
    BY ONLY <2>1, RefusedSocket
<1>6. ~reachedProvider(f)
  <2>1. /\ Len(f) = 3 /\ f[1] = Node(0, "none") /\ f[2] = e[1] /\ f[3] = e[2]
    BY <1>2, <1>3, <1>4
  <2>2. /\ Len(f) \in Nat /\ Len(f) <= 3 /\ 3 \in 1..Len(f) /\ f[3].code = "ECONNREFUSED"
        /\ \A i \in 1..Len(f) : f[i].status = 0
        /\ \A i \in 1..Len(f) : i # 3 => f[i].code = "none"
    BY <2>1, <1>1, <1>3 DEF Node
  <2> QED
    BY ONLY <2>2, RefusedSocket
<1> QED
  BY <1>3, <1>4, <1>5, <1>6

LEMMA FailureStatus ==
    ASSUME NEW s \in Statuses, NEW err \in Failures
    PROVE  reachedProvider(Failure(s, err))
<1>1. PICK f : f = Failure(s, err)
  OBVIOUS
<1> DEFINE Nodes == [status : Statuses \union {0}, code : {"none", "ECONNREFUSED", "ECONNRESET"}]
<1>2. err \in Seq(Nodes)
  <2>1. Plain \in Nodes /\ Node(0, "ECONNREFUSED") \in Nodes /\ Node(0, "ECONNRESET") \in Nodes
    BY DEF Plain, Node
  <2>2. ASSUME NEW a \in Nodes, NEW b \in Nodes PROVE <<a>> \in Seq(Nodes) /\ <<a, b>> \in Seq(Nodes)
    OBVIOUS
  <2>0. ASSUME NEW t \in Statuses PROVE Node(t, "none") \in Nodes
    BY DEF Node
  <2> HIDE DEF Nodes
  <2>3. PICK p \in Nodes : p = Plain
    BY <2>1
  <2>4. PICK a \in Nodes : a = Node(0, "ECONNREFUSED")
    BY <2>1
  <2>5. PICK b \in Nodes : b = Node(0, "ECONNRESET")
    BY <2>1
  <2>6. err \in {<<p>>, <<p, a>>, <<p, b>>} \/ \E q \in Nodes : err = <<q>>
    BY <2>0, <2>3, <2>4, <2>5 DEF Failures, ConnectFails, Reset, TimedOut
  <2> QED
    BY <2>2, <2>6
<1> HIDE DEF Nodes
<1>3. Len(f) \in Nat /\ Len(f) >= 1 /\ f[1].status = s
  <2>1. Len(err) \in Nat
    BY <1>2
  <2>2. f = <<Node(s, "none")>> \o err
    BY <1>1 DEF Failure
  <2>3. Len(f) = 1 + Len(err) /\ f[1] = Node(s, "none")
    BY <2>1, <2>2, <1>2
  <2> QED
    BY <2>1, <2>3 DEF Node
<1>4. reachedProvider(f)
  BY ONLY <1>3, s \in Statuses, StatusReaches
<1> QED
  BY <1>1, <1>4

LEMMA RejectionReaches ==
    ASSUME NEW s \in Statuses
    PROVE  reachedProvider(<<Node(s, "none")>>)
<1>1. PICK f : f = <<Node(s, "none")>>
  OBVIOUS
<1>2. Len(f) \in Nat /\ Len(f) >= 1 /\ f[1].status = s
  BY <1>1 DEF Node
<1>3. reachedProvider(f)
  BY ONLY <1>2, s \in Statuses, StatusReaches
<1> QED
  BY <1>1, <1>3

-----------------------------------------------------------------------------
(* The steps of a call *)

\* The other calls are as they were.
Others(c) ==
    \A d \in Calls \ {c} :
        /\ pc'[d] = pc[d] /\ attempt'[d] = attempt[d] /\ answer'[d] = answer[d]
        /\ status'[d] = status[d] /\ lease'[d] = lease[d] /\ heard'[d] = heard[d]

(* What is said of a call speaks of that call alone. *)
LEMMA OthersKeep ==
    ASSUME IInv, NEW c \in Calls, Others(c), client' = client, Types', CallInv(c)'
    PROVE  IInv'
<1>1. ASSUME NEW d \in Calls, d # c PROVE CallInv(d)'
  <2>1. CallInv(d) /\ client'[d] = client[d]
    BY DEF IInv
  <2>2. Rejected(d)' = Rejected(d) /\ Unsent(d)' = Unsent(d)
    BY <1>1 DEF Others, Rejected, Unsent
  <2> QED
    BY <1>1, <2>1, <2>2 DEF Others, CallInv
<1> QED
  BY <1>1 DEF IInv

(* Noting what became of an attempt. *)
LEMMA Noted ==
    ASSUME Types, NEW c \in Calls, NEW how \in {"unsent", "unknown", "cut", "read"}, Note(c, how)
    PROVE  /\ heard' \in [Calls -> Seq(Report)]
           /\ \A d \in Calls \ {c} : heard'[d] = heard[d]
           /\ heard'[c] # <<>>
           /\ Rejected(c)' <=> (Rejected(c) \/ (how = "read" /\ answer[c] >= 400))
           /\ Unsent(c)' <=> (Unsent(c) /\ how = "unsent")
<1>1. PICK r : r = [how |-> how, status |-> answer[c]]
  OBVIOUS
<1>2. r \in Report /\ r.how = how
  BY <1>1 DEF Types, Report
<1>3. PICK q : q = heard[c]
  OBVIOUS
<1>4. q \in Seq(Report)
  BY <1>3 DEF Types
<1>5. heard' = [heard EXCEPT ![c] = Append(q, r)]
  BY <1>1, <1>3 DEF Note
<1>6. /\ Append(q, r) \in Seq(Report)
      /\ DOMAIN Append(q, r) = DOMAIN q \union {Len(q) + 1}
      /\ \A i \in DOMAIN q : Append(q, r)[i] = q[i]
      /\ Append(q, r)[Len(q) + 1] = r
  BY <1>2, <1>4
<1>7. heard'[c] = Append(q, r) /\ heard' \in [Calls -> Seq(Report)]
  BY <1>5, <1>6 DEF Types
<1> QED
  BY <1>1, <1>2, <1>3, <1>5, <1>6, <1>7 DEF Types, Rejected, Unsent

(* A failure post catches, retried or thrown with the status seen so far. *)
LEMMA PostCaught ==
    ASSUME IInv, NEW c \in Calls, client[c] = "embedding", pc[c] \in {"flight", "body"},
           NEW how \in {"unsent", "unknown", "cut", "read"}, Note(c, how),
           NEW s \in Statuses \union {0}, NEW err \in Failures, postCaught(c, s, err),
           (Rejected(c) \/ (how = "read" /\ answer[c] >= 400)) => s # 0,
           Unsent(c) /\ how = "unsent" => s = 0 /\ err = ConnectFails,
           UNCHANGED <<client, attempt, answer>>
    PROVE  IInv'
<1>0. 0 \notin Statuses
  BY ProviderAssumption
<1>1. /\ heard' \in [Calls -> Seq(Report)]
      /\ \A d \in Calls \ {c} : heard'[d] = heard[d]
      /\ heard'[c] # <<>>
      /\ Rejected(c)' <=> (Rejected(c) \/ (how = "read" /\ answer[c] >= 400))
      /\ Unsent(c)' <=> (Unsent(c) /\ how = "unsent")
  BY Noted DEF IInv
<1>2. status' = [status EXCEPT ![c] = s]
  BY DEF postCaught
<1>3. CASE attempt[c] <= Retries["embedding"]
  <2>1. pc' = [pc EXCEPT ![c] = "ready"] /\ lease' = lease
    BY <1>3 DEF postCaught
  <2>2. Types'
    BY <1>1, <1>2, <2>1 DEF IInv, Types, TypeOK
  <2>3. Others(c)
    BY <1>1, <1>2, <2>1 DEF IInv, Types, TypeOK, Others
  <2>4. CallInv(c)'
    BY <1>1, <1>2, <1>3, <2>1 DEF IInv, Types, TypeOK, CallInv, Open
  <2> QED
    BY <2>2, <2>3, <2>4, OthersKeep
<1>4. CASE ~(attempt[c] <= Retries["embedding"])
  <2>1. closed(c, Failure(s, err))
    BY <1>4 DEF postCaught
  <2>2. (Rejected(c) \/ (how = "read" /\ answer[c] >= 400)) => reachedProvider(Failure(s, err))
    BY <1>0, FailureStatus
  <2>3. (Unsent(c) /\ how = "unsent") => ~reachedProvider(Failure(s, err))
    BY ConnectFailsIsUnsent
  <2>4. PICK l \in {"settled", "abandoned"} : l = IF reachedProvider(Failure(s, err)) THEN "settled" ELSE "abandoned"
    OBVIOUS
  <2>5. pc' = [pc EXCEPT ![c] = "failed"] /\ lease' = [lease EXCEPT ![c] = l]
    BY <2>1, <2>4 DEF closed
  <2>6. /\ (Rejected(c) \/ (how = "read" /\ answer[c] >= 400)) => l = "settled"
        /\ (Unsent(c) /\ how = "unsent") => l = "abandoned"
    BY <2>2, <2>3, <2>4
  <2>7. Types'
    BY <1>1, <1>2, <2>5 DEF IInv, Types, TypeOK
  <2>8. Others(c)
    BY <1>1, <1>2, <2>5 DEF IInv, Types, TypeOK, Others
  <2>9. CallInv(c)'
    BY <1>1, <1>2, <2>5, <2>6 DEF IInv, Types, TypeOK, CallInv, Open
  <2> QED
    BY <2>7, <2>8, <2>9, OthersKeep
<1> QED
  BY <1>3, <1>4

(* A failure the SDK of another client meets: retried there, or thrown. *)
LEMMA SdkCaught ==
    ASSUME IInv, NEW c \in Calls, client[c] # "embedding", pc[c] \in {"flight", "body"},
           NEW how \in {"unsent", "unknown", "cut", "read"}, Note(c, how),
           NEW err, sdkCaught(c, err), how = "unsent" => err = ConnectFails,
           UNCHANGED <<client, attempt, answer>>
    PROVE  IInv'
<1>1. /\ heard' \in [Calls -> Seq(Report)]
      /\ \A d \in Calls \ {c} : heard'[d] = heard[d]
      /\ heard'[c] # <<>>
      /\ Unsent(c)' <=> (Unsent(c) /\ how = "unsent")
  BY Noted DEF IInv
<1>2. status' = status
  BY DEF sdkCaught
<1>3. CASE pc' = [pc EXCEPT ![c] = "ready"] /\ lease' = lease /\ attempt[c] <= Retries[client[c]]
  <2>1. Types'
    BY <1>1, <1>2, <1>3 DEF IInv, Types, TypeOK
  <2>2. Others(c)
    BY <1>1, <1>2, <1>3 DEF IInv, Types, TypeOK, Others
  <2>3. CallInv(c)'
    BY <1>1, <1>2, <1>3 DEF IInv, Types, TypeOK, CallInv, Open
  <2> QED
    BY <2>1, <2>2, <2>3, OthersKeep
<1>4. CASE closed(c, err)
  <2>3. (Unsent(c) /\ how = "unsent") => ~reachedProvider(err)
    BY ConnectFailsIsUnsent
  <2>4. PICK l \in {"settled", "abandoned"} : l = IF reachedProvider(err) THEN "settled" ELSE "abandoned"
    OBVIOUS
  <2>5. pc' = [pc EXCEPT ![c] = "failed"] /\ lease' = [lease EXCEPT ![c] = l]
    BY <1>4, <2>4 DEF closed
  <2>6. (Unsent(c) /\ how = "unsent") => l = "abandoned"
    BY <2>3, <2>4
  <2>7. Types'
    BY <1>1, <1>2, <2>5 DEF IInv, Types, TypeOK
  <2>8. Others(c)
    BY <1>1, <1>2, <2>5 DEF IInv, Types, TypeOK, Others
  <2>9. CallInv(c)'
    BY <1>1, <1>2, <2>5, <2>6 DEF IInv, Types, TypeOK, CallInv, Open
  <2> QED
    BY <2>7, <2>8, <2>9, OthersKeep
<1> QED
  BY <1>3, <1>4 DEF sdkCaught

LEMMA GrantedStep ==
    ASSUME IInv, NEW c \in Calls, granted(c) PROVE IInv'
<1> USE DEF granted, call
<1>1. Types'
  BY DEF IInv, Types, TypeOK
<1>2. Others(c)
  BY DEF IInv, Types, TypeOK, Others
<1>3. CallInv(c)'
  <2>1. Rejected(c)' = Rejected(c) /\ Unsent(c)' = Unsent(c)
    BY DEF Rejected, Unsent
  <2>2. attempt[c] <= Retries[client[c]]
    BY DEF IInv, CallInv
  <2> QED
    BY <2>1, <2>2 DEF IInv, Types, TypeOK, CallInv, Open
<1> QED
  BY <1>1, <1>2, <1>3, OthersKeep

LEMMA LimitedStep ==
    ASSUME IInv, NEW c \in Calls, rate_limited(c) PROVE IInv'
<1> USE DEF rate_limited, call
<1>1. Types'
  BY DEF IInv, Types, TypeOK
<1>2. Others(c)
  BY DEF IInv, Types, TypeOK, Others
<1>3. CallInv(c)'
  <2>1. Rejected(c)' = Rejected(c) /\ Unsent(c)' = Unsent(c)
    BY DEF Rejected, Unsent
  <2> QED
    BY <2>1 DEF IInv, Types, TypeOK, CallInv, Open
<1> QED
  BY <1>1, <1>2, <1>3, OthersKeep

LEMMA SendStep ==
    ASSUME IInv, NEW c \in Calls, send(c) PROVE IInv'
<1> USE DEF send, call
<1>0. Retries[client[c]] \in Nat /\ attempt[c] \in Nat /\ attempt[c] <= Retries[client[c]]
  BY ProviderAssumption DEF IInv, Types, CallInv
<1>1. Types'
  <2>1. /\ attempt' \in [Calls -> Nat]
        /\ \A d \in Calls : attempt'[d] \in 0..(Retries[client[d]] + 1)
    BY <1>0 DEF IInv, Types, TypeOK
  <2> QED
    BY <2>1 DEF IInv, Types, TypeOK
<1>2. Others(c)
  BY DEF IInv, Types, TypeOK, Others
<1>3. CallInv(c)'
  <2>1. Rejected(c)' = Rejected(c) /\ Unsent(c)' = Unsent(c)
    BY DEF Rejected, Unsent
  <2> QED
    BY <2>1 DEF IInv, Types, TypeOK, CallInv, Open
<1> QED
  BY <1>1, <1>2, <1>3, OthersKeep

LEMMA NoAnswerStep ==
    ASSUME IInv, NEW c \in Calls, noAnswer(c) PROVE IInv'
<1>1. PICK e \in {ConnectFails, Reset} :
         Note(c, IF e = ConnectFails THEN "unsent" ELSE "unknown") /\ Caught(c, e)
  BY DEF noAnswer
<1>2. PICK how \in {"unsent", "unknown", "cut", "read"} :
         how = IF e = ConnectFails THEN "unsent" ELSE "unknown"
  OBVIOUS
<1>3. /\ Note(c, how) /\ how # "read"
      /\ how = "unsent" => e = ConnectFails
      /\ pc[c] \in {"flight", "body"} /\ UNCHANGED <<client, attempt, answer>>
  BY <1>1, <1>2 DEF noAnswer
<1>4. CASE client[c] = "embedding"
  <2>1. PICK s \in Statuses \union {0} : s = status[c]
    BY DEF IInv, Types
  <2>2. postCaught(c, s, e) /\ e \in Failures
    BY <1>1, <1>4, <2>1 DEF Caught, Kept, Failures
  <2>3. /\ Rejected(c) \/ (how = "read" /\ answer[c] >= 400) => s # 0
        /\ Unsent(c) /\ how = "unsent" => s = 0 /\ e = ConnectFails
    BY <1>3, <1>4, <2>1 DEF IInv, CallInv, Open
  <2> QED
    BY ONLY IInv, c \in Calls, <1>3, <1>4, <2>2, <2>3, PostCaught,
            how \in {"unsent", "unknown", "cut", "read"}, s \in Statuses \union {0}
<1>5. CASE client[c] # "embedding"
  <2>1. sdkCaught(c, e)
    BY <1>1, <1>5 DEF Caught
  <2> QED
    BY ONLY IInv, c \in Calls, <1>3, <1>5, <2>1, SdkCaught, how \in {"unsent", "unknown", "cut", "read"}
<1> QED
  BY <1>4, <1>5

LEMMA RequestTimeoutStep ==
    ASSUME IInv, NEW c \in Calls, requestTimeout(c) PROVE IInv'
<1>1. PICK how \in {"unsent", "unknown", "cut", "read"} :
         how = IF pc[c] = "flight" THEN "unknown" ELSE "cut"
  OBVIOUS
<1>2. /\ Note(c, how) /\ how # "read" /\ how # "unsent"
      /\ pc[c] \in {"flight", "body"} /\ UNCHANGED <<client, attempt, answer>>
  BY <1>1 DEF requestTimeout
<1>3. PICK e \in Failures : e = TimedOut
  BY DEF Failures
<1>4. CASE client[c] = "embedding"
  <2>1. PICK s \in Statuses \union {0} : s = status[c]
    BY DEF IInv, Types
  <2>2. postCaught(c, s, e)
    BY <1>3, <1>4, <2>1 DEF requestTimeout, Caught, Kept
  <2>3. /\ Rejected(c) \/ (how = "read" /\ answer[c] >= 400) => s # 0
        /\ Unsent(c) /\ how = "unsent" => s = 0 /\ e = ConnectFails
    BY <1>2, <1>4, <2>1 DEF IInv, CallInv, Open
  <2> QED
    BY ONLY IInv, c \in Calls, <1>2, <1>4, <2>2, <2>3, PostCaught, e \in Failures,
            how \in {"unsent", "unknown", "cut", "read"}, s \in Statuses \union {0}
<1>5. CASE client[c] # "embedding"
  <2>1. sdkCaught(c, e)
    BY <1>3, <1>5 DEF requestTimeout, Caught
  <2> QED
    BY ONLY IInv, c \in Calls, <1>2, <1>5, <2>1, SdkCaught, how \in {"unsent", "unknown", "cut", "read"}
<1> QED
  BY <1>4, <1>5

LEMMA TtsTimeoutStep ==
    ASSUME IInv, NEW c \in Calls, ttsTimeout(c) PROVE IInv'
<1> USE DEF ttsTimeout, call
<1>0. PICK l \in {"settled", "abandoned"} : lease' = [lease EXCEPT ![c] = l]
  BY DEF closed
<1>1. pc' = [pc EXCEPT ![c] = "failed"]
  BY DEF closed
<1>2. Types'
  BY <1>0, <1>1 DEF IInv, Types, TypeOK
<1>3. Others(c)
  BY <1>0, <1>1 DEF IInv, Types, TypeOK, Others
<1>4. CallInv(c)'
  BY <1>0, <1>1 DEF IInv, Types, TypeOK, CallInv, Open
<1> QED
  BY <1>2, <1>3, <1>4, OthersKeep

LEMMA RespondsStep ==
    ASSUME IInv, NEW c \in Calls, responds(c) PROVE IInv'
<1>1. PICK s \in Statuses : answer' = [answer EXCEPT ![c] = s]
  BY DEF responds
<1>2. /\ pc[c] = "flight" /\ pc' = [pc EXCEPT ![c] = "body"]
      /\ UNCHANGED <<client, attempt, status, lease, heard>>
  BY DEF responds
<1>3. s # 0
  BY ProviderAssumption
<1>4. Types'
  BY <1>1, <1>2 DEF IInv, Types, TypeOK
<1>5. Others(c)
  BY <1>1, <1>2 DEF IInv, Types, TypeOK, Others
<1>6. CallInv(c)'
  <2>1. Rejected(c)' = Rejected(c) /\ Unsent(c)' = Unsent(c)
    BY <1>2 DEF Rejected, Unsent
  <2> QED
    BY <1>1, <1>2, <1>3, <2>1 DEF IInv, Types, TypeOK, CallInv, Open
<1> QED
  BY <1>2, <1>4, <1>5, <1>6, OthersKeep

LEMMA SucceedsStep ==
    ASSUME IInv, NEW c \in Calls, succeeds(c) PROVE IInv'
<1>1. /\ pc' = [pc EXCEPT ![c] = "done"] /\ lease' = [lease EXCEPT ![c] = "settled"]
      /\ UNCHANGED <<client, attempt, answer, status>> /\ Note(c, "read") /\ pc[c] = "body"
  BY DEF succeeds, call
<1>2. /\ heard' \in [Calls -> Seq(Report)]
      /\ \A d \in Calls \ {c} : heard'[d] = heard[d]
  BY <1>1, Noted DEF IInv
<1>3. Types'
  BY <1>1, <1>2 DEF IInv, Types, TypeOK
<1>4. Others(c)
  BY <1>1, <1>2 DEF IInv, Types, TypeOK, Others
<1>5. CallInv(c)'
  BY <1>1 DEF IInv, Types, TypeOK, CallInv, Open
<1> QED
  BY <1>1, <1>3, <1>4, <1>5, OthersKeep

(* post read an error: a 4xx that cannot pass is thrown with itself as its proof, one
   that may pass joins the status seen before, which 429 outranks but nothing erases,
   and another that cannot is caught as a failure of the network would be. *)
LEMMA PostRejectedStep ==
    ASSUME IInv, NEW c \in Calls, postRejected(c) PROVE IInv'
<1>1. /\ Note(c, "read") /\ pc[c] = "body" /\ client[c] = "embedding"
      /\ UNCHANGED <<client, attempt, answer>>
  BY DEF postRejected
<1>2. answer[c] \in Statuses /\ 0 \notin Statuses
  BY <1>1, ProviderAssumption DEF IInv, Types, CallInv
<1>3. CASE Terminal(answer[c]) /\ Rethrown(answer[c])
  <2>1. closed(c, <<Node(answer[c], "none")>>) /\ status' = status
    BY <1>3 DEF postRejected
  <2>2. reachedProvider(<<Node(answer[c], "none")>>)
    BY <1>2, RejectionReaches
  <2>3. pc' = [pc EXCEPT ![c] = "failed"] /\ lease' = [lease EXCEPT ![c] = "settled"]
    BY <2>1, <2>2 DEF closed
  <2>4. /\ heard' \in [Calls -> Seq(Report)]
        /\ \A d \in Calls \ {c} : heard'[d] = heard[d]
        /\ heard'[c] # <<>> /\ ~Unsent(c)'
    BY <1>1, Noted DEF IInv
  <2>5. Types'
    BY <1>1, <2>1, <2>3, <2>4 DEF IInv, Types, TypeOK
  <2>6. Others(c)
    BY <1>1, <2>1, <2>3, <2>4 DEF IInv, Types, TypeOK, Others
  <2>7. CallInv(c)'
    BY <1>1, <2>3, <2>4 DEF IInv, Types, TypeOK, CallInv, Open
  <2> QED
    BY <1>1, <2>5, <2>6, <2>7, OthersKeep
<1>4. CASE ~Terminal(answer[c])
  <2>1. PICK s \in Statuses \union {0} : s = Ranked(c)
    BY <1>2 DEF Ranked, IInv, Types
  <2>2. PICK e \in Failures : e = <<Plain>>
    BY DEF Failures
  <2>3. PICK how \in {"unsent", "unknown", "cut", "read"} : how = "read"
    OBVIOUS
  <2>4. postCaught(c, s, e)
    BY <1>4, <2>1, <2>2 DEF postRejected
  <2>5. /\ Rejected(c) \/ (how = "read" /\ answer[c] >= 400) => s # 0
        /\ Unsent(c) /\ how = "unsent" => s = 0 /\ e = ConnectFails
        /\ Note(c, how) /\ pc[c] \in {"flight", "body"}
    BY <1>1, <1>2, <2>1, <2>3 DEF Ranked
  <2> QED
    BY ONLY IInv, c \in Calls, <1>1, <2>4, <2>5, PostCaught, e \in Failures,
            how \in {"unsent", "unknown", "cut", "read"}, s \in Statuses \union {0}
<1>5. CASE Terminal(answer[c]) /\ ~Rethrown(answer[c])
  <2>1. PICK s \in Statuses \union {0} : s = status[c]
    BY DEF IInv, Types
  <2>2. PICK e \in Failures : e = <<Node(answer[c], "none")>>
    BY <1>2 DEF Failures
  <2>3. PICK how \in {"unsent", "unknown", "cut", "read"} : how = "read"
    OBVIOUS
  <2>4. postCaught(c, s, e)
    BY <1>5, <2>1, <2>2 DEF postRejected, Kept
  <2>5. ~(answer[c] >= 400)
    <3>1. answer[c] \in 100..599
      BY <1>2, ProviderAssumption
    <3> QED
      BY <1>5, <3>1 DEF Terminal, Rethrown
  <2>6. /\ (Rejected(c) \/ (how = "read" /\ answer[c] >= 400)) => s # 0
        /\ Unsent(c) /\ how = "unsent" => s = 0 /\ e = ConnectFails
        /\ Note(c, how) /\ pc[c] \in {"flight", "body"}
    BY <1>1, <2>1, <2>3, <2>5 DEF IInv, CallInv, Open
  <2> QED
    BY ONLY IInv, c \in Calls, <1>1, <2>4, <2>6, PostCaught, e \in Failures,
            how \in {"unsent", "unknown", "cut", "read"}, s \in Statuses \union {0}
<1> QED
  BY <1>3, <1>4, <1>5

LEMMA SdkRejectedStep ==
    ASSUME IInv, NEW c \in Calls, sdkRejected(c) PROVE IInv'
<1>1. PICK how \in {"unsent", "unknown", "cut", "read"} : how = "read"
  OBVIOUS
<1>2. PICK e : e = <<Node(answer[c], "none")>>
  OBVIOUS
<1>3. /\ Note(c, how) /\ how # "unsent" /\ sdkCaught(c, e) /\ client[c] # "embedding"
      /\ pc[c] \in {"flight", "body"} /\ UNCHANGED <<client, attempt, answer>>
  BY <1>1, <1>2 DEF sdkRejected
<1> QED
  BY ONLY IInv, c \in Calls, <1>3, SdkCaught, how \in {"unsent", "unknown", "cut", "read"}

LEMMA BodyFailsStep ==
    ASSUME IInv, NEW c \in Calls, bodyFails(c) PROVE IInv'
<1>1. PICK how \in {"unsent", "unknown", "cut", "read"} : how = "cut"
  OBVIOUS
<1>2. /\ Note(c, how) /\ how # "read" /\ how # "unsent"
      /\ pc[c] \in {"flight", "body"} /\ UNCHANGED <<client, attempt, answer>>
  BY <1>1 DEF bodyFails
<1>3. PICK e \in Failures : e = Reset
  BY DEF Failures
<1>4. CASE client[c] = "embedding"
  <2>1. PICK s \in Statuses \union {0} : s = status[c]
    BY DEF IInv, Types
  <2>2. postCaught(c, s, e)
    BY <1>3, <1>4, <2>1 DEF bodyFails, Kept
  <2>3. /\ Rejected(c) \/ (how = "read" /\ answer[c] >= 400) => s # 0
        /\ Unsent(c) /\ how = "unsent" => s = 0 /\ e = ConnectFails
    BY <1>2, <1>4, <2>1 DEF IInv, CallInv, Open
  <2> QED
    BY ONLY IInv, c \in Calls, <1>2, <1>4, <2>2, <2>3, PostCaught, e \in Failures,
            how \in {"unsent", "unknown", "cut", "read"}, s \in Statuses \union {0}
<1>5. CASE client[c] # "embedding"
  <2>1. closed(c, e) /\ status' = status
    BY <1>3, <1>5 DEF bodyFails
  <2>2. PICK l \in {"settled", "abandoned"} : lease' = [lease EXCEPT ![c] = l]
    BY <2>1 DEF closed
  <2>3. pc' = [pc EXCEPT ![c] = "failed"]
    BY <2>1 DEF closed
  <2>4. /\ heard' \in [Calls -> Seq(Report)]
        /\ \A d \in Calls \ {c} : heard'[d] = heard[d]
        /\ heard'[c] # <<>> /\ ~Unsent(c)'
    BY <1>2, Noted DEF IInv
  <2>5. Types'
    BY <1>2, <2>1, <2>2, <2>3, <2>4 DEF IInv, Types, TypeOK
  <2>6. Others(c)
    BY <1>2, <2>1, <2>2, <2>3, <2>4 DEF IInv, Types, TypeOK, Others
  <2>7. CallInv(c)'
    BY <1>2, <1>5, <2>2, <2>3, <2>4 DEF IInv, Types, TypeOK, CallInv, Open
  <2> QED
    BY <1>2, <2>5, <2>6, <2>7, OthersKeep
<1> QED
  BY <1>4, <1>5

(* The invariant is inductive. *)
LEMMA IInvHolds == Spec => []IInv
<1>1. Init => IInv
  <2> SUFFICES ASSUME Init PROVE IInv
    OBVIOUS
  <2>1. Types
    BY ProviderAssumption DEF Init, Types, TypeOK
  <2>2. ASSUME NEW c \in Calls PROVE CallInv(c)
    <3>1. /\ ~Rejected(c) /\ status[c] = 0 /\ pc[c] = "idle" /\ lease[c] = "none"
          /\ heard[c] = <<>> /\ attempt[c] <= Retries[client[c]]
      BY ProviderAssumption DEF Init, Rejected
    <3> QED
      BY <3>1 DEF CallInv
  <2> QED
    BY <2>1, <2>2 DEF IInv
<1>2. IInv /\ [Next]_vars => IInv'
  <2> SUFFICES ASSUME IInv, [Next]_vars PROVE IInv'
    OBVIOUS
  <2>1. ASSUME NEW c \in Calls, Step(c) PROVE IInv'
    BY <2>1, GrantedStep, LimitedStep, SendStep, NoAnswerStep, TtsTimeoutStep, RequestTimeoutStep,
       RespondsStep, SucceedsStep, PostRejectedStep, SdkRejectedStep, BodyFailsStep DEF Step
  <2>2. CASE Tick \/ UNCHANGED vars
    <3>1. UNCHANGED <<client, pc, attempt, answer, status, lease, heard>>
      BY <2>2 DEF Tick, vars, call
    <3> QED
      BY <3>1 DEF IInv, Types, TypeOK, CallInv, Rejected, Unsent
  <2> QED
    BY <2>1, <2>2 DEF Next
<1> QED
  BY <1>1, <1>2, PTL DEF Spec

(* Every variable of a call keeps its type; and a call holds its lease from
   the grant to its end, whichever way it ends, and makes no more attempts
   than its transport may. *)
THEOREM TypeCorrect == Spec => []TypeOK
<1>1. IInv => TypeOK
  BY DEF IInv, Types
<1> QED
  BY <1>1, IInvHolds, PTL

(* What an embedding provider was heard to answer stays charged, whatever
   became of the retries, and a call none of whose attempts could connect
   gets its reservation back (reachedProvider, post). *)
THEOREM ChargesAreTrue == Spec => []ChargedIfCounted
<1>1. IInv => ChargedIfCounted
  BY DEF IInv, CallInv, ChargedIfCounted, RejectionStaysCharged, UnsentIsRefunded
<1> QED
  BY <1>1, IInvHolds, PTL

-----------------------------------------------------------------------------
(* Refusals *)

\* The longest a 429 may hold a limiter back.
Longest == Larger(MaxPenaltyMs, Penalty429Ms)

Demand == [call : Calls, attempt : Nat, until : Int]

\* What the provider asked for when it answered the current attempt of c.
Asked(c) == { d \in demands : d.call = c /\ d.attempt = attempt[c] }

(* What is owed to the provider for c: while the LLM's SDK holds the answer
   back, its header will still be read as long enough. *)
Owed(c) ==
    /\ pc[c] \in {"idle", "flight"} => answer[c] = 0
    /\ \A d \in demands : d.call = c => d.attempt <= attempt[c] /\ (pc[c] = "flight" => d.attempt < attempt[c])
    /\ (client[c] = "llm" /\ pc[c] = "body" /\ answer[c] = 429)
          => Asked(c) # {} /\ \A d \in Asked(c) : d.until <= now + retryAfterMs(header[c])

FloorTypes ==
    /\ floor \in [Kinds -> Int] /\ now \in Nat /\ floor["tts"] = 0
    /\ header \in [Calls -> Headers] /\ demands \subseteq Demand

HeldBack ==
    /\ FloorTypes
    /\ \A k \in Kinds : floor[k] <= now + Longest
    /\ \A c \in Calls : Owed(c)
    /\ RefusalIsHonoured

(* Every form of the header is read as what the provider means by it, but
   for a date that is over, which asks for nothing more. *)
LEMMA HeaderIsRead ==
    ASSUME NEW h \in Headers, now \in Nat
    PROVE  /\ retryAfterMs(h) \in Nat /\ retryAfterMs(h) <= Longest
           /\ Meant(h) \in Int /\ Meant(h) <= now + retryAfterMs(h)
           /\ retryAfterMs(h) > 0 => Meant(h) = now + retryAfterMs(h)
<1>1. /\ h.value \in Int /\ (h.form = "seconds" => h.value >= 0)
      /\ h.form \in {"absent", "seconds", "imf", "rfc850", "asctime", "year", "words"}
      /\ MaxPenaltyMs \in Nat /\ Penalty429Ms \in Nat
  BY ProviderAssumption DEF HeaderType
<1>2. CASE h.form \in {"absent", "year", "words"}
  <2>1. retryAfterMs(h) = Penalty429Ms /\ Meant(h) = now + Penalty429Ms
    BY <1>2 DEF retryAfterMs, Meant, HTTP_DATE_PREFIX, isNaN
  <2> QED
    BY <1>1, <2>1 DEF Longest, Larger
<1>3. CASE h.form = "seconds"
  <2>1. retryAfterMs(h) = clamp(h.value) /\ Meant(h) = now + Smaller(MaxPenaltyMs, h.value)
    BY <1>3 DEF retryAfterMs, Meant
  <2> QED
    BY <1>1, <1>3, <2>1 DEF Longest, Larger, clamp, Smaller
<1>4. CASE h.form \in {"imf", "rfc850", "asctime"}
  <2>1. parsed(h) = h.value
    BY <1>1, <1>4 DEF parsed, NamesZone, ASCTIME
  <2>2. retryAfterMs(h) = clamp(h.value - now) /\ Meant(h) = Smaller(now + MaxPenaltyMs, h.value)
    BY <1>4, <2>1 DEF retryAfterMs, Meant, HTTP_DATE_PREFIX, isNaN
  <2> QED
    BY <1>1, <2>2 DEF Longest, Larger, clamp, Smaller
<1> QED
  BY <1>1, <1>2, <1>3, <1>4

(* A header that waits to be read asks for no less: a delay is counted from
   when it is read, and a date stays where it is. *)
LEMMA HeaderKeeps ==
    ASSUME NEW h \in Headers, now \in Nat, now' \in {now, now + 1}
    PROVE  now + retryAfterMs(h) <= now' + retryAfterMs(h)'
<1>1. /\ h.value \in Int /\ MaxPenaltyMs \in Nat /\ Penalty429Ms \in Nat
      /\ h.form \in {"absent", "seconds", "imf", "rfc850", "asctime", "year", "words"}
  BY ProviderAssumption DEF HeaderType
<1>2. CASE h.form \in {"absent", "year", "words"}
  <2>1. PICK w \in Int : w = Penalty429Ms
    BY <1>1
  <2>2. retryAfterMs(h) = w
    BY <1>2, <2>1 DEF retryAfterMs, HTTP_DATE_PREFIX, isNaN
  <2>3. retryAfterMs(h)' = w
    BY <1>2, <2>1 DEF retryAfterMs, HTTP_DATE_PREFIX, isNaN
  <2>4. now + w <= now' + w
    <3>1. now' = now \/ now' = now + 1
      OBVIOUS
    <3> QED
      BY ONLY <3>1, w \in Int, now \in Nat
  <2> QED
    BY <2>2, <2>3, <2>4
<1>3. CASE h.form = "seconds"
  <2>1. retryAfterMs(h) = clamp(h.value) /\ retryAfterMs(h)' = clamp(h.value)
    BY <1>3 DEF retryAfterMs, clamp, Smaller, Larger
  <2>2. clamp(h.value) \in Int
    BY <1>1 DEF clamp, Smaller, Larger
  <2> QED
    BY <2>1, <2>2
<1>4. CASE h.form \in {"imf", "rfc850", "asctime"}
  <2>1. parsed(h) = h.value /\ parsed(h)' = h.value
    BY <1>1, <1>4 DEF parsed, NamesZone, ASCTIME
  <2>2. retryAfterMs(h) = Smaller(MaxPenaltyMs, Larger(0, h.value - now))
    BY <1>4, <2>1 DEF retryAfterMs, clamp, HTTP_DATE_PREFIX, isNaN
  <2>3. retryAfterMs(h)' = Smaller(MaxPenaltyMs, Larger(0, h.value - now'))
    BY <1>4, <2>1 DEF retryAfterMs, clamp, HTTP_DATE_PREFIX, isNaN
  <2> QED
    BY <1>1, <2>2, <2>3 DEF Smaller, Larger
<1> QED
  BY <1>1, <1>2, <1>3, <1>4

(* What is owed for the other calls does not change with a step of c. *)
LEMMA OthersOwed ==
    ASSUME HeldBack, NEW c \in Calls, Others(c), UNCHANGED <<client, now>>,
           \A d \in Calls \ {c} : header'[d] = header[d],
           \A d : d.call # c => (d \in demands' <=> d \in demands)
    PROVE  \A d \in Calls \ {c} : Owed(d)'
<1> SUFFICES ASSUME NEW d \in Calls, d # c PROVE Owed(d)'
  OBVIOUS
<1>1. Owed(d)
  BY DEF HeldBack
<1>2. /\ pc'[d] = pc[d] /\ answer'[d] = answer[d] /\ attempt'[d] = attempt[d] /\ header'[d] = header[d]
      /\ Asked(d)' = Asked(d)
      /\ \A e \in demands' : e.call = d => e \in demands
  BY DEF Others, Asked
<1>3. retryAfterMs(header[d])' = retryAfterMs(header[d])
  BY <1>2 DEF retryAfterMs, parsed, clamp, HTTP_DATE_PREFIX, isNaN, NamesZone, ASCTIME
<1> QED
  BY <1>1, <1>2, <1>3 DEF Owed

(* A step of c that leaves the limiters and the demands alone. *)
LEMMA QuietStep ==
    ASSUME HeldBack, NEW c \in Calls, Others(c), UNCHANGED <<client, floor, now, demands>>,
           \A d \in Calls \ {c} : header'[d] = header[d], header' \in [Calls -> Headers],
           pc[c] # "failed", ~(client[c] = "llm" /\ pc'[c] = "failed" /\ answer'[c] = 429),
           Owed(c)'
    PROVE  HeldBack'
<1>1. FloorTypes'
  BY DEF HeldBack, FloorTypes
<1>2. \A k \in Kinds : floor'[k] <= now' + Longest
  BY DEF HeldBack
<1>3. \A d \in Calls : Owed(d)'
  BY OthersOwed
<1>4. \A k \in Kinds : Heeded(k)' = Heeded(k)
  <2>1. ASSUME NEW k \in Kinds, NEW d \in demands
        PROVE  (d \in Heeded(k)) <=> (d \in Heeded(k)')
    <3>1. d.call \in Calls
      BY DEF HeldBack, FloorTypes, Demand
    <3>2. CASE d.call = c
      BY <3>1, <3>2 DEF Heeded, Others
    <3>3. CASE d.call # c
      BY <3>1, <3>3 DEF Heeded, Others
    <3> QED
      BY <3>2, <3>3
  <2> QED
    BY <2>1 DEF Heeded
<1>5. RefusalIsHonoured'
  <2>1. Heeded("embedding")' = Heeded("embedding")
    BY <1>4 DEF Kinds
  <2> QED
    BY <1>4, <2>1 DEF HeldBack, RefusalIsHonoured
<1> QED
  BY <1>1, <1>2, <1>3, <1>5 DEF HeldBack

(* A step that leaves an attempt behind, or goes before the first. *)
LEMMA BetweenAttempts ==
    ASSUME HeldBack, NEW c \in Calls, Others(c),
           UNCHANGED <<client, attempt, answer, header, floor, now, demands>>,
           pc[c] # "failed", pc'[c] \in {"ready", "done", "failed"},
           ~(client[c] = "llm" /\ pc'[c] = "failed" /\ answer[c] = 429)
    PROVE  HeldBack'
<1>1. Owed(c)'
  BY DEF HeldBack, Owed
<1>2. header' \in [Calls -> Headers]
  BY DEF HeldBack, FloorTypes
<1> QED
  BY <1>1, <1>2, QuietStep

\* What the catches change is c's alone, and leaves it between two attempts or at its end.
Left(c) == Others(c) /\ pc'[c] \in {"ready", "failed"}

LEMMA PostCaughtLeaves ==
    ASSUME IInv, NEW c \in Calls, NEW s, NEW err, NEW how, postCaught(c, s, err), Note(c, how),
           UNCHANGED <<attempt, answer>>
    PROVE  Left(c)
<1>1. pc' = [pc EXCEPT ![c] = "ready"] \/ pc' = [pc EXCEPT ![c] = "failed"]
  BY DEF postCaught, closed
<1>2. \A d \in Calls \ {c} : status'[d] = status[d] /\ lease'[d] = lease[d] /\ heard'[d] = heard[d]
  BY DEF postCaught, closed, Note, IInv, Types, TypeOK
<1> QED
  BY <1>1, <1>2 DEF Left, Others, IInv, Types, TypeOK

LEMMA SdkCaughtLeaves ==
    ASSUME IInv, NEW c \in Calls, NEW err, NEW how, sdkCaught(c, err), Note(c, how),
           UNCHANGED <<attempt, answer>>
    PROVE  Left(c)
<1>1. pc' = [pc EXCEPT ![c] = "ready"] \/ pc' = [pc EXCEPT ![c] = "failed"]
  BY DEF sdkCaught, closed
<1>2. \A d \in Calls \ {c} : status'[d] = status[d] /\ lease'[d] = lease[d] /\ heard'[d] = heard[d]
  BY DEF sdkCaught, closed, Note, IInv, Types, TypeOK
<1> QED
  BY <1>1, <1>2 DEF Left, Others, IInv, Types, TypeOK

LEMMA ClosedLeaves ==
    ASSUME IInv, NEW c \in Calls, NEW err, closed(c, err), UNCHANGED <<attempt, answer, status>>,
           \A d \in Calls \ {c} : heard'[d] = heard[d]
    PROVE  Left(c)
  BY DEF closed, Left, Others, IInv, Types, TypeOK

LEMMA CaughtLeaves ==
    ASSUME IInv, NEW c \in Calls, NEW err, NEW how, Caught(c, err), Note(c, how),
           UNCHANGED <<attempt, answer>>
    PROVE  Left(c)
  BY PostCaughtLeaves, SdkCaughtLeaves DEF Caught

LEMMA QuietActions ==
    ASSUME IInv, HeldBack, NEW c \in Calls,
           \/ granted(c) \/ rate_limited(c) \/ noAnswer(c) \/ ttsTimeout(c) \/ requestTimeout(c)
           \/ succeeds(c) \/ postRejected(c) \/ bodyFails(c)
    PROVE  HeldBack' /\ UNCHANGED floor
<1>0. pc[c] \in {"idle", "flight"} => answer[c] = 0
  BY DEF HeldBack, Owed
<1>1. CASE granted(c)
  <2>1. Others(c) /\ pc[c] # "failed" /\ pc'[c] = "ready"
    BY <1>1 DEF granted, call, Others, IInv, Types, TypeOK
  <2> QED
    BY <1>1, <2>1, BetweenAttempts DEF granted, call
<1>2. CASE rate_limited(c)
  <2>1. Others(c) /\ pc[c] # "failed" /\ pc'[c] = "failed" /\ answer[c] = 0
    BY <1>0, <1>2 DEF rate_limited, call, Others, IInv, Types, TypeOK
  <2> QED
    BY <1>2, <2>1, BetweenAttempts DEF rate_limited, call
<1>3. CASE noAnswer(c)
  <2>1. PICK e \in {ConnectFails, Reset} :
           Note(c, IF e = ConnectFails THEN "unsent" ELSE "unknown") /\ Caught(c, e)
    BY <1>3 DEF noAnswer
  <2>2. Left(c) /\ answer[c] = 0 /\ pc[c] # "failed"
    BY <1>0, <1>3, <2>1, CaughtLeaves DEF noAnswer
  <2> QED
    BY <1>3, <2>2, BetweenAttempts DEF noAnswer, Left
<1>4. CASE ttsTimeout(c)
  <2>1. Left(c) /\ client[c] # "llm" /\ pc[c] # "failed"
    BY <1>4, ClosedLeaves DEF ttsTimeout, call
  <2> QED
    BY <1>4, <2>1, BetweenAttempts DEF ttsTimeout, call, Left
<1>5. CASE requestTimeout(c)
  <2>1. Left(c) /\ pc[c] # "failed" /\ (client[c] = "llm" => answer[c] = 0)
    BY <1>0, <1>5, CaughtLeaves DEF requestTimeout
  <2> QED
    BY <1>5, <2>1, BetweenAttempts DEF requestTimeout, Left
<1>6. CASE succeeds(c)
  <2>1. Others(c) /\ pc[c] # "failed" /\ pc'[c] = "done"
    BY <1>6 DEF succeeds, call, Note, Others, IInv, Types, TypeOK
  <2> QED
    BY <1>6, <2>1, BetweenAttempts DEF succeeds, call
<1>7. CASE postRejected(c)
  <2>1. /\ Note(c, "read") /\ pc[c] = "body" /\ client[c] = "embedding"
        /\ UNCHANGED <<client, attempt, answer, header, floor, now, demands>>
    BY <1>7 DEF postRejected
  <2>2. CASE \E s, err : postCaught(c, s, err)
    BY <2>1, <2>2, PostCaughtLeaves, BetweenAttempts DEF Left
  <2>3. CASE UNCHANGED <<status, wake>> /\ closed(c, <<Node(answer[c], "none")>>)
    <3>1. \A d \in Calls \ {c} : heard'[d] = heard[d]
      BY <2>1 DEF Note, IInv, Types
    <3> QED
      BY <2>1, <2>3, <3>1, ClosedLeaves, BetweenAttempts DEF Left
  <2> QED
    BY <1>7, <2>1, <2>2, <2>3 DEF postRejected
<1>8. CASE bodyFails(c)
  <2>1. /\ Note(c, "cut") /\ pc[c] = "body" /\ (client[c] = "llm" => answer[c] # 429)
        /\ UNCHANGED <<client, attempt, answer, header, floor, now, demands>>
    BY <1>8 DEF bodyFails, OK
  <2>2. CASE postCaught(c, Kept(c), Reset)
    BY <2>1, <2>2, PostCaughtLeaves, BetweenAttempts DEF Left
  <2>3. CASE closed(c, Reset) /\ UNCHANGED <<status, wake>>
    <3>1. \A d \in Calls \ {c} : heard'[d] = heard[d]
      BY <2>1 DEF Note, IInv, Types
    <3> QED
      BY <2>1, <2>3, <3>1, ClosedLeaves, BetweenAttempts DEF Left
  <2> QED
    BY <1>8, <2>1, <2>2, <2>3 DEF bodyFails
<1> QED
  BY <1>1, <1>2, <1>3, <1>4, <1>5, <1>6, <1>7, <1>8

LEMMA SendKeepsFloor ==
    ASSUME IInv, HeldBack, NEW c \in Calls, send(c)
    PROVE  HeldBack' /\ UNCHANGED floor
<1> USE DEF send
<1>1. Others(c)
  BY DEF Others, IInv, Types, TypeOK
<1>2. NoHeader \in Headers /\ header \in [Calls -> Headers] /\ header' = [header EXCEPT ![c] = NoHeader]
  BY ProviderAssumption DEF HeldBack, FloorTypes
<1>3. header' \in [Calls -> Headers] /\ \A d \in Calls \ {c} : header'[d] = header[d]
  BY <1>2
<1>4. Owed(c)'
  <2>1. attempt'[c] = attempt[c] + 1 /\ attempt[c] \in Nat /\ pc'[c] = "flight" /\ answer'[c] = 0
    BY DEF IInv, Types, TypeOK
  <2>2. \A d \in demands : d.attempt \in Nat
    BY DEF HeldBack, FloorTypes, Demand
  <2> QED
    BY <2>1, <2>2 DEF HeldBack, Owed
<1>5. pc[c] # "failed" /\ pc'[c] # "failed"
  BY DEF IInv, Types, TypeOK
<1> QED
  BY <1>1, <1>3, <1>4, <1>5, QuietStep

(* An answer, a 429 among them: an embedding's holds its limiter back at
   once, another's waits until the SDK has thrown it. *)
LEMMA RespondsKeepsFloor ==
    ASSUME IInv, HeldBack, NEW c \in Calls, responds(c)
    PROVE  HeldBack' /\ \A q \in Kinds : floor[q] <= floor'[q]
<1>1. PICK s \in Statuses, h \in Headers :
        /\ answer' = [answer EXCEPT ![c] = s]
        /\ demands' = IF s = 429 THEN demands \union { [call |-> c, attempt |-> attempt[c], until |-> Meant(h)] }
                      ELSE demands
        /\ IF s = 429 /\ client[c] = "embedding"
           THEN penalize("embedding", retryAfterMs(h)) /\ UNCHANGED header
           ELSE header' = [header EXCEPT ![c] = h] /\ UNCHANGED floor
  <2>1. PICK s \in Statuses, h \in Headers :
          /\ answer' = [answer EXCEPT ![c] = s]
          /\ demands' = IF s = 429 THEN demands \union { [call |-> c, attempt |-> attempt[c], until |-> Meant(h)] }
                        ELSE demands
          /\ IF Refusal(s) /\ client[c] = "embedding"
             THEN /\ penalize("embedding", retryAfterMs(h))
                  /\ backoff' = [backoff EXCEPT ![c] = Smaller(retryAfterMs(h), MaxRetryBackoffMs)]
                  /\ UNCHANGED header
             ELSE header' = [header EXCEPT ![c] = h] /\ UNCHANGED <<floor, backoff>>
    BY Zenon DEF responds
  <2>2. IF s = 429 /\ client[c] = "embedding"
        THEN penalize("embedding", retryAfterMs(h)) /\ UNCHANGED header
        ELSE header' = [header EXCEPT ![c] = h] /\ UNCHANGED floor
    BY <2>1 DEF Refusal
  <2> QED
    BY <2>1, <2>2
<1>2. /\ pc[c] = "flight" /\ pc' = [pc EXCEPT ![c] = "body"]
      /\ UNCHANGED <<client, attempt, status, lease, heard, now>>
  BY DEF responds
<1>3. /\ Others(c) /\ pc'[c] = "body" /\ answer'[c] = s /\ attempt'[c] = attempt[c] /\ attempt[c] \in Nat
  BY <1>1, <1>2 DEF Others, IInv, Types, TypeOK
<1>4. /\ now \in Nat /\ floor \in [Kinds -> Int] /\ header \in [Calls -> Headers] /\ demands \subseteq Demand
      /\ client \in [Calls -> Kinds]
  BY DEF HeldBack, FloorTypes, IInv, Types
<1>5. header' \in [Calls -> Headers] /\ \A d \in Calls \ {c} : header'[d] = header[d]
  BY <1>1, <1>4
<1>6. CASE s # 429
  <2>1. demands' = demands /\ floor' = floor
    BY <1>1, <1>6
  <2>2. Owed(c)'
    BY <1>3, <1>6, <2>1 DEF HeldBack, Owed
  <2> QED
    BY <1>2, <1>3, <1>4, <1>5, <2>1, <2>2, QuietStep
<1>7. CASE s = 429
  <2>1. PICK d0 : d0 = [call |-> c, attempt |-> attempt[c], until |-> Meant(h)]
    OBVIOUS
  <2>2. PICK w \in Nat : w = retryAfterMs(h) /\ w <= Longest
                         /\ Meant(h) \in Int /\ Meant(h) <= now + w /\ (w > 0 => Meant(h) = now + w)
    BY <1>4, HeaderIsRead
  <2>3. demands' = demands \union {d0} /\ d0 \in Demand
    BY <1>1, <1>3, <1>7, <2>1, <2>2 DEF Demand
  <2>4. \A d : d.call # c => (d \in demands' <=> d \in demands)
    BY <2>1, <2>3
  <2>5. \A d \in Calls \ {c} : Owed(d)'
    BY <1>2, <1>3, <1>5, <2>4, OthersOwed
  <2>6. \A d \in demands : d.call = c => d.attempt < attempt[c] /\ d.attempt \in Nat
    BY <1>2, <1>4 DEF HeldBack, Owed, Demand
  <2>7. ASSUME NEW k \in Kinds
        PROVE  Heeded(k)' = IF k = "embedding" /\ client[c] = k THEN Heeded(k) \union {d0} ELSE Heeded(k)
    <3>1. ASSUME NEW d \in demands PROVE (d \in Heeded(k)) <=> (d \in Heeded(k)')
      <4>1. d.call \in Calls
        BY <1>4 DEF Demand
      <4>2. CASE d.call = c
        BY <1>2, <1>3, <2>3, <4>1, <4>2 DEF Heeded
      <4>3. CASE d.call # c
        BY <1>2, <1>3, <2>3, <4>1, <4>3 DEF Heeded, Others
      <4> QED
        BY <4>2, <4>3
    <3>2. d0 \in Heeded(k)' <=> (k = "embedding" /\ client[c] = k)
      BY <1>2, <1>3, <2>1, <2>3 DEF Heeded
    <3>3. d0 \notin demands
      BY <2>1, <2>6, <1>3
    <3>4. Heeded(k)' \subseteq demands' /\ Heeded(k) \subseteq demands
      BY DEF Heeded
    <3> QED
      BY <2>3, <3>1, <3>2, <3>3, <3>4
  <2>8. CASE client[c] = "embedding"
    <3>1. floor' = [floor EXCEPT !["embedding"] = Larger(@, now + w)] /\ header' = header
      BY <1>1, <1>7, <2>2, <2>8 DEF penalize
    <3>2. PICK m \in Int : m = Larger(floor["embedding"], now + w)
      BY <1>4, <2>2 DEF Larger, Kinds
    <3>3. /\ m >= floor["embedding"] /\ m >= now + w /\ (m = floor["embedding"] \/ m = now + w)
          /\ floor' = [floor EXCEPT !["embedding"] = m] /\ floor["embedding"] \in Int
      BY <1>4, <2>2, <3>1, <3>2 DEF Larger, Kinds
    <3>4. /\ floor' \in [Kinds -> Int] /\ floor'["embedding"] = m
          /\ \A k \in Kinds : k # "embedding" => floor'[k] = floor[k]
      BY <1>4, <3>3 DEF Kinds
    <3>5. FloorTypes'
      BY <1>2, <1>4, <1>5, <2>3, <3>4 DEF HeldBack, FloorTypes, Kinds
    <3>6. \A k \in Kinds : floor'[k] <= now' + Longest /\ floor[k] <= floor'[k]
      <4>1. Longest \in Nat /\ \A k \in Kinds : floor[k] \in Int /\ floor[k] <= now + Longest
        BY <1>4, ProviderAssumption DEF HeldBack, Longest, Larger
      <4> QED
        BY <1>2, <1>4, <2>2, <3>3, <3>4, <4>1
    <3>7. Owed(c)'
      BY <1>2, <1>3, <2>1, <2>3, <2>6, <2>8 DEF Owed
    <3>8. RefusalIsHonoured'
      <4>1. \A k \in Kinds : k # "embedding" => Heeded(k)' = Heeded(k)
        BY <2>7
      <4>2. Heeded("embedding")' = Heeded("embedding") \union {d0} /\ d0.until = Meant(h)
        BY <2>1, <2>7, <2>8 DEF Kinds
      <4>3. \A k \in Kinds : \A d \in Heeded(k)' : d.until <= floor'[k]
        <5>1. ASSUME NEW d \in Heeded("embedding") PROVE d.until <= m
          <6>1. d.until \in Int /\ d.until <= floor["embedding"]
            BY <1>4 DEF Heeded, HeldBack, RefusalIsHonoured, Demand, Kinds
          <6> QED
            BY <3>3, <6>1
        <5>2. d0.until <= m
          BY <1>4, <2>2, <3>3, <4>2
        <5> QED
          BY <3>4, <4>1, <4>2, <5>1, <5>2 DEF HeldBack, RefusalIsHonoured
      <4>4. m > now => \E d \in Heeded("embedding")' : d.until = m
        <5>1. CASE m = floor["embedding"]
          BY <4>2, <5>1 DEF HeldBack, RefusalIsHonoured
        <5>2. CASE m = now + w /\ m > now
          BY <1>4, <2>2, <4>2, <5>2
        <5> QED
          BY <3>3, <5>1, <5>2
      <4>5. \A k \in Kinds : floor'[k] > now' => Heeded(k)' # {}
        BY <1>2, <3>4, <4>1, <4>2 DEF HeldBack, RefusalIsHonoured
      <4> QED
        BY <1>2, <3>4, <4>3, <4>4, <4>5 DEF RefusalIsHonoured
    <3> QED
      BY <2>5, <3>5, <3>6, <3>7, <3>8 DEF HeldBack
  <2>9. CASE client[c] # "embedding"
    <3>1. floor' = floor /\ header'[c] = h
      BY <1>1, <1>4, <2>9
    <3>2. FloorTypes' /\ \A k \in Kinds : floor'[k] <= now' + Longest
      BY <1>2, <1>4, <1>5, <2>3, <3>1 DEF HeldBack, FloorTypes
    <3>3. \A k \in Kinds : Heeded(k)' = Heeded(k)
      BY <2>7, <2>9
    <3>4. RefusalIsHonoured'
      <4>1. Heeded("embedding")' = Heeded("embedding")
        BY <3>3 DEF Kinds
      <4> QED
        BY <1>2, <3>1, <3>3, <4>1 DEF HeldBack, RefusalIsHonoured
    <3>5. Owed(c)'
      <4>1. Asked(c)' = {d0}
        BY <1>3, <2>1, <2>3, <2>6 DEF Asked
      <4>2. retryAfterMs(header[c])' = w
        BY <1>2, <2>2, <3>1 DEF retryAfterMs, parsed, clamp, HTTP_DATE_PREFIX, isNaN, NamesZone, ASCTIME
      <4>3. \A d \in demands' : d.call = c => d.attempt <= attempt'[c]
        BY <1>3, <2>1, <2>3, <2>6
      <4> QED
        BY <1>2, <1>3, <2>1, <2>2, <4>1, <4>2, <4>3 DEF Owed
    <3>6. \A q \in Kinds : floor[q] <= floor'[q]
      BY <1>4, <3>1
    <3> QED
      BY <2>5, <3>2, <3>4, <3>5, <3>6 DEF HeldBack
  <2> QED
    BY <2>8, <2>9
<1> QED
  BY <1>6, <1>7

(* The SDK's last error: of an LLM's 429 the limiter is told now. *)
LEMMA SdkRejectedKeepsFloor ==
    ASSUME IInv, HeldBack, NEW c \in Calls, sdkRejected(c)
    PROVE  HeldBack' /\ \A q \in Kinds : floor[q] <= floor'[q]
<1>1. /\ Note(c, "read") /\ pc[c] = "body" /\ sdkCaught(c, <<Node(answer[c], "none")>>)
      /\ UNCHANGED <<client, attempt, answer, header, now, demands>>
  BY DEF sdkRejected
<1>2. IF client[c] = "llm" /\ pc'[c] = "failed" /\ answer[c] = 429
      THEN penalize("llm", retryAfterMs(header[c])) ELSE floor' = floor
  <2>1. is429(<<Node(answer[c], "none")>>) <=> answer[c] = 429
    BY DEF is429, Node
  <2> QED
    BY <2>1 DEF sdkRejected
<1>3. Left(c)
  BY <1>1, SdkCaughtLeaves
<1>4. /\ now \in Nat /\ floor \in [Kinds -> Int] /\ header \in [Calls -> Headers] /\ demands \subseteq Demand
  BY DEF HeldBack, FloorTypes
<1>5. CASE ~(client[c] = "llm" /\ pc'[c] = "failed" /\ answer[c] = 429)
  <2>1. UNCHANGED <<client, attempt, answer, header, floor, now, demands>>
    BY <1>1, <1>2, <1>5
  <2>2. HeldBack'
    BY <1>1, <1>3, <1>5, <2>1, BetweenAttempts DEF Left
  <2> QED
    BY <1>4, <2>1, <2>2
<1>6. CASE client[c] = "llm" /\ pc'[c] = "failed" /\ answer[c] = 429
  <2>1. PICK w \in Nat : w = retryAfterMs(header[c]) /\ w <= Longest
    BY <1>4, HeaderIsRead
  <2>2. floor' = [floor EXCEPT !["llm"] = Larger(@, now + w)]
    BY <1>2, <1>6, <2>1 DEF penalize
  <2>3. PICK m \in Int : m = Larger(floor["llm"], now + w)
    BY <1>4 DEF Larger, Kinds
  <2>4. /\ m >= floor["llm"] /\ m >= now + w /\ (m = floor["llm"] \/ m = now + w)
        /\ floor' = [floor EXCEPT !["llm"] = m] /\ floor["llm"] \in Int
    BY <1>4, <2>2, <2>3 DEF Larger, Kinds
  <2>5. /\ floor' \in [Kinds -> Int] /\ floor'["llm"] = m
        /\ \A k \in Kinds : k # "llm" => floor'[k] = floor[k]
    BY <1>4, <2>4 DEF Kinds
  <2>6. FloorTypes'
    BY <1>1, <1>4, <2>5 DEF HeldBack, FloorTypes, Kinds
  <2>7. \A k \in Kinds : floor'[k] <= now' + Longest /\ floor[k] <= floor'[k]
    <3>1. Longest \in Nat /\ \A k \in Kinds : floor[k] \in Int /\ floor[k] <= now + Longest
      BY <1>4, ProviderAssumption DEF HeldBack, Longest, Larger
    <3> QED
      BY <1>1, <1>4, <2>1, <2>4, <2>5, <3>1
  <2>8. \A d \in Calls : Owed(d)'
    <3>1. \A d \in Calls \ {c} : Owed(d)'
      BY <1>1, <1>3, OthersOwed DEF Left
    <3>2. Owed(c)'
      BY <1>1, <1>6 DEF HeldBack, Owed
    <3> QED
      BY <3>1, <3>2
  <2>9. \A k \in Kinds : Heeded(k)' = IF k = "llm" THEN Heeded(k) \union Asked(c) ELSE Heeded(k)
    <3>1. ASSUME NEW k \in Kinds, NEW d \in demands
          PROVE  (d \in Heeded(k)') <=> (d \in Heeded(k) \/ (k = "llm" /\ d \in Asked(c)))
      <4>1. d.call \in Calls
        BY <1>4 DEF Demand
      <4>2. CASE d.call = c
        BY <1>1, <1>3, <1>6, <4>1, <4>2 DEF Heeded, Asked, Left
      <4>3. CASE d.call # c
        BY <1>1, <1>3, <4>1, <4>3 DEF Heeded, Others, Asked, Left
      <4> QED
        BY <4>2, <4>3
    <3> QED
      BY <1>1, <3>1 DEF Heeded, Asked
  <2>10. RefusalIsHonoured'
    <3>1. Asked(c) # {} /\ \A d \in Asked(c) : d.until <= now + w
      BY <1>1, <1>6, <2>1 DEF HeldBack, Owed
    <3>2. \A k \in Kinds : k # "llm" => Heeded(k)' = Heeded(k)
      BY <2>9
    <3>3. Heeded("llm")' = Heeded("llm") \union Asked(c)
      BY <2>9 DEF Kinds
    <3>4. ASSUME NEW d \in Heeded("llm")' PROVE d.until <= m
      <4>1. d.until \in Int
        BY <1>1, <1>4 DEF Heeded, Demand
      <4>2. CASE d \in Heeded("llm")
        <5>1. d.until <= floor["llm"]
          BY <4>2 DEF HeldBack, RefusalIsHonoured, Kinds
        <5> QED
          BY <2>4, <4>1, <5>1
      <4>3. CASE d \in Asked(c)
        BY <1>4, <2>1, <2>4, <3>1, <4>1, <4>3
      <4> QED
        BY <3>3, <4>2, <4>3
    <3>5. \A k \in Kinds : \A d \in Heeded(k)' : d.until <= floor'[k]
      BY <2>5, <3>2, <3>4 DEF HeldBack, RefusalIsHonoured
    <3>6. \A k \in Kinds : floor'[k] > now' => Heeded(k)' # {}
      BY <1>1, <2>5, <3>1, <3>2, <3>3 DEF HeldBack, RefusalIsHonoured
    <3>7. floor'["embedding"] > now' => \E d \in Heeded("embedding")' : d.until = floor'["embedding"]
      BY <1>1, <2>5, <3>2 DEF HeldBack, RefusalIsHonoured, Kinds
    <3> QED
      BY <3>5, <3>6, <3>7 DEF RefusalIsHonoured
  <2> QED
    BY <2>6, <2>7, <2>8, <2>10 DEF HeldBack
<1> QED
  BY <1>5, <1>6

LEMMA TickKeepsFloor ==
    ASSUME IInv, HeldBack, Tick
    PROVE  HeldBack' /\ UNCHANGED floor
<1>1. /\ now \in Nat /\ now' = now + 1
      /\ UNCHANGED <<client, pc, attempt, answer, header, floor, demands>>
  BY DEF Tick, call, HeldBack, FloorTypes
<1>2. /\ floor \in [Kinds -> Int] /\ header \in [Calls -> Headers]
  BY DEF HeldBack, FloorTypes
<1>3. FloorTypes'
  BY <1>1 DEF HeldBack, FloorTypes
<1>4. \A k \in Kinds : floor'[k] <= now' + Longest
  <2>1. Longest \in Nat /\ \A k \in Kinds : floor[k] \in Int /\ floor[k] <= now + Longest
    BY <1>2, ProviderAssumption DEF HeldBack, Longest, Larger
  <2> QED
    BY <1>1, <2>1
<1>5. ASSUME NEW c \in Calls PROVE Owed(c)'
  <2>1. PICK h \in Headers : h = header[c]
    BY <1>2
  <2>2. retryAfterMs(h) \in Int
    BY <1>1, HeaderIsRead
  <2>3. now + retryAfterMs(h) <= now' + retryAfterMs(h)'
    BY <1>1, HeaderKeeps
  <2>4. PICK a : a = retryAfterMs(h)'
    OBVIOUS
  <2>5. retryAfterMs(header[c])' = a
    BY <1>1, <2>1, <2>4 DEF retryAfterMs, parsed, clamp, HTTP_DATE_PREFIX, isNaN, NamesZone, ASCTIME
  <2>6. a \in Int
    <3>1. /\ h.value \in Int /\ MaxPenaltyMs \in Nat /\ Penalty429Ms \in Nat /\ ZoneOffset \in Int
          /\ now' \in Int
      BY <1>1, ProviderAssumption DEF HeaderType
    <3> QED
      BY <2>4, <3>1 DEF retryAfterMs, clamp, parsed, Smaller, Larger
  <2>7. Asked(c)' = Asked(c) /\ \A d \in Asked(c) : d.until \in Int
    BY <1>1 DEF Asked, HeldBack, FloorTypes, Demand
  <2>8. Owed(c)
    BY DEF HeldBack
  <2>9. (client[c] = "llm" /\ pc[c] = "body" /\ answer[c] = 429)
          => Asked(c) # {} /\ \A d \in Asked(c) : d.until <= now' + a
    <3> SUFFICES ASSUME client[c] = "llm", pc[c] = "body", answer[c] = 429
                 PROVE  Asked(c) # {} /\ \A d \in Asked(c) : d.until <= now' + a
      OBVIOUS
    <3>1. Asked(c) # {} /\ \A d \in Asked(c) : d.until <= now + retryAfterMs(h)
      BY <2>1, <2>8 DEF Owed
    <3> QED
      BY <1>1, <2>2, <2>3, <2>4, <2>6, <2>7, <3>1
  <2> QED
    BY <1>1, <2>5, <2>7, <2>8, <2>9 DEF Owed
<1>6. RefusalIsHonoured'
  <2>1. \A k \in Kinds : Heeded(k)' = Heeded(k)
    BY <1>1 DEF Heeded
  <2>2. Heeded("embedding")' = Heeded("embedding") /\ "embedding" \in Kinds
    BY <2>1 DEF Kinds
  <2>3. \A k \in Kinds : floor'[k] > now' => floor[k] > now
    BY <1>1, <1>2
  <2> QED
    BY <1>1, <2>1, <2>2, <2>3 DEF HeldBack, RefusalIsHonoured
<1> QED
  BY <1>1, <1>3, <1>4, <1>5, <1>6 DEF HeldBack

LEMMA FloorStep ==
    ASSUME IInv, HeldBack, [Next]_vars
    PROVE  HeldBack' /\ \A q \in Kinds : floor[q] <= floor'[q]
<1>1. UNCHANGED floor => \A q \in Kinds : floor[q] <= floor'[q]
  BY DEF HeldBack, FloorTypes
<1>2. CASE UNCHANGED vars
  <2>1. UNCHANGED <<client, pc, attempt, answer, header, floor, now, demands>>
    BY <1>2 DEF vars
  <2>2. ASSUME NEW c \in Calls PROVE Owed(c)'
    <3>1. retryAfterMs(header[c])' = retryAfterMs(header[c]) /\ Asked(c)' = Asked(c)
      BY <2>1 DEF retryAfterMs, parsed, clamp, HTTP_DATE_PREFIX, isNaN, NamesZone, ASCTIME, Asked
    <3> QED
      BY <2>1, <3>1 DEF HeldBack, Owed
  <2>3. RefusalIsHonoured'
    <3>1. Heeded("embedding")' = Heeded("embedding") /\ \A k \in Kinds : Heeded(k)' = Heeded(k)
      BY <2>1 DEF Heeded
    <3> QED
      BY <2>1, <3>1 DEF HeldBack, RefusalIsHonoured
  <2> QED
    BY <1>1, <2>1, <2>2, <2>3 DEF HeldBack, FloorTypes
<1>3. CASE Tick
  BY <1>1, <1>3, TickKeepsFloor
<1>4. ASSUME NEW c \in Calls, Step(c) PROVE HeldBack' /\ \A q \in Kinds : floor[q] <= floor'[q]
  <2>1. CASE responds(c) \/ sdkRejected(c)
    BY <2>1, RespondsKeepsFloor, SdkRejectedKeepsFloor
  <2>2. CASE send(c)
    BY <1>1, <2>2, SendKeepsFloor
  <2>3. CASE ~(responds(c) \/ sdkRejected(c) \/ send(c))
    BY <1>1, <1>4, <2>3, QuietActions DEF Step
  <2> QED
    BY <2>1, <2>2, <2>3
<1> QED
  BY <1>2, <1>3, <1>4 DEF Next

LEMMA HeldBackHolds == Spec => []HeldBack
<1>1. Init => HeldBack
  <2> SUFFICES ASSUME Init PROVE HeldBack
    OBVIOUS
  <2>1. Longest \in Nat /\ NoHeader \in Headers
    BY ProviderAssumption DEF Longest, Larger
  <2>2. FloorTypes /\ now = 0 /\ demands = {} /\ \A k \in Kinds : floor[k] = 0
    BY <2>1 DEF Init, FloorTypes, Kinds
  <2>3. \A c \in Calls : Owed(c)
    BY <2>2 DEF Init, Owed
  <2>4. RefusalIsHonoured
    BY <2>2 DEF RefusalIsHonoured, Heeded, Kinds
  <2> QED
    BY <2>1, <2>2, <2>3, <2>4 DEF HeldBack
<1>2. IInv /\ HeldBack /\ [Next]_vars => HeldBack'
  BY FloorStep
<1> QED
  BY <1>1, <1>2, IInvHolds, PTL DEF Spec

(* No call is granted before the time every refusal passed on to its limiter
   asked for, be it a delay, a date of any of the three forms or nothing that
   can be read (retryAfterMs, penalize), with the host in any zone; and the
   embedding limiter waits for no longer than one of them asked. *)
THEOREM RefusalsAreHonoured == Spec => []RefusalIsHonoured
<1>1. HeldBack => RefusalIsHonoured
  BY DEF HeldBack
<1> QED
  BY <1>1, HeldBackHolds, PTL

\* A refusal holds a quota back for a bounded time, and none is taken back.
HoldOffsEnd == \A k \in Kinds : floor[k] - now <= Longest
HoldOffsStand == [][\A k \in Kinds : floor[k] <= floor'[k]]_vars

(* No 429, with whatever header, holds a limiter back for longer than the
   ceiling, and none shortens the hold-off another asked for. *)
THEOREM HoldOffsAreBounded == Spec => []HoldOffsEnd /\ HoldOffsStand
<1>1. HeldBack => HoldOffsEnd
  <2>1. Longest \in Nat
    BY ProviderAssumption DEF Longest, Larger
  <2> QED
    BY <2>1 DEF HeldBack, FloorTypes, HoldOffsEnd
<1>2. IInv /\ HeldBack /\ [Next]_vars => [\A k \in Kinds : floor[k] <= floor'[k]]_vars
  BY FloorStep
<1> QED
  BY <1>1, <1>2, HeldBackHolds, IInvHolds, PTL DEF Spec, HoldOffsStand
=============================================================================
