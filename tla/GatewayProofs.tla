---------------------------- MODULE GatewayProofs ----------------------------
(***************************************************************************)
(* The gateway of a cart, for any sockets, sessions, replies and versions: *)
(* the registry is exact, a resuming client misses no cart, a session's    *)
(* abort handle is that of its speaking reply, and replies never overlap.  *)
(*                                                                         *)
(* The argument has three parts that share the state of the connections.   *)
(* Sockets: what is found by session_id belongs to that session, so a      *)
(* close takes no other session's entry.  Carts: a snapshot that is older  *)
(* than a broadcast was overtaken by it, and the client has that one.      *)
(* Spoken: replies begin in the order of their numbers, and one that may   *)
(* still speak is the one whose handle the session holds.                  *)
(***************************************************************************)
EXTENDS Gateway, TLAPS

Held == {"open", "half", "shut"}

\* The three parts of TypeOK.
SocketTypes ==
    /\ link \in [Socket -> Link] /\ alive \in SUBSET Socket
    /\ bySession \in [Session -> Socket \cup {None}] /\ byCart \in SUBSET Socket
    /\ voice \in [Session -> Socket \cup {None}]
CartTypes ==
    /\ load \in Loads /\ stored \in 0..load.versions /\ announced \in 0..stored
    /\ snapshots \in [Socket -> SUBSET Nat] /\ got \in [Socket -> Nat \cup {None}]
Said == [stage : {"none", "synthesizing", "done", "unsaid"},
         session : Session \cup {None}, conn : Socket \cup {None},
         left : 0..MaxSegments, aborted : BOOLEAN, seq : 0..MaxSegments, last : {"none", "end", "error"}]
SpeechTypes == inflight \in [Session -> Reply \cup {None}] /\ speech \in [Reply -> Said]

\* The registry, and whom the sessions' entries and voices belong to.
Sockets ==
    /\ byCart = {k \in Socket : link[k] \in Held}
    /\ \A s \in Session :
           /\ bySession[s] # None => bySession[s] \in byCart /\ SessionOf[bySession[s]] = s
           /\ voice[s] # None => voice[s] \in byCart /\ SessionOf[voice[s]] = s

\* A client has what was announced, or has nothing and its snapshots in flight
\* are as new as that.
Carts ==
    \A k \in Socket :
        /\ link[k] = "new" => got[k] = None /\ snapshots[k] = {}
        /\ link[k] = "open" /\ got[k] # None => got[k] >= announced
        /\ link[k] = "open" /\ got[k] = None => \A v \in snapshots[k] : v >= announced

\* A reply: what is left of it fits its bound, and who can cancel it.
Utterance(r) ==
    /\ speech[r].stage = "none" => speech[r] = silence
    /\ speech[r].stage = "synthesizing" =>
           /\ speech[r].session \in Session
           /\ speech[r].left > 0 /\ speech[r].seq + speech[r].left <= MaxSegments
           /\ ~speech[r].aborted => inflight[speech[r].session] = r
    /\ \A q \in Reply : q < r /\ speech[q].stage = "none" => speech[r].stage = "none"

\* A handle: the reply speaks to this session, and is the last to have begun.
Handle(s) ==
    LET r == inflight[s] IN
    r # None =>
        /\ speech[r].stage = "synthesizing" /\ ~speech[r].aborted /\ speech[r].session = s
        /\ \A q \in Reply : q > r /\ speech[q].session = s => speech[q].stage \in {"none", "unsaid"}

Spoken == (\A r \in Reply : Utterance(r)) /\ (\A s \in Session : Handle(s))

IInv == TypeOK /\ Sockets /\ Carts /\ Spoken

LEMMA Types == TypeOK <=> SocketTypes /\ CartTypes /\ SpeechTypes
<1> QED
  BY DEF TypeOK, SocketTypes, CartTypes, SpeechTypes, Said

-----------------------------------------------------------------------------
(* Connections *)

LEMMA SocketsStep ==
    ASSUME SocketTypes, Sockets, [Next]_vars
    PROVE  SocketTypes' /\ Sockets'
<1> USE SessionAssumption DEF SocketTypes, Sockets, Link, Held
<1>1. ASSUME NEW k \in Socket, onConnect(k) PROVE SocketTypes' /\ Sockets'
  <2>1. SocketTypes'
    BY <1>1 DEF onConnect
  <2>2. byCart' = {j \in Socket : link'[j] \in Held}
    BY <1>1 DEF onConnect
  <2>3. ASSUME NEW s \in Session
        PROVE  /\ bySession'[s] # None => bySession'[s] \in byCart' /\ SessionOf[bySession'[s]] = s
               /\ voice'[s] # None => voice'[s] \in byCart' /\ SessionOf[voice'[s]] = s
    BY <1>1 DEF onConnect
  <2> QED
    BY <2>1, <2>2, <2>3
<1>2. ASSUME NEW k \in Socket, PeerLeaves(k) PROVE SocketTypes' /\ Sockets'
  <2>1. SocketTypes' /\ byCart' = byCart /\ bySession' = bySession /\ voice' = voice
    BY <1>2 DEF PeerLeaves, registry
  <2>2. \A j \in Socket : link'[j] \in Held <=> link[j] \in Held
    BY <1>2 DEF PeerLeaves
  <2> QED
    BY <2>1, <2>2
<1>3. ASSUME NEW k \in Socket, onDisconnect(k) PROVE SocketTypes' /\ Sockets'
  <2>1. SocketTypes'
    BY <1>3 DEF onDisconnect
  <2>2. byCart' = {j \in Socket : link'[j] \in Held}
    BY <1>3 DEF onDisconnect
  <2>3. ASSUME NEW s \in Session
        PROVE  /\ bySession'[s] # None => bySession'[s] \in byCart' /\ SessionOf[bySession'[s]] = s
               /\ voice'[s] # None => voice'[s] \in byCart' /\ SessionOf[voice'[s]] = s
    <3>1. CASE s = SessionOf[k]
      BY <1>3, <3>1 DEF onDisconnect
    <3>2. CASE s # SessionOf[k]
      <4>1. bySession'[s] = bySession[s] /\ voice'[s] = voice[s] /\ byCart' = byCart \ {k}
        BY <1>3, <3>2 DEF onDisconnect
      <4> QED
        BY <3>2, <4>1
    <3> QED
      BY <3>1, <3>2
  <2> QED
    BY <2>1, <2>2, <2>3
<1>4. ASSUME heartbeat PROVE SocketTypes' /\ Sockets'
  <2>1. SocketTypes' /\ byCart' = byCart /\ bySession' = bySession /\ voice' = voice
    BY <1>4 DEF heartbeat, registry
  <2>2. \A j \in Socket : link'[j] \in Held <=> link[j] \in Held
    BY <1>4 DEF heartbeat, Connected
  <2> QED
    BY <2>1, <2>2
<1>5. ASSUME NEW k \in Socket, pong(k) PROVE SocketTypes' /\ Sockets'
  BY <1>5 DEF pong, registry
<1>6. ASSUME NEW k \in Socket, voiceStart(k) PROVE SocketTypes' /\ Sockets'
  <2>1. k \in byCart
    BY <1>6 DEF voiceStart
  <2>2. SocketTypes' /\ byCart' = byCart /\ bySession' = bySession /\ link' = link
    BY <1>6 DEF voiceStart, registry
  <2>3. \A s \in Session : voice'[s] = IF s = SessionOf[k] THEN k ELSE voice[s]
    BY <1>6 DEF voiceStart
  <2> QED
    BY <2>1, <2>2, <2>3
<1>7. ASSUME UNCHANGED <<link, alive, bySession, byCart, voice>> PROVE SocketTypes' /\ Sockets'
  BY <1>7
<1>8. ASSUME Commit \/ cartUpdated \/ UNCHANGED vars PROVE UNCHANGED <<link, alive, bySession, byCart, voice>>
  BY <1>8 DEF Commit, cartUpdated, vars, registry
<1>9. ASSUME NEW k \in Socket, handleResume(k) \/ resumed(k)
      PROVE  UNCHANGED <<link, alive, bySession, byCart, voice>>
  BY <1>9 DEF handleResume, resumed, registry
<1>10. ASSUME NEW r \in Reply, orderReply(r) \/ synthesized(r)
       PROVE  UNCHANGED <<link, alive, bySession, byCart, voice>>
  BY <1>10 DEF orderReply, synthesized, registry
<1> QED
  BY <1>1, <1>2, <1>3, <1>4, <1>5, <1>6, <1>7, <1>8, <1>9, <1>10 DEF Next

-----------------------------------------------------------------------------
(* Carts *)

\* What a client that is sent a cart has after it.
LEMMA Received ==
    ASSUME CartTypes, NEW to \in SUBSET Socket, NEW version \in Nat
    PROVE  /\ Receive(to, version) \in [Socket -> Nat \cup {None}]
           /\ \A k \in Socket :
                  /\ k \notin to \/ link[k] # "open" => Receive(to, version)[k] = got[k]
                  /\ k \in to /\ link[k] = "open" =>
                         /\ Receive(to, version)[k] # None /\ Receive(to, version)[k] >= version
                         /\ got[k] # None => Receive(to, version)[k] >= got[k]
<1> USE SessionAssumption DEF CartTypes
<1>1. \A k \in Socket : got[k] \in Nat \cup {None}
  OBVIOUS
<1> QED
  BY <1>1 DEF Receive

LEMMA CartsStep ==
    ASSUME SocketTypes, Sockets, CartTypes, Carts, [Next]_vars
    PROVE  CartTypes' /\ Carts'
<1> USE SessionAssumption DEF CartTypes, Carts
<1>0. /\ load \in [replies : 0..Replies, versions : Nat] /\ stored \in Nat /\ announced \in Nat
      /\ load.versions \in Nat
  BY BoundsAssumption
<1>1. ASSUME NEW k \in Socket, onConnect(k) PROVE CartTypes' /\ Carts'
  BY <1>1 DEF onConnect, SocketTypes
<1>2. ASSUME UNCHANGED <<load, stored, announced, snapshots, got>>,
             \A k \in Socket : link'[k] \in {"new", "open"} => link'[k] = link[k]
      PROVE  CartTypes' /\ Carts'
  BY <1>2
<1>3. ASSUME NEW k \in Socket, PeerLeaves(k) \/ onDisconnect(k) \/ pong(k) \/ voiceStart(k)
      PROVE  CartTypes' /\ Carts'
  <2>1. CASE PeerLeaves(k)
    BY <2>1 DEF PeerLeaves, SocketTypes
  <2>2. CASE onDisconnect(k) \/ pong(k) \/ voiceStart(k)
    BY <1>2, <2>2 DEF onDisconnect, pong, voiceStart, SocketTypes
  <2> QED
    BY <1>3, <2>1, <2>2
<1>4. ASSUME heartbeat PROVE CartTypes' /\ Carts'
  BY <1>2, <1>4 DEF heartbeat, SocketTypes
<1>5. ASSUME Commit PROVE CartTypes' /\ Carts'
  BY <1>0, <1>5 DEF Commit
<1>6. ASSUME cartUpdated PROVE CartTypes' /\ Carts'
  <2>1. announced + 1 \in Nat /\ byCart \in SUBSET Socket
    BY <1>0 DEF SocketTypes
  <2>2. /\ got' = Receive(byCart, announced + 1) /\ announced' = announced + 1 /\ announced < stored
        /\ UNCHANGED <<load, link, stored, snapshots>>
    BY <1>6 DEF cartUpdated
  <2>3. CartTypes'
    <3>1. got' \in [Socket -> Nat \cup {None}]
      BY <2>1, <2>2, Received
    <3> QED
      BY <1>0, <2>2, <3>1
  <2>4. ASSUME NEW k \in Socket
        PROVE  /\ link'[k] = "new" => got'[k] = None /\ snapshots'[k] = {}
               /\ link'[k] = "open" => got'[k] # None /\ got'[k] >= announced'
    <3>1. link[k] = "new" => k \notin byCart
      BY DEF Sockets, Held
    <3>2. link[k] = "open" => k \in byCart
      BY DEF Sockets, Held
    <3> HIDE DEF Carts, CartTypes
    <3>3. link[k] = "new" => got'[k] = got[k]
      BY <2>1, <2>2, <3>1, Received
    <3>4. link[k] = "open" => got'[k] # None /\ got'[k] >= announced + 1
      <4> DEFINE version == announced + 1
      <4>1. version \in Nat /\ got' = Receive(byCart, version)
        BY <2>1, <2>2
      <4> HIDE DEF version
      <4>2. link[k] = "open" => got'[k] # None /\ got'[k] >= version
        BY <2>1, <3>2, <4>1, Received
      <4> QED
        BY <4>2 DEF version
    <3> QED
      BY <2>2, <3>3, <3>4 DEF Carts
  <2> QED
    BY <2>3, <2>4
<1>7. ASSUME NEW k \in Socket, handleResume(k) PROVE CartTypes' /\ Carts'
  BY <1>0, <1>7 DEF handleResume
<1>8. ASSUME NEW k \in Socket, resumed(k) PROVE CartTypes' /\ Carts'
  <2>1. PICK version \in snapshots[k] :
               /\ got' = Receive({k}, version)
               /\ snapshots' = [snapshots EXCEPT ![k] = @ \ {version}]
    BY <1>8 DEF resumed
  <2>2. /\ version \in Nat
        /\ \A j \in Socket : snapshots'[j] \subseteq snapshots[j] /\ (j # k => snapshots'[j] = snapshots[j])
        /\ snapshots' \in [Socket -> SUBSET Nat]
        /\ UNCHANGED <<load, link, stored, announced>>
    BY <1>8, <2>1 DEF resumed
  <2>3. CartTypes'
    BY <2>1, <2>2, Received
  <2>4. ASSUME NEW j \in Socket
        PROVE  /\ link'[j] = "new" => got'[j] = None /\ snapshots'[j] = {}
               /\ link'[j] = "open" /\ got'[j] # None => got'[j] >= announced'
               /\ link'[j] = "open" /\ got'[j] = None => \A v \in snapshots'[j] : v >= announced'
    <3>1. CASE j # k
      <4>1. got'[j] = got[j]
        <5>1. j \notin {k} /\ {k} \in SUBSET Socket
          BY <3>1
        <5> HIDE DEF CartTypes, Carts
        <5>2. Receive({k}, version)[j] = got[j]
          <6>1. version \in Nat
            BY <2>2
          <6> QED
            BY <5>1, <6>1, Received
        <5> QED
          BY <2>1, <5>2
      <4>2. snapshots'[j] = snapshots[j]
        BY <2>2, <3>1
      <4> QED
        BY <2>2, <4>1, <4>2
    <3>2. CASE j = k
      <4>1. link[k] # "new"
        BY <1>8 DEF resumed
      <4>2. CASE link[k] # "open"
        BY <2>2, <3>2, <4>1, <4>2
      <4>3. CASE link[k] = "open"
        <5>1. /\ got'[k] # None /\ got'[k] >= version
              /\ got[k] # None => got'[k] >= got[k]
          <6> HIDE DEF CartTypes, Carts
          <6>1. k \in {k} /\ {k} \in SUBSET Socket
            OBVIOUS
          <6>2. LET new == Receive({k}, version) IN
                /\ new[k] # None /\ new[k] >= version
                /\ got[k] # None => new[k] >= got[k]
            BY <2>2, <4>3, <6>1, Received
          <6> QED
            BY <2>1, <6>2
        <5>2. got'[k] \in Nat
          BY <2>3, <5>1
        <5>3. CASE got[k] # None
          BY <1>0, <2>2, <3>2, <4>3, <5>1, <5>2, <5>3
        <5>4. CASE got[k] = None
          <6>1. version >= announced
            BY <1>8, <4>3, <5>4 DEF resumed
          <6> QED
            BY <1>0, <2>1, <2>2, <3>2, <4>3, <5>1, <5>2, <6>1
        <5> QED
          BY <5>3, <5>4
      <4> QED
        BY <4>2, <4>3
    <3> QED
      BY <3>1, <3>2
  <2> QED
    BY <2>3, <2>4
<1>9. ASSUME NEW r \in Reply, orderReply(r) \/ synthesized(r) PROVE CartTypes' /\ Carts'
  BY <1>2, <1>9 DEF orderReply, synthesized
<1>10. ASSUME UNCHANGED vars PROVE CartTypes' /\ Carts'
  BY <1>2, <1>10 DEF vars
<1> QED
  BY <1>1, <1>3, <1>4, <1>5, <1>6, <1>7, <1>8, <1>9, <1>10 DEF Next

-----------------------------------------------------------------------------
(* Replies *)

LEMMA Superseded ==
    ASSUME SpeechTypes, NEW p \in Reply \cup {None}
    PROVE  /\ abort(p) \in [Reply -> Said]
           /\ \A q \in Reply : abort(p)[q] = IF q = p THEN [speech[q] EXCEPT !.aborted = TRUE] ELSE speech[q]
<1>1. None \notin Reply
  BY SessionAssumption DEF Reply
<1>2. CASE p = None
  BY <1>1, <1>2 DEF abort, SpeechTypes
<1>3. CASE p # None
  <2>1. [speech[p] EXCEPT !.aborted = TRUE] \in Said
    BY <1>3 DEF SpeechTypes, Said
  <2> QED
    BY <1>3, <2>1 DEF abort, SpeechTypes
<1> QED
  BY <1>2, <1>3

\* The parts of a reply that its cancellation does not touch.
LEMMA Aborted ==
    ASSUME NEW x \in Said
    PROVE  LET y == [x EXCEPT !.aborted = TRUE] IN
           /\ y \in Said /\ y.aborted /\ y.stage = x.stage /\ y.session = x.session
           /\ y.left = x.left /\ y.seq = x.seq /\ y.last = x.last
<1> QED
  BY DEF Said

\* onDisconnect: the reply of the session is cancelled and its handle dropped.
LEMMA CancelStep ==
    ASSUME SpeechTypes, Spoken, NEW s \in Session,
           speech' = abort(inflight[s]), inflight' = [inflight EXCEPT ![s] = None]
    PROVE  SpeechTypes' /\ Spoken'
<1> DEFINE p == inflight[s]
<1>0. None \notin Reply /\ p \in Reply \cup {None}
  BY SessionAssumption DEF Reply, SpeechTypes
<1>1. SpeechTypes'
  BY <1>0, Superseded DEF SpeechTypes
<1>2. ASSUME NEW q \in Reply
      PROVE  /\ speech'[q].stage = speech[q].stage /\ speech'[q].session = speech[q].session
             /\ speech'[q].left = speech[q].left /\ speech'[q].seq = speech[q].seq
             /\ speech'[q].aborted = (speech[q].aborted \/ q = p)
             /\ q # p => speech'[q] = speech[q]
  <2>1. speech[q] \in Said
    BY DEF SpeechTypes
  <2>2. speech'[q] = IF q = p THEN [speech[q] EXCEPT !.aborted = TRUE] ELSE speech[q]
    BY <1>0, Superseded
  <2>3. CASE q = p
    <3>1. speech'[q] = [speech[q] EXCEPT !.aborted = TRUE]
      BY <2>2, <2>3
    <3>2. /\ speech'[q].stage = speech[q].stage /\ speech'[q].session = speech[q].session
          /\ speech'[q].left = speech[q].left /\ speech'[q].seq = speech[q].seq /\ speech'[q].aborted = TRUE
      BY <2>1, <3>1 DEF Said
    <3> QED
      BY <2>3, <3>2
  <2>4. CASE q # p
    <3>1. speech'[q] = speech[q] /\ speech[q].aborted \in BOOLEAN
      BY <2>1, <2>2, <2>4 DEF Said
    <3> QED
      BY <2>4, <3>1
  <2> QED
    BY <2>3, <2>4
<1>3. ASSUME NEW q \in Reply PROVE Utterance(q)'
  <2>1. Utterance(q) /\ (q = p => speech[q].stage = "synthesizing" /\ speech[q].session = s)
    BY <1>0 DEF Spoken, Handle
  <2>2. speech'[q].stage = "none" => speech'[q] = silence
    BY <1>2, <2>1 DEF Utterance
  <2>3. speech'[q].stage = "synthesizing" /\ ~speech'[q].aborted => inflight'[speech'[q].session] = q
    <3>1. q # p /\ speech[q].session = s /\ speech[q].stage = "synthesizing" => speech[q].aborted
      BY <2>1 DEF Utterance
    <3> QED
      BY <1>2, <2>1, <3>1 DEF Utterance, SpeechTypes
  <2>4. \A r \in Reply : r < q /\ speech'[r].stage = "none" => speech'[q].stage = "none"
    BY <1>2, <2>1 DEF Utterance
  <2> QED
    BY <1>2, <2>1, <2>2, <2>3, <2>4 DEF Utterance
<1>4. ASSUME NEW z \in Session PROVE Handle(z)'
  <2>1. CASE z = s
    BY <2>1 DEF Handle, SpeechTypes
  <2>2. CASE z # s
    <3>1. Handle(z) /\ Handle(s) /\ inflight'[z] = inflight[z] /\ inflight[z] \in Reply \cup {None}
      BY <2>2 DEF Spoken, SpeechTypes
    <3>2. inflight[z] # None => inflight[z] # p
      BY <2>2, <3>1 DEF Handle
    <3> QED
      BY <1>2, <3>1, <3>2 DEF Handle
  <2> QED
    BY <2>1, <2>2
<1> QED
  BY <1>1, <1>3, <1>4 DEF Spoken

(* A reply begins: those before it have begun, the one it supersedes is
   cancelled, and none after it has begun. *)
LEMMA SpeakStep ==
    ASSUME SpeechTypes, Spoken, NEW r \in Reply, NEW s \in Session, NEW segments \in 0..MaxSegments,
           segments > 0, bySession[s] \in Socket, speech[r].stage = "none",
           \A q \in Reply : q < r => speech[q].stage # "none", speak(r, s, segments)
    PROVE  SpeechTypes' /\ Spoken'
<1> DEFINE p == inflight[s]
           new == [silence EXCEPT !.stage = "synthesizing", !.session = s, !.conn = bySession[s], !.left = segments]
<1>0. None \notin Reply /\ p \in Reply \cup {None}
  BY SessionAssumption DEF Reply, SpeechTypes
<1>1. /\ new \in Said /\ new.stage = "synthesizing" /\ new.session = s /\ new.left = segments
      /\ new.seq = 0 /\ ~new.aborted
  <2>1. silence \in Said /\ silence.seq = 0 /\ silence.aborted = FALSE
    BY BoundsAssumption DEF silence, Said
  <2> QED
    BY <2>1 DEF Said
<1> HIDE DEF new
<1>2. speech' = [abort(p) EXCEPT ![r] = new] /\ inflight' = [inflight EXCEPT ![s] = r]
  BY DEF speak, new
<1>3. SpeechTypes' /\ speech'[r] = new
  BY <1>0, <1>1, <1>2, Superseded DEF SpeechTypes
<1>4. p # r
  BY <1>0 DEF Spoken, Handle
<1>5. ASSUME NEW q \in Reply, q # r
      PROVE  /\ speech'[q].stage = speech[q].stage /\ speech'[q].session = speech[q].session
             /\ speech'[q].left = speech[q].left /\ speech'[q].seq = speech[q].seq
             /\ speech'[q].aborted = (speech[q].aborted \/ q = p)
             /\ q # p => speech'[q] = speech[q]
  <2>1. speech[q] \in Said
    BY DEF SpeechTypes
  <2>2. speech'[q] = IF q = p THEN [speech[q] EXCEPT !.aborted = TRUE] ELSE speech[q]
    BY <1>0, <1>2, <1>5, Superseded
  <2>3. CASE q = p
    <3>1. speech'[q] = [speech[q] EXCEPT !.aborted = TRUE]
      BY <2>2, <2>3
    <3>2. /\ speech'[q].stage = speech[q].stage /\ speech'[q].session = speech[q].session
          /\ speech'[q].left = speech[q].left /\ speech'[q].seq = speech[q].seq /\ speech'[q].aborted = TRUE
      BY <2>1, <3>1 DEF Said
    <3> QED
      BY <2>3, <3>2
  <2>4. CASE q # p
    <3>1. speech'[q] = speech[q] /\ speech[q].aborted \in BOOLEAN
      BY <2>1, <2>2, <2>4 DEF Said
    <3> QED
      BY <2>4, <3>1
  <2> QED
    BY <2>3, <2>4
<1>6. \A q \in Reply : q > r => speech[q].stage = "none"
  BY DEF Spoken, Utterance, Reply
<1>7. ASSUME NEW q \in Reply PROVE Utterance(q)'
  <2>1. \A o \in Reply : o < q /\ speech'[o].stage = "none" => speech'[q].stage = "none"
    <3>1. CASE q = r
      BY <1>5, <3>1 DEF Reply
    <3>2. CASE q # r
      BY <1>1, <1>3, <1>5, <3>2 DEF Spoken, Utterance
    <3> QED
      BY <3>1, <3>2
  <2>2. CASE q = r
    BY <1>1, <1>2, <1>3, <2>1, <2>2, BoundsAssumption DEF Utterance, SpeechTypes
  <2>3. CASE q # r
    <3>1. Utterance(q) /\ (q = p => speech[q].stage = "synthesizing" /\ speech[q].session = s)
      BY <1>0 DEF Spoken, Handle
    <3>2. speech'[q].stage = "none" => speech'[q] = silence
      BY <1>5, <2>3, <3>1 DEF Utterance
    <3>3. speech'[q].stage = "synthesizing" /\ ~speech'[q].aborted => inflight'[speech'[q].session] = q
      <4>1. q # p /\ speech[q].session = s /\ speech[q].stage = "synthesizing" => speech[q].aborted
        BY <3>1 DEF Utterance
      <4> QED
        BY <1>2, <1>5, <2>3, <3>1, <4>1 DEF Utterance, SpeechTypes
    <3> QED
      BY <1>5, <2>1, <2>3, <3>1, <3>2, <3>3 DEF Utterance
  <2> QED
    BY <2>2, <2>3
<1>8. ASSUME NEW z \in Session PROVE Handle(z)'
  <2>1. CASE z = s
    <3>1. inflight'[z] = r
      BY <1>2, <2>1 DEF SpeechTypes
    <3>2. \A q \in Reply : q > r => speech'[q].stage = "none"
      BY <1>5, <1>6 DEF Reply
    <3> QED
      BY <1>1, <1>3, <2>1, <3>1, <3>2 DEF Handle
  <2>2. CASE z # s
    <3>1. Handle(z) /\ Handle(s) /\ inflight'[z] = inflight[z] /\ inflight[z] \in Reply \cup {None}
      BY <1>2, <2>2 DEF Spoken, SpeechTypes
    <3>2. inflight[z] # None => inflight[z] # p /\ inflight[z] # r
      BY <2>2, <3>1 DEF Handle
    <3> QED
      BY <1>1, <1>3, <1>5, <2>2, <3>1, <3>2 DEF Handle
  <2> QED
    BY <2>1, <2>2
<1> QED
  BY <1>3, <1>7, <1>8 DEF Spoken

\* A reply that is not spoken.
LEMMA UnsaidStep ==
    ASSUME SpeechTypes, Spoken, NEW r \in Reply, NEW s \in Session, speech[r].stage = "none",
           \A q \in Reply : q < r => speech[q].stage # "none",
           speech' = [speech EXCEPT ![r].stage = "unsaid", ![r].session = s], inflight' = inflight
    PROVE  SpeechTypes' /\ Spoken'
<1>1. speech[r] \in Said
  BY DEF SpeechTypes
<1>2. speech'[r] \in Said /\ speech'[r].stage = "unsaid"
  BY <1>1 DEF SpeechTypes, Said
<1>3. \A q \in Reply \ {r} : speech'[q] = speech[q]
  BY DEF SpeechTypes
<1>4. SpeechTypes'
  BY <1>2, <1>3 DEF SpeechTypes
<1>5. ASSUME NEW q \in Reply PROVE Utterance(q)'
  <2>1. CASE q = r
    BY <1>2, <1>3, <2>1 DEF Utterance, Reply
  <2>2. CASE q # r
    <3>1. Utterance(q) /\ speech'[q] = speech[q]
      BY <1>3, <2>2 DEF Spoken
    <3>2. \A o \in Reply : o < q /\ speech'[o].stage = "none" => speech'[q].stage = "none"
      BY <1>2, <1>3, <3>1 DEF Utterance
    <3> QED
      BY <3>1, <3>2 DEF Utterance
  <2> QED
    BY <2>1, <2>2
<1>6. ASSUME NEW z \in Session PROVE Handle(z)'
  <2>1. Handle(z) /\ inflight[z] # r /\ inflight[z] \in Reply \cup {None}
    BY SessionAssumption DEF Spoken, Handle, SpeechTypes, Reply
  <2> QED
    BY <1>2, <1>3, <2>1 DEF Handle
<1> QED
  BY <1>4, <1>5, <1>6 DEF Spoken

(* A stream says more, or ends: what a later reply did to it stays. *)
LEMMA SayStep ==
    ASSUME SpeechTypes, Spoken, NEW r \in Reply, NEW said \in Said,
           speech[r].stage = "synthesizing", said.session = speech[r].session,
           said.aborted = speech[r].aborted, speech' = [speech EXCEPT ![r] = said],
           \/ /\ said.stage = "synthesizing" /\ said.left > 0 /\ said.seq + said.left <= MaxSegments
              /\ inflight' = inflight
           \/ /\ said.stage = "done"
              /\ inflight' = [inflight EXCEPT ![speech[r].session] = IF @ = r THEN None ELSE @]
    PROVE  SpeechTypes' /\ Spoken'
<1> DEFINE s == speech[r].session
<1>1. s \in Session /\ Utterance(r)
  BY DEF Spoken, Utterance
<1>2. speech'[r] = said /\ \A q \in Reply \ {r} : speech'[q] = speech[q]
  BY DEF SpeechTypes
<1>3. /\ \A z \in Session \ {s} : inflight'[z] = inflight[z]
      /\ inflight'[s] = inflight[s] \/ (inflight[s] = r /\ inflight'[s] = None)
      /\ inflight[s] # r => inflight'[s] = inflight[s]
      /\ said.stage = "done" => inflight'[s] # r
  <2>1. None # r
    BY SessionAssumption DEF Reply
  <2>2. CASE inflight' = inflight /\ said.stage = "synthesizing"
    BY <2>2
  <2>3. CASE inflight' = [inflight EXCEPT ![s] = IF @ = r THEN None ELSE @]
    <3>1. inflight'[s] = IF inflight[s] = r THEN None ELSE inflight[s]
      BY <1>1, <2>3 DEF SpeechTypes
    <3>2. \A z \in Session \ {s} : inflight'[z] = inflight[z]
      BY <2>3 DEF SpeechTypes
    <3>3. CASE inflight[s] = r
      BY <2>1, <3>1, <3>2, <3>3
    <3>4. CASE inflight[s] # r
      BY <3>1, <3>2, <3>4
    <3> QED
      BY <3>3, <3>4
  <2> QED
    BY <2>2, <2>3
<1>4. SpeechTypes'
  BY <1>1 DEF SpeechTypes
<1>5. ASSUME NEW q \in Reply PROVE Utterance(q)'
  <2>1. CASE q = r
    BY <1>1, <1>2, <1>3, <2>1 DEF Spoken, Utterance
  <2>2. CASE q # r
    <3>1. Utterance(q) /\ speech'[q] = speech[q]
      BY <1>2, <2>2 DEF Spoken
    <3>2. speech[q].stage = "synthesizing" /\ ~speech[q].aborted => inflight'[speech[q].session] = q
      BY <1>3, <2>2, <3>1 DEF Utterance
    <3> QED
      BY <1>2, <3>1, <3>2 DEF Utterance
  <2> QED
    BY <2>1, <2>2
<1>6. ASSUME NEW z \in Session PROVE Handle(z)'
  <2>1. Handle(z) /\ inflight[z] \in Reply \cup {None} /\ (inflight'[z] = inflight[z] \/ inflight'[z] = None)
    BY <1>3 DEF Spoken, SpeechTypes
  <2>2. inflight'[z] = r => said.stage = "synthesizing"
    BY <1>3, <2>1, SessionAssumption DEF Handle, Reply
  <2>3. \A q \in Reply : q > inflight[z] /\ inflight[z] # None /\ speech'[q].session = z
            => speech'[q].stage \in {"none", "unsaid"}
    BY <1>2, <2>1 DEF Handle
  <2> QED
    BY <1>2, <2>1, <2>2, <2>3 DEF Handle
<1> QED
  BY <1>4, <1>5, <1>6 DEF Spoken

\* The outcomes of a synthesis are such steps.
LEMMA SynthesizedStep ==
    ASSUME SpeechTypes, Spoken, NEW r \in Reply, synthesized(r)
    PROVE  SpeechTypes' /\ Spoken'
<1> DEFINE x == speech[r]
<1>1. x \in Said /\ x.stage = "synthesizing" /\ x.left > 0 /\ x.seq + x.left <= MaxSegments /\ x.left \in Nat /\ x.seq \in Nat
  BY BoundsAssumption DEF SpeechTypes, synthesized, Spoken, Utterance, Said
<1>2. ASSUME NEW frames \in Said, frames.session = x.session, frames.aborted = x.aborted, finished(r, frames)
      PROVE  SpeechTypes' /\ Spoken'
  <2> DEFINE said == [frames EXCEPT !.stage = "done"]
  <2>1. said \in Said /\ said.stage = "done" /\ said.session = x.session /\ said.aborted = x.aborted
    BY <1>2 DEF Said
  <2>2. speech' = [speech EXCEPT ![r] = said]
        /\ inflight' = [inflight EXCEPT ![speech[r].session] = IF @ = r THEN None ELSE @]
    BY <1>2 DEF finished
  <2> HIDE DEF said
  <2> QED
    BY <1>1, <2>1, <2>2, SayStep
<1>3. CASE x.aborted /\ finished(r, x)
  BY <1>1, <1>2, <1>3
<1>4. CASE finished(r, [x EXCEPT !.last = "error"])
  <2>1. /\ [x EXCEPT !.last = "error"] \in Said
        /\ [x EXCEPT !.last = "error"].session = x.session /\ [x EXCEPT !.last = "error"].aborted = x.aborted
    BY <1>1 DEF Said
  <2> QED
    BY <1>2, <1>4, <2>1
<1>5. ASSUME NEW chunk \in {0, 1},
             LET said == [x EXCEPT !.seq = @ + chunk, !.left = @ - 1] IN
             IF said.left = 0 THEN finished(r, [said EXCEPT !.last = "end"])
             ELSE speech' = [speech EXCEPT ![r] = said] /\ UNCHANGED inflight
      PROVE  SpeechTypes' /\ Spoken'
  <2> DEFINE said == [x EXCEPT !.seq = @ + chunk, !.left = @ - 1]
  <2>1. x.seq + chunk \in 0..MaxSegments /\ x.left - 1 \in 0..MaxSegments
    BY <1>1, BoundsAssumption
  <2>2. /\ said \in Said /\ said.stage = "synthesizing" /\ said.session = x.session /\ said.aborted = x.aborted
        /\ said.left = x.left - 1 /\ said.seq = x.seq + chunk
    BY <1>1, <2>1 DEF Said
  <2>3. IF said.left = 0 THEN finished(r, [said EXCEPT !.last = "end"])
        ELSE speech' = [speech EXCEPT ![r] = said] /\ UNCHANGED inflight
    BY <1>5
  <2> HIDE DEF said
  <2>4. CASE said.left = 0
    <3>1. /\ [said EXCEPT !.last = "end"] \in Said
          /\ [said EXCEPT !.last = "end"].session = x.session /\ [said EXCEPT !.last = "end"].aborted = x.aborted
      BY <2>2 DEF Said
    <3> QED
      BY <1>2, <2>3, <2>4, <3>1
  <2>5. CASE said.left # 0
    <3>1. said.left > 0 /\ said.seq + said.left <= MaxSegments
      BY <1>1, <2>2, <2>5, BoundsAssumption
    <3> QED
      BY <1>1, <2>2, <2>3, <2>5, <3>1, SayStep
  <2> QED
    BY <2>4, <2>5
<1> QED
  BY <1>3, <1>4, <1>5 DEF synthesized

LEMMA SpokenStep ==
    ASSUME SocketTypes, SpeechTypes, Spoken, [Next]_vars
    PROVE  SpeechTypes' /\ Spoken'
<1>1. ASSUME NEW r \in Reply, orderReply(r) PROVE SpeechTypes' /\ Spoken'
  <2>1. /\ speech[r].stage = "none"
        /\ \A q \in Reply : q < r => speech[q].stage # "none"
    BY <1>1 DEF orderReply
  <2>2. PICK s \in Session, segments \in 0..MaxSegments :
          \/ bySession[s] # None /\ segments > 0 /\ speak(r, s, segments)
          \/ /\ speech' = [speech EXCEPT ![r].stage = "unsaid", ![r].session = s]
             /\ UNCHANGED inflight
    BY <1>1 DEF orderReply
  <2>3. bySession[s] # None => bySession[s] \in Socket
    BY DEF SocketTypes
  <2>4. CASE bySession[s] # None /\ segments > 0 /\ speak(r, s, segments)
    BY <2>1, <2>3, <2>4, SpeakStep
  <2>5. CASE speech' = [speech EXCEPT ![r].stage = "unsaid", ![r].session = s] /\ UNCHANGED inflight
    BY <2>1, <2>5, UnsaidStep
  <2> QED
    BY <2>2, <2>4, <2>5
<1>2. ASSUME NEW k \in Socket, onDisconnect(k) PROVE SpeechTypes' /\ Spoken'
  <2>1. SessionOf[k] \in Session
    BY SessionAssumption
  <2> QED
    BY <1>2, <2>1, CancelStep DEF onDisconnect
<1>3. ASSUME UNCHANGED <<inflight, speech>> PROVE SpeechTypes' /\ Spoken'
  BY <1>3 DEF SpeechTypes, Spoken, Utterance, Handle
<1>4. ASSUME NEW k \in Socket,
             onConnect(k) \/ PeerLeaves(k) \/ pong(k) \/ voiceStart(k) \/ handleResume(k) \/ resumed(k)
      PROVE  UNCHANGED <<inflight, speech>>
  BY <1>4 DEF onConnect, PeerLeaves, pong, voiceStart, handleResume, resumed
<1>5. ASSUME heartbeat \/ Commit \/ cartUpdated \/ UNCHANGED vars PROVE UNCHANGED <<inflight, speech>>
  BY <1>5 DEF heartbeat, Commit, cartUpdated, vars
<1> QED
  BY <1>1, <1>2, <1>3, <1>4, <1>5, SynthesizedStep DEF Next

-----------------------------------------------------------------------------
LEMMA InitIInv == Init => IInv
<1> SUFFICES ASSUME Init PROVE IInv
  OBVIOUS
<1>1. None \notin Socket /\ None \notin Reply
  BY SessionAssumption DEF Reply
<1>2. SocketTypes /\ Sockets
  BY SessionAssumption DEF Init, SocketTypes, Sockets, Held, Link
<1>3. CartTypes /\ Carts
  BY BoundsAssumption DEF Init, CartTypes, Carts
<1>4. silence \in Said /\ silence.stage = "none"
  BY BoundsAssumption DEF silence, Said
<1>5. SpeechTypes /\ Spoken
  BY <1>4 DEF Init, SpeechTypes, Spoken, Utterance, Handle
<1> QED
  BY <1>2, <1>3, <1>5, Types DEF IInv

LEMMA NextIInv == IInv /\ [Next]_vars => IInv'
<1> SUFFICES ASSUME IInv, [Next]_vars PROVE IInv'
  OBVIOUS
<1>1. /\ SocketTypes /\ CartTypes /\ SpeechTypes /\ Sockets /\ Carts /\ Spoken
  BY Types DEF IInv
<1>2. SocketTypes' /\ Sockets'
  BY <1>1, SocketsStep
<1>3. CartTypes' /\ Carts'
  BY <1>1, CartsStep
<1>4. SpeechTypes' /\ Spoken'
  BY <1>1, SpokenStep
<1>5. TypeOK'
  BY <1>2, <1>3, <1>4 DEF TypeOK, SocketTypes, CartTypes, SpeechTypes, Said
<1> QED
  BY <1>2, <1>3, <1>4, <1>5 DEF IInv

LEMMA SpecIInv == Spec => []IInv
<1> QED
  BY InitIInv, NextIInv, PTL DEF Spec

(* Every connection, handle and reply is of the type the code gives it,
   whatever connects, leaves, speaks or is cancelled. *)
THEOREM TypeCorrect == Spec => []TypeOK
<1>1. IInv => TypeOK
  BY DEF IInv
<1> QED
  BY <1>1, SpecIInv, PTL

(* Through any overlap of old and new sockets, a close, late or not, leaves
   no socket of its own in ClientRegistry and no voice session behind it, and
   takes no socket from the cart's set that is not closed. *)
THEOREM RegistryIsExact == Spec => []RegistryExact
<1>1. IInv => RegistryExact
  BY DEF IInv, Sockets, Held, RegistryExact
<1> QED
  BY <1>1, SpecIInv, PTL

(* Whichever of a connection.resume's snapshot and the broadcasts of
   cart.updated overtakes the other, a client that has a cart has the newest
   that was broadcast. *)
THEOREM NothingIsMissed == Spec => []NothingMissed
<1>1. IInv => NothingMissed
  BY DEF IInv, Carts, NothingMissed
<1> QED
  BY <1>1, SpecIInv, PTL

(* TtsService's map of abort handles: a reply that may still speak has its
   session's handle, and every handle is of such a reply. *)
THEOREM InflightIsExact == Spec => []InflightExact
<1>1. IInv => InflightExact
  <2>1. ASSUME IInv, NEW r \in Reply
        PROVE  speech[r].stage = "synthesizing" /\ ~speech[r].aborted <=> \E s \in Session : inflight[s] = r
    <3>1. r # None
      BY SessionAssumption DEF Reply
    <3>2. ASSUME NEW s \in Session, inflight[s] = r PROVE speech[r].stage = "synthesizing" /\ ~speech[r].aborted
      BY <2>1, <3>1, <3>2 DEF IInv, Spoken, Handle
    <3>3. ASSUME speech[r].stage = "synthesizing" /\ ~speech[r].aborted PROVE \E s \in Session : inflight[s] = r
      BY <2>1, <3>3 DEF IInv, Spoken, Utterance
    <3> QED
      BY <3>2, <3>3
  <2> QED
    BY <2>1 DEF InflightExact
<1> QED
  BY <1>1, SpecIInv, PTL

-----------------------------------------------------------------------------
\* What a step adds to reply r is added by its own synthesis.
LEMMA OnlyOwnSynthesis ==
    ASSUME IInv, [Next]_vars, NEW r \in Reply,
           speech'[r].seq # speech[r].seq \/ speech'[r].last # speech[r].last
    PROVE  synthesized(r) /\ ~speech[r].aborted
<1>1. \A q \in Reply : speech[q] \in Said
  BY Types DEF IInv, SpeechTypes
<1>2. ASSUME NEW p \in Reply \cup {None}, NEW q \in Reply
      PROVE  abort(p)[q].seq = speech[q].seq /\ abort(p)[q].last = speech[q].last /\ abort(p)[q].stage = speech[q].stage
  <2>1. abort(p)[q] = IF q = p THEN [speech[q] EXCEPT !.aborted = TRUE] ELSE speech[q]
    BY Types, Superseded DEF IInv
  <2> QED
    BY <1>1, <2>1, Aborted
<1>3. \A s \in Session : inflight[s] \in Reply \cup {None}
  BY Types DEF IInv, SpeechTypes
<1>4. ASSUME NEW k \in Socket, onDisconnect(k) PROVE FALSE
  <2>1. SessionOf[k] \in Session
    BY SessionAssumption
  <2>2. speech' = abort(inflight[SessionOf[k]])
    BY <1>4 DEF onDisconnect
  <2> QED
    BY <1>2, <1>3, <2>1, <2>2
<1>5. ASSUME NEW q \in Reply, orderReply(q) PROVE FALSE
  <2>1. speech[q].stage = "none" /\ speech[q] = silence
    BY <1>5 DEF orderReply, IInv, Spoken, Utterance
  <2>2. PICK s \in Session, segments \in 0..MaxSegments :
          \/ speak(q, s, segments)
          \/ speech' = [speech EXCEPT ![q].stage = "unsaid", ![q].session = s]
    BY <1>5 DEF orderReply
  <2>3. CASE speak(q, s, segments)
    <3> DEFINE new == [silence EXCEPT !.stage = "synthesizing", !.session = s, !.conn = bySession[s], !.left = segments]
    <3>1. new.seq = silence.seq /\ new.last = silence.last
      BY DEF silence
    <3> HIDE DEF new
    <3>2. speech' = [abort(inflight[s]) EXCEPT ![q] = new]
      BY <2>3 DEF speak, new
    <3>3. abort(inflight[s]) \in [Reply -> Said]
      BY <1>3, Types, Superseded DEF IInv
    <3>4. CASE r = q
      BY <2>1, <3>1, <3>2, <3>3, <3>4
    <3>5. CASE r # q
      BY <1>2, <1>3, <3>2, <3>3, <3>5
    <3> QED
      BY <3>4, <3>5
  <2>4. CASE speech' = [speech EXCEPT ![q].stage = "unsaid", ![q].session = s]
    BY <1>1, <2>4, Types DEF IInv, SpeechTypes, Said
  <2> QED
    BY <2>2, <2>3, <2>4
<1>6. ASSUME NEW q \in Reply, synthesized(q) PROVE synthesized(r) /\ ~speech[r].aborted
  <2>1. CASE q # r
    <3>1. PICK said : speech' = [speech EXCEPT ![q] = said]
      BY <1>6 DEF synthesized, finished
    <3> QED
      BY <2>1, <3>1, Types DEF IInv, SpeechTypes
  <2>2. CASE q = r /\ speech[r].aborted
    <3>1. speech' = [speech EXCEPT ![r] = [speech[r] EXCEPT !.stage = "done"]]
      BY <1>6, <2>2 DEF synthesized, finished
    <3> QED
      BY <1>1, <3>1, Types DEF IInv, SpeechTypes, Said
  <2> QED
    BY <1>6, <2>1, <2>2
<1>7. ASSUME UNCHANGED speech PROVE FALSE
  BY <1>7
<1>8. ASSUME NEW k \in Socket,
             onConnect(k) \/ PeerLeaves(k) \/ pong(k) \/ voiceStart(k) \/ handleResume(k) \/ resumed(k)
      PROVE  UNCHANGED speech
  BY <1>8 DEF onConnect, PeerLeaves, pong, voiceStart, handleResume, resumed
<1>9. ASSUME heartbeat \/ Commit \/ cartUpdated \/ UNCHANGED vars PROVE UNCHANGED speech
  BY <1>9 DEF heartbeat, Commit, cartUpdated, vars
<1> QED
  BY <1>4, <1>5, <1>6, <1>7, <1>8, <1>9 DEF Next

(* The audio of two replies to a session never overlaps: a reply that was
   superseded, in TtsService.speak, finds its signal aborted when its synthesis
   comes back, and sends no chunk, end or error any more. *)
THEOREM RepliesDoNotOverlap == Spec => NoOverlap
<1>1. ASSUME IInv, [Next]_vars, NEW r \in Reply,
             speech'[r].seq # speech[r].seq \/ speech'[r].last # speech[r].last,
             NEW q \in Reply, q > r, speech[q].session = speech[r].session
      PROVE  speech[q].stage \in {"none", "unsaid"}
  <2>1. speech[r].stage = "synthesizing" /\ ~speech[r].aborted
    BY <1>1, OnlyOwnSynthesis DEF synthesized
  <2>2. speech[r].session \in Session /\ inflight[speech[r].session] = r
    BY <1>1, <2>1 DEF IInv, Spoken, Utterance
  <2>3. r # None
    BY SessionAssumption DEF Reply
  <2> QED
    BY <1>1, <2>2, <2>3 DEF IInv, Spoken, Handle
<1>2. IInv /\ [Next]_vars =>
      [\A r \in Reply : speech'[r].seq # speech[r].seq \/ speech'[r].last # speech[r].last =>
           \A q \in Reply : q > r /\ speech[q].session = speech[r].session =>
               speech[q].stage \in {"none", "unsaid"}]_vars
  BY <1>1
<1> QED
  BY <1>2, SpecIInv, PTL DEF Spec, NoOverlap

=============================================================================
