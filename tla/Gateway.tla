------------------------------- MODULE Gateway -------------------------------
(***************************************************************************)
(* The sockets of one cart (src/realtime/) and the spoken replies on them  *)
(* (src/tts/tts-service.ts): the registry by session and by cart, the      *)
(* heartbeat, the broadcast of carts, the snapshot a client asks for when  *)
(* it reconnects, and the stream of audio a newer reply or a disconnect    *)
(* cancels.  A reconnecting client's new socket and its old one overlap.   *)
(* The voice sessions and the cart's commits are reduced to what the       *)
(* gateway does to them; VoiceSessions and CartController have the rest.   *)
(***************************************************************************)
EXTENDS Naturals, FiniteSets

CONSTANTS Socket, Session,
          SessionOf,      \* SessionOf[k]: the session_id socket k connects with
          Replies,        \* bound: order.reply events
          MaxSegments,    \* bound: segments of a reply
          Loads,          \* bound: the replies and the committed versions of the cart
                          \* a behaviour may have, together
          None

ASSUME SessionAssumption == SessionOf \in [Socket -> Session] /\ None \notin Socket \cup Nat
ASSUME BoundsAssumption == Replies \in Nat /\ MaxSegments \in Nat /\ Loads \subseteq [replies : 0..Replies, versions : Nat]

\* Replies are numbered in the order they are emitted.
Reply == 1..Replies

VARIABLES load,           \* what this behaviour is about
          link,           \* link[k]: the connection of socket k
          alive,          \* the sockets that answered the last ping
          bySession, byCart,
          voice,          \* voice[s]: the socket that started the voice session of s
          stored,         \* the cart's version in the store
          announced,      \* the newest version broadcast
          snapshots,      \* snapshots[k]: the versions k's connection.resumes have read
          got,            \* got[k]: the newest version k's client has; a socket's client
                          \* starts without one
          inflight,       \* inflight[s]: the reply whose AbortController is s's
          speech          \* speech[r]: the stream of reply r

vars == <<load, link, alive, bySession, byCart, voice, stored, announced, snapshots, got, inflight, speech>>
registry == <<bySession, byCart>>

\* half: the peer is gone and the server does not know; shut: the socket is
\* closing and its 'close' event is yet to come.
Link == {"new", "open", "half", "shut", "closed"}

TypeOK ==
    /\ link \in [Socket -> Link]
    /\ alive \in SUBSET Socket
    /\ bySession \in [Session -> Socket \cup {None}]
    /\ byCart \in SUBSET Socket
    /\ voice \in [Session -> Socket \cup {None}]
    /\ load \in Loads
    /\ stored \in 0..load.versions /\ announced \in 0..stored
    /\ snapshots \in [Socket -> SUBSET Nat]
    /\ got \in [Socket -> Nat \cup {None}]
    /\ inflight \in [Session -> Reply \cup {None}]
    /\ speech \in [Reply -> [stage : {"none", "synthesizing", "done", "unsaid"},
                             session : Session \cup {None}, conn : Socket \cup {None},
                             left : 0..MaxSegments, aborted : BOOLEAN,
                             seq : 0..MaxSegments, last : {"none", "end", "error"}]]

silence == [stage |-> "none", session |-> None, conn |-> None, left |-> 0, aborted |-> FALSE,
            seq |-> 0, last |-> "none"]

Init ==
    /\ load \in Loads
    /\ link = [k \in Socket |-> "new"]
    /\ alive = {}
    /\ bySession = [s \in Session |-> None]
    /\ byCart = {}
    /\ voice = [s \in Session |-> None]
    /\ stored = 0 /\ announced = 0
    /\ snapshots = [k \in Socket |-> {}]
    /\ got = [k \in Socket |-> None]
    /\ inflight = [s \in Session |-> None]
    /\ speech = [r \in Reply |-> silence]

\* conn.send(cart) to the sockets in `to`: what a client that is there keeps,
\* having the version guard the client contract asks for.
Receive(to, version) ==
    [k \in Socket |->
        IF k \in to /\ link[k] = "open" /\ ~(got[k] # None /\ got[k] >= version)
        THEN version ELSE got[k]]

-----------------------------------------------------------------------------
(* Connections *)

\* onConnect
onConnect(k) ==
    /\ link[k] = "new"
    /\ link' = [link EXCEPT ![k] = "open"]
    /\ alive' = alive \cup {k}
    /\ bySession' = [bySession EXCEPT ![SessionOf[k]] = k]
    /\ byCart' = byCart \cup {k}
    /\ UNCHANGED <<load, voice, stored, announced, snapshots, got, inflight, speech>>

\* The client's side of the socket goes: with a close, or without a word.  What
\* its resumes have read will be sent to nobody, and is forgotten here.
PeerLeaves(k) ==
    /\ link[k] = "open"
    /\ \E how \in {"half", "shut"} : link' = [link EXCEPT ![k] = how]
    /\ snapshots' = [snapshots EXCEPT ![k] = {}]
    /\ UNCHANGED <<load, alive, registry, voice, stored, announced, got, inflight, speech>>

\* A reply is cancelled: its stream finds the signal aborted and says no more.
abort(r) == IF r = None THEN speech ELSE [speech EXCEPT ![r].aborted = TRUE]

\* Mutant: the cart's set keeps the socket.
onDisconnectKeepsCart(k) ==
    /\ link[k] = "shut"
    /\ link' = [link EXCEPT ![k] = "closed"]
    /\ bySession' = [bySession EXCEPT ![SessionOf[k]] = None]
    /\ voice' = [voice EXCEPT ![SessionOf[k]] = None]
    /\ speech' = abort(inflight[SessionOf[k]])
    /\ inflight' = [inflight EXCEPT ![SessionOf[k]] = None]
    /\ UNCHANGED <<load, alive, byCart, stored, announced, snapshots, got>>

\* onDisconnect, on the 'close' event: the session's entry, its voice session
\* and its reply are found by session_id, whichever socket they belong to.
onDisconnect(k) ==
    /\ link[k] = "shut"
    /\ link' = [link EXCEPT ![k] = "closed"]
    /\ bySession' = [bySession EXCEPT ![SessionOf[k]] = None]
    /\ byCart' = byCart \ {k}
    /\ voice' = [voice EXCEPT ![SessionOf[k]] = None]
    /\ speech' = abort(inflight[SessionOf[k]])
    /\ inflight' = [inflight EXCEPT ![SessionOf[k]] = None]
    /\ UNCHANGED <<load, alive, stored, announced, snapshots, got>>

Connected == {k \in Socket : link[k] \in {"open", "half"}}

\* Mutant: the ping is sent and the answer not looked at.
heartbeatTrusts ==
    /\ Connected # {}
    /\ alive' = alive \ Connected
    /\ UNCHANGED <<load, link, registry, voice, stored, announced, snapshots, got, inflight, speech>>

\* A socket that did not answer the last ping is terminated, the others pinged.
heartbeat ==
    /\ Connected # {}
    /\ link' = [k \in Socket |-> IF k \in Connected \ alive THEN "shut" ELSE link[k]]
    /\ alive' = alive \ Connected
    /\ UNCHANGED <<load, registry, voice, stored, announced, snapshots, got, inflight, speech>>

pong(k) ==
    /\ link[k] = "open" /\ k \notin alive
    /\ alive' = alive \cup {k}
    /\ UNCHANGED <<load, link, registry, voice, stored, announced, snapshots, got, inflight, speech>>

\* voice.start: the session's voice now talks to this socket.
voiceStart(k) ==
    /\ link[k] = "open"
    /\ voice' = [voice EXCEPT ![SessionOf[k]] = k]
    /\ UNCHANGED <<load, link, alive, registry, stored, announced, snapshots, got, inflight, speech>>

-----------------------------------------------------------------------------
(* Carts *)

\* A cart is committed to the store ...
Commit ==
    /\ stored < load.versions
    /\ stored' = stored + 1
    /\ UNCHANGED <<load, link, alive, registry, voice, announced, snapshots, got, inflight, speech>>

\* Mutant: the cart goes to the sessions' sockets.
cartToSessions ==
    /\ announced < stored
    /\ announced' = announced + 1
    /\ got' = Receive({bySession[s] : s \in Session}, announced + 1)
    /\ UNCHANGED <<load, link, alive, registry, voice, stored, snapshots, inflight, speech>>

\* ... and then broadcast to every socket of the cart.
cartUpdated ==
    /\ announced < stored
    /\ announced' = announced + 1
    /\ got' = Receive(byCart, announced + 1)
    /\ UNCHANGED <<load, link, alive, registry, voice, stored, snapshots, inflight, speech>>

\* connection.resume reads the store: any number of them, each on its own.
\* (The cart is the message's, not the socket's: of another cart nothing is
\* said here.)
handleResume(k) ==
    /\ link[k] = "open" /\ load.versions > 0
    /\ snapshots' = [snapshots EXCEPT ![k] = @ \cup {stored}]
    /\ UNCHANGED <<load, link, alive, registry, voice, stored, announced, got, inflight, speech>>

\* Each sends what it read, when its answer comes: broadcasts, and later
\* resumes, may have passed it.  (Those that read one version count as one:
\* a client that has it keeps nothing of the second.)
resumed(k) ==
    /\ \E version \in snapshots[k] :
           /\ got' = Receive({k}, version)
           /\ snapshots' = [snapshots EXCEPT ![k] = @ \ {version}]
    /\ UNCHANGED <<load, link, alive, registry, voice, stored, announced, inflight, speech>>

-----------------------------------------------------------------------------
(* Replies *)

\* TtsService.speak: the session's previous reply is superseded; audio_start
\* is sent and the first segment asked for.
speak(r, s, segments) ==
    /\ inflight' = [inflight EXCEPT ![s] = r]
    /\ speech' = [abort(inflight[s]) EXCEPT ![r] =
                     [silence EXCEPT !.stage = "synthesizing", !.session = s, !.conn = bySession[s],
                                     !.left = segments]]

\* order.reply: to the session's socket, if there is one, in words; a reply
\* with something to say is spoken.
orderReply(r) ==
    /\ r <= load.replies /\ speech[r].stage = "none"
    /\ \A q \in Reply : q < r => speech[q].stage # "none"
    /\ \E s \in Session, segments \in 0..MaxSegments :
          \/ bySession[s] # None /\ segments > 0 /\ speak(r, s, segments)
          \/ /\ bySession[s] = None \/ segments = 0
             /\ speech' = [speech EXCEPT ![r].stage = "unsaid", ![r].session = s]
             /\ UNCHANGED inflight
    /\ UNCHANGED <<load, link, alive, registry, voice, stored, announced, snapshots, got>>

\* Mutant: the handle is dropped whoever's it is.
finishedAnyway(r, frames) ==
    /\ speech' = [speech EXCEPT ![r] = [frames EXCEPT !.stage = "done"]]
    /\ inflight' = [inflight EXCEPT ![speech[r].session] = None]

\* The stream ends; the handle is dropped if it is still this reply's.
finished(r, frames) ==
    /\ speech' = [speech EXCEPT ![r] = [frames EXCEPT !.stage = "done"]]
    /\ inflight' = [inflight EXCEPT ![speech[r].session] = IF @ = r THEN None ELSE @]

\* Mutant: the signal is only looked at before a segment.
synthesizedLate(r) ==
    LET said == [speech[r] EXCEPT !.seq = @ + 1, !.left = @ - 1] IN
    /\ speech[r].stage = "synthesizing"
    /\ \/ said.left = 0 /\ finished(r, [said EXCEPT !.last = "end"])
       \/ said.left > 0 /\ speech[r].aborted /\ finished(r, said)
       \/ said.left > 0 /\ ~speech[r].aborted /\ speech' = [speech EXCEPT ![r] = said]
              /\ UNCHANGED inflight
    /\ UNCHANGED <<load, link, alive, registry, voice, stored, announced, snapshots, got>>

\* A segment's synthesis comes back: nothing more is said when it was
\* cancelled; an error ends the reply; no audio is no chunk.
synthesized(r) ==
    /\ speech[r].stage = "synthesizing"
    /\ \/ speech[r].aborted /\ finished(r, speech[r])
       \/ ~speech[r].aborted /\ finished(r, [speech[r] EXCEPT !.last = "error"])
       \/ /\ ~speech[r].aborted
          /\ \E chunk \in {0, 1} :
                LET said == [speech[r] EXCEPT !.seq = @ + chunk, !.left = @ - 1] IN
                IF said.left = 0 THEN finished(r, [said EXCEPT !.last = "end"])
                ELSE speech' = [speech EXCEPT ![r] = said] /\ UNCHANGED inflight
    /\ UNCHANGED <<load, link, alive, registry, voice, stored, announced, snapshots, got>>

-----------------------------------------------------------------------------
Next ==
    \/ heartbeat \/ Commit \/ cartUpdated
    \/ \E k \in Socket : onConnect(k) \/ PeerLeaves(k) \/ onDisconnect(k) \/ pong(k) \/ voiceStart(k)
                             \/ handleResume(k) \/ resumed(k)
    \/ \E r \in Reply : orderReply(r) \/ synthesized(r)

\* The heartbeat's interval runs, a terminated socket gets its 'close', and a
\* synthesis is bounded by its wait and its request timeout.
Fairness ==
    /\ WF_vars(heartbeat)
    /\ \A k \in Socket : WF_vars(onDisconnect(k))
    /\ \A r \in Reply : WF_vars(synthesized(r))

Spec == Init /\ [][Next]_vars /\ Fairness

-----------------------------------------------------------------------------
(* Safety *)

(* The registry holds no socket whose close was handled, and the cart's set
   every socket that was not closed, through any overlap of an old socket and a
   new one; and no voice session, with its provider's lease, outlives the
   socket that started it. *)
RegistryExact ==
    /\ byCart = {k \in Socket : link[k] \in {"open", "half", "shut"}}
    /\ \A s \in Session :
           /\ bySession[s] # None => bySession[s] \in byCart /\ SessionOf[bySession[s]] = s
           /\ voice[s] # None => voice[s] \in byCart

(* A client never misses a cart: once its snapshot has arrived it has the
   newest version broadcast, whichever of the two overtook the other. *)
NothingMissed ==
    \A k \in Socket : link[k] = "open" /\ got[k] # None => got[k] >= announced

(* The session's abort handle is that of the one stream still speaking to it:
   a later reply or a disconnect can always stop it. *)
InflightExact ==
    \A r \in Reply :
        speech[r].stage = "synthesizing" /\ ~speech[r].aborted <=>
            \E s \in Session : inflight[s] = r

(* Audio never overlaps: nothing of a reply is sent once a later one to the
   session has begun. *)
NoOverlap ==
    [][\A r \in Reply : speech'[r].seq # speech[r].seq \/ speech'[r].last # speech[r].last =>
           \A q \in Reply : q > r /\ speech[q].session = speech[r].session =>
               speech[q].stage \in {"none", "unsaid"}]_vars

(* Liveness *)

(* A dead socket is noticed by the heartbeat and leaves the registry. *)
DeadSocketsGo == \A k \in Socket : link[k] = "half" ~> link[k] = "closed"

-----------------------------------------------------------------------------
(* What comments and docs say and the code does not do *)

\* k is open, and no other open socket has its session.
Only(k) == link[k] = "open" /\ \A j \in Socket : j # k /\ SessionOf[j] = SessionOf[k] => link[j] = "closed"

(* Removal "keeps the live socket reachable" (client-registry.ts). *)
LiveSocketReachable == \A k \in Socket : Only(k) => bySession[SessionOf[k]] = k

(* Per reply the client receives audio_start, chunks and audio_end or an
   error; only a newer reply or a disconnect silences it
   (text-to-speech.md). *)
ReplyIsFinished ==
    \A r \in Reply :
        speech[r].stage = "done" /\ speech[r].last = "none" =>
            \/ link[speech[r].conn] # "open"
            \/ \E q \in Reply : q > r /\ speech[q].session = speech[r].session
=============================================================================
