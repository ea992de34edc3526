---------------------------- MODULE VoiceSessions ----------------------------
(***************************************************************************)
(* The Voice Module (src/voice/) and the streaming speech-to-text provider *)
(* (src/stt/): the voice sessions of one socket.  Every voice.start makes  *)
(* a session and replaces the one before; opening and flushing a stream    *)
(* are awaits, during which the customer may start again, stop, hang up,   *)
(* and the provider may answer, fail or close.                             *)
(***************************************************************************)
EXTENDS Naturals, Sequences, FiniteSets

CONSTANTS Session,    \* one per voice.start on the socket
          NoSession,
          Permits,    \* the limiter's concurrency permits (STT_MAX_CONCURRENT_SESSIONS)
          AudioCap,   \* MAX_PENDING_AUDIO_CHUNKS
          MaxChunks,  \* bound: MaxChunks[s], chunks the customer sends in session s
          MaxFinals   \* bound: MaxFinals[s], final transcripts of session s

ASSUME SessionAssumption == NoSession \notin Session
ASSUME PermitsAssumption == Permits \in Nat \ {0}
ASSUME AudioAssumption == AudioCap \in Nat /\ MaxChunks \in [Session -> Nat] /\ MaxFinals \in [Session -> Nat]

VARIABLES connected,  \* the customer's socket is open
          current,    \* VoiceSessionManager: the session of the socket's session_id
          at,         \* at[s]: the await handleStart or stopSession of s is at
          session,    \* session[s]: the VoiceSession
          stream      \* stream[s]: the provider's side of it

vars == <<connected, current, at, session, stream>>

Terminal == {"ended", "failed", "interrupted"}

TypeOK ==
    /\ connected \in BOOLEAN
    /\ current \in Session \cup {NoSession}
    /\ at \in [Session -> {"unborn", "acquire", "connect", "none", "flush"}]
    /\ session \in [Session -> [
           status : {"idle", "listening"} \cup Terminal,
           retired : BOOLEAN, attached : BOOLEAN, finalReceived : BOOLEAN, stopping : BOOLEAN,
           finalTimer : BOOLEAN, stopTimer : BOOLEAN,
           midSpeech : BOOLEAN,              \* lastPartialText is not empty
           pendingAudio : Seq(Nat),
           errors : Nat,                     \* voice.error messages to the customer
           finals : Nat,                     \* stt.final_transcript.received
           ends : Nat,                       \* voice.session_ended
           chunks : Nat,                     \* history: chunks the customer sent
           asked : BOOLEAN]]                 \* history: the session was asked to stop
    /\ stream \in [Session -> [
           socket : {"none", "opening", "open", "closing", "closed"},
           lease : {"none", "held", "released"},
           selfClosing : BOOLEAN, finalDelivered : BOOLEAN,
           audio : Seq(Nat)]]                \* the chunks the provider was sent

NewSession == [status |-> "idle", retired |-> FALSE, attached |-> FALSE, finalReceived |-> FALSE,
               stopping |-> FALSE, finalTimer |-> FALSE, stopTimer |-> FALSE,
               midSpeech |-> FALSE, pendingAudio |-> <<>>, errors |-> 0,
               finals |-> 0, ends |-> 0, chunks |-> 0, asked |-> FALSE]

Init ==
    /\ connected = TRUE
    /\ current = NoSession
    /\ at = [s \in Session |-> "unborn"]
    /\ session = [s \in Session |-> NewSession]
    /\ stream = [s \in Session |-> [socket |-> "none", lease |-> "none", selfClosing |-> FALSE,
                                    finalDelivered |-> FALSE, audio |-> <<>>]]

isTerminal(v) == v.retired \/ v.status \in Terminal

clearTimers(v) == [v EXCEPT !.finalTimer = FALSE, !.stopTimer = FALSE]

\* (Re)arm the stopped-talking timer.
armIdleStop(v) == [v EXCEPT !.stopTimer = v.status = "listening" /\ ~v.stopping]

\* close(): drop the socket and hand the lease back; also what an error does.
Drop(x) == [x EXCEPT !.selfClosing = TRUE, !.lease = "released",
                     !.socket = IF @ = "closed" THEN @ ELSE "closing"]

\* VoiceSession.retire: the stream a session holds is closed with it.
retire(v) == [v EXCEPT !.retired = TRUE]
retireStream(v, x) == IF v.attached /\ ~v.retired THEN Drop(x) ELSE x

\* A voice.error; a closed socket swallows it.
Tell(v) == [v EXCEPT !.errors = IF connected THEN @ + 1 ELSE @]

\* The session fails and the customer is told.
Fail(v) == Tell([v EXCEPT !.status = "failed"])

\* The session ends: voice.session_ended.
End(v) == [v EXCEPT !.status = "ended", !.ends = @ + 1]

Update(s, v) == session' = [session EXCEPT ![s] = v]
UpdateStream(s, x) == stream' = [stream EXCEPT ![s] = x]
GoTo(s, await) == at' = [at EXCEPT ![s] = await]

-----------------------------------------------------------------------------
(* Messages of the customer *)

\* Mutant: the timers of the session that is replaced stay armed.
voiceStartKeepsTimers(s) ==
    /\ connected
    /\ at[s] = "unborn"
    /\ current' = s
    /\ GoTo(s, "acquire")
    /\ IF current = NoSession
       THEN UNCHANGED <<session, stream>>
       ELSE /\ Update(current, retire(session[current]))
            /\ UpdateStream(current, retireStream(session[current], stream[current]))
    /\ UNCHANGED connected

\* handleStart up to its first await: the session before is fully retired.
voiceStart(s) ==
    /\ connected
    /\ at[s] = "unborn"
    /\ current' = s
    /\ GoTo(s, "acquire")
    /\ IF current = NoSession
       THEN UNCHANGED <<session, stream>>
       ELSE /\ Update(current, retire(clearTimers(session[current])))
            /\ UpdateStream(current, retireStream(session[current], stream[current]))
    /\ UNCHANGED connected

\* Mutant: chunks that arrive while the stream connects are dropped.
handleAudioLive(s) ==
    LET v == session[s]
        n == v.chunks + 1
    IN
    /\ connected /\ current = s /\ v.chunks < MaxChunks[s]
    /\ Update(s, [v EXCEPT !.chunks = n])
    /\ UpdateStream(s, IF v.status = "listening" /\ ~v.stopping /\ stream[s].socket # "closed"
                       THEN [stream[s] EXCEPT !.audio = Append(@, n)] ELSE stream[s])
    /\ UNCHANGED <<connected, current, at>>

\* A chunk is kept while the stream connects, up to the cap, then sent to it;
\* the SDK throws when the socket is already closed.
handleAudioChunk(s) ==
    LET v == session[s]
        n == v.chunks + 1
        live == v.attached /\ v.status = "listening"
        accepted == ~v.stopping /\ ~isTerminal(v)
    IN
    /\ connected /\ current = s /\ v.chunks < MaxChunks[s]
    /\ Update(s, [v EXCEPT !.chunks = n,
                           !.pendingAudio = IF accepted /\ ~live /\ Len(@) < AudioCap
                                            THEN Append(@, n) ELSE @])
    /\ UpdateStream(s, IF accepted /\ live /\ stream[s].socket # "closed"
                       THEN [stream[s] EXCEPT !.audio = Append(@, n)] ELSE stream[s])
    /\ UNCHANGED <<connected, current, at>>

Stoppable(v) ==
    v.attached /\ ~v.stopping /\ ~v.finalTimer /\ v.status \notin {"ended", "failed"}

\* stopSession up to its await: stream.stop() is called.
stopSession(s) ==
    /\ Update(s, [session[s] EXCEPT !.stopping = TRUE, !.stopTimer = FALSE, !.asked = TRUE])
    /\ UpdateStream(s, [stream[s] EXCEPT !.selfClosing = TRUE,
                                         !.socket = IF @ = "open" THEN "closing" ELSE @])
    /\ GoTo(s, "flush")

\* Mutant: a second voice.stop flushes again.
handleStopTwice(s) ==
    /\ connected /\ current = s
    /\ at[s] \in {"acquire", "connect", "none"}
    /\ \/ session[s].attached /\ stopSession(s)
       \/ /\ ~session[s].attached
          /\ Update(s, [session[s] EXCEPT !.asked = TRUE])
          /\ UNCHANGED <<stream, at>>
    /\ UNCHANGED <<connected, current>>

\* voice.stop; without a stream, or in a session that is stopping or over, it
\* does nothing.
handleStop(s) ==
    /\ connected /\ current = s
    /\ \/ Stoppable(session[s]) /\ stopSession(s)
       \/ /\ ~Stoppable(session[s])
          /\ Update(s, [session[s] EXCEPT !.asked = TRUE])
          /\ UNCHANGED <<stream, at>>
    /\ UNCHANGED <<connected, current>>

\* The socket closed: the session is removed and its stream closed.
handleDisconnect ==
    LET s == current IN
    /\ connected
    /\ connected' = FALSE
    /\ current' = NoSession
    /\ IF s = NoSession
       THEN UNCHANGED <<session, stream>>
       ELSE /\ Update(s, [retire(clearTimers(session[s])) EXCEPT
                             !.status = IF @ = "listening" THEN "interrupted" ELSE @])
            /\ UpdateStream(s, retireStream(session[s], stream[s]))
    /\ UNCHANGED at

-----------------------------------------------------------------------------
(* The awaits of handleStart: openStream *)

\* The limiter grants the lease and the handshake starts.
Acquired(s) ==
    /\ at[s] = "acquire"
    /\ Cardinality({z \in Session : stream[z].lease = "held"}) < Permits
    /\ UpdateStream(s, [stream[s] EXCEPT !.lease = "held", !.socket = "opening"])
    /\ GoTo(s, "connect")
    /\ UNCHANGED <<connected, current, session>>

\* The limiter refuses, or the handshake rejects (exit 5 of the lease).  Only
\* the current session is taken out of the registry, and told.
OpenFails(s) ==
    /\ \/ at[s] = "acquire" /\ UNCHANGED stream
       \/ /\ at[s] = "connect"
          /\ UpdateStream(s, [stream[s] EXCEPT !.lease = "released", !.socket = "closed"])
    /\ GoTo(s, "none")
    /\ IF current = s
       THEN current' = NoSession /\ Update(s, Tell(retire(session[s])))
       ELSE UNCHANGED current /\ Update(s, retire(session[s]))
    /\ UNCHANGED connected

\* Mutant: attachStream does not ask whether the session is retired.
ConnectedAnyway(s) ==
    /\ at[s] = "connect"
    /\ stream[s].socket = "opening"
    /\ GoTo(s, "none")
    /\ Update(s, [session[s] EXCEPT !.attached = TRUE, !.pendingAudio = <<>>, !.status = "listening"])
    /\ UpdateStream(s, [stream[s] EXCEPT !.socket = "open", !.audio = @ \o session[s].pendingAudio])
    /\ UNCHANGED <<connected, current>>

\* The handshake resolves: attachStream closes the stream of a session that was
\* retired meanwhile; otherwise the kept audio is flushed and it listens.
Connected(s) ==
    LET v == session[s]
        open == [stream[s] EXCEPT !.socket = "open"]
    IN
    /\ at[s] = "connect"
    /\ stream[s].socket = "opening"
    /\ GoTo(s, "none")
    /\ \/ /\ v.retired
          /\ UpdateStream(s, Drop(open))
          /\ UNCHANGED session
       \/ /\ ~v.retired
          /\ Update(s, [v EXCEPT !.attached = TRUE, !.pendingAudio = <<>>, !.status = "listening"])
          /\ UpdateStream(s, [open EXCEPT !.audio = @ \o v.pendingAudio])
    /\ UNCHANGED <<connected, current>>

-----------------------------------------------------------------------------
(* The await of stopSession, and the timers *)

\* stop() rejects: forceEndpoint or close(true) threw.  The lease is handed
\* back (exit 1) and stopSession is left.
FlushFails(s) ==
    /\ at[s] = "flush"
    /\ UpdateStream(s, [stream[s] EXCEPT !.lease = "released"])
    /\ GoTo(s, "none")
    /\ UNCHANGED <<connected, current, session>>

\* stop() resolves: the session ends, or the grace window for a final opens.
Flushed(s) ==
    LET v == session[s] IN
    /\ at[s] = "flush"
    /\ UpdateStream(s, [stream[s] EXCEPT !.lease = "released"])
    /\ GoTo(s, "none")
    /\ Update(s, IF v.finalReceived THEN End(v) ELSE [v EXCEPT !.finalTimer = TRUE])
    /\ UNCHANGED <<connected, current>>

\* Mutant: the grace window closes without a word.
finalTimeoutSilent(s) ==
    /\ session[s].finalTimer
    /\ Update(s, [session[s] EXCEPT !.finalTimer = FALSE])
    /\ UNCHANGED <<connected, current, at, stream>>

\* finalTranscriptMs after the flush.
finalTimeout(s) ==
    LET v == [session[s] EXCEPT !.finalTimer = FALSE] IN
    /\ session[s].finalTimer
    /\ Update(s, IF v.finalReceived \/ v.status = "failed" THEN v ELSE Fail(v))
    /\ UNCHANGED <<connected, current, at, stream>>

\* partialIdleMs without speech: the server stops the session it belongs to.
idleStop(s) ==
    /\ session[s].stopTimer
    /\ \/ /\ current = s /\ session[s].status = "listening" /\ ~session[s].stopping
          /\ stopSession(s)
       \/ /\ ~(current = s /\ session[s].status = "listening" /\ ~session[s].stopping)
          /\ Update(s, [session[s] EXCEPT !.stopTimer = FALSE])
          /\ UNCHANGED <<stream, at>>
    /\ UNCHANGED <<connected, current>>

-----------------------------------------------------------------------------
(* Events of the provider's socket *)

CanSpeak(s) == stream[s].socket \in {"open", "closing"} /\ at[s] # "connect"

\* A partial that says something new; empty and repeated ones are only shown.
onPartial(s) ==
    /\ CanSpeak(s)
    /\ ~isTerminal(session[s])
    /\ Update(s, armIdleStop([session[s] EXCEPT !.midSpeech = TRUE]))
    /\ UNCHANGED <<connected, current, at, stream>>

\* Mutant: a final counts in any session that has not failed.
onFinalAlways(s) ==
    LET v == session[s] IN
    /\ CanSpeak(s) /\ v.finals < MaxFinals[s]
    /\ UpdateStream(s, [stream[s] EXCEPT !.finalDelivered = TRUE])
    /\ Update(s, [v EXCEPT !.finalReceived = TRUE, !.finals = @ + 1])
    /\ UNCHANGED <<connected, current, at>>

\* The first formatted end of a turn: the one event that may touch the cart.
onFinal(s) ==
    LET v == session[s]
        received == [v EXCEPT !.finalReceived = TRUE, !.finals = @ + 1, !.midSpeech = FALSE]
        closed == IF v.finalTimer THEN End([received EXCEPT !.finalTimer = FALSE]) ELSE received
    IN
    /\ CanSpeak(s) /\ v.finals < MaxFinals[s]
    /\ UpdateStream(s, [stream[s] EXCEPT !.finalDelivered = TRUE])
    /\ IF isTerminal(v) THEN UNCHANGED session ELSE Update(s, armIdleStop(closed))
    /\ UNCHANGED <<connected, current, at>>

\* handlers.onError.
onError(v) ==
    LET quiet == [v EXCEPT !.stopTimer = FALSE]
    IN  IF isTerminal(v) THEN quiet ELSE Fail(quiet)

\* 'error': the lease goes back (exit 4), the socket is dropped.
SocketError(s) ==
    /\ stream[s].socket \in {"opening", "open", "closing"}
    /\ UpdateStream(s, Drop(stream[s]))
    /\ Update(s, onError(session[s]))
    /\ UNCHANGED <<connected, current, at>>

\* 'close': the lease goes back (exit 3); an error only before any final.
SocketClose(s) ==
    LET x == stream[s] IN
    /\ x.socket \in {"opening", "open", "closing"}
    /\ UpdateStream(s, [x EXCEPT !.socket = "closed", !.lease = "released"])
    /\ Update(s, IF ~x.finalDelivered /\ ~x.selfClosing THEN onError(session[s]) ELSE session[s])
    /\ UNCHANGED <<connected, current, at>>

-----------------------------------------------------------------------------
Customer(s) == voiceStart(s) \/ handleAudioChunk(s) \/ handleStop(s)
Await(s) == Acquired(s) \/ OpenFails(s) \/ Connected(s) \/ FlushFails(s) \/ Flushed(s)
Timer(s) == finalTimeout(s) \/ idleStop(s)
Provider(s) == onPartial(s) \/ onFinal(s) \/ SocketError(s) \/ SocketClose(s)

Next ==
    \/ handleDisconnect
    \/ \E s \in Session : Customer(s) \/ Await(s) \/ Timer(s) \/ Provider(s)

\* The limiter's deadline and the SDK settle every await, and timers fire.
\* Nothing makes the customer speak or the provider send an event.
Fairness == \A s \in Session : WF_vars(Await(s)) /\ WF_vars(finalTimeout(s)) /\ WF_vars(idleStop(s))

Spec == Init /\ [][Next]_vars /\ Fairness

-----------------------------------------------------------------------------
(* Safety *)

(* Leases and sockets go together.  No lease is stranded: one that is held
   belongs to a handshake that will give it back, or to the attached stream of
   the session the registry still reaches.  And a socket that is open, and
   billed, holds one, so the permits bound the sockets, whatever closed, failed
   or was replaced (assemblyai-stt-provider.ts: a leaked permit never comes
   back). *)
LeasesExact ==
    \A s \in Session :
        /\ stream[s].lease = "held" =>
               \/ at[s] = "connect"
               \/ current = s /\ session[s].attached /\ ~session[s].retired
        /\ stream[s].socket \in {"opening", "open"} => stream[s].lease = "held"

(* No ghost stop: an armed stopped-talking timer belongs to the current
   session, which listens and is not stopping. *)
IdleTimerIsLive ==
    \A s \in Session : session[s].stopTimer =>
        current = s /\ session[s].status = "listening" /\ ~session[s].stopping

(* The provider hears the chunks in the order they were spoken, the onset that
   was kept during the handshake first. *)
AudioInOrder ==
    \A s \in Session :
        LET all == stream[s].audio \o session[s].pendingAudio IN
        /\ \A i, j \in 1..Len(all) : i < j => all[i] < all[j]
        /\ session[s].status = "listening" => session[s].pendingAudio = <<>>
        /\ session[s].status = "listening" /\ session[s].chunks > 0 /\ AudioCap > 0 /\ all # <<>>
               => all[1] = 1

(* Only the session of the registry sends a transcript to the ordering
   module, and none after it failed or ended; and a turn is closed out once,
   by the flush or by the late final, never by both. *)
OneTurnAtATime ==
    [][\A s \in Session :
           /\ session'[s].finals # session[s].finals =>
                  current = s /\ session[s].status = "listening"
           /\ session'[s].ends # session[s].ends => session[s].ends = 0]_vars

(* Liveness *)

(* After a flush the customer gets a transcript or is asked to repeat. *)
GraceDecides ==
    \A s \in Session : session[s].finalTimer ~> isTerminal(session[s])

(* A provider that hangs up before it delivered a transcript, and unasked, is
   never taken for the end of a turn. *)
DropBeforeFinalFails ==
    [](\A s \in Session :
           /\ session[s].attached /\ ~session[s].stopping
           /\ stream[s].socket = "closed" /\ ~stream[s].finalDelivered
           => isTerminal(session[s]))

(* A customer whose words are lost is not left waiting, whichever side closed
   the stream. *)
NobodyLeftWaiting == GraceDecides /\ DropBeforeFinalFails

-----------------------------------------------------------------------------
(* What the comments and docs say and the code does not do *)

(* "Must fully retire the prior session first" (handleStart): no voice.error
   of a replaced session reaches the turn that replaced it. *)
NoGhostError ==
    [][\A s \in Session : session'[s].errors # session[s].errors =>
           current = s \/ current = NoSession]_vars

(* "Either one ends the turn" (docs/customer-stop-detection.md): a voice.stop
   sent while the stream connects ends the turn too. *)
StopWhileConnectingEnds ==
    \A s \in Session : session[s].asked /\ at[s] = "connect"
                           ~> session[s].stopping \/ isTerminal(session[s])

(* "The handler-side finalTranscript timeout is the hard backstop if none
   arrives" (assemblyai-stt-provider.ts): a session being flushed ends. *)
FlushEnds ==
    \A s \in Session : at[s] = "flush" ~> isTerminal(session[s])

(* "Closes mid-speech: [...] ask repeat" (docs/design.md 11.2 B). *)
DropIsHeard ==
    [][\A s \in Session :
           /\ stream[s].socket = "open" /\ stream'[s].socket = "closed"
           /\ current = s /\ session[s].midSpeech
           => session'[s].errors > session[s].errors]_vars
=============================================================================
