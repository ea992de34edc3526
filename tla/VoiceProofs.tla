------------------------------ MODULE VoiceProofs ------------------------------
(***************************************************************************)
(* The voice sessions of a socket, for any sessions, permits, caps and     *)
(* bounds: leases and sockets go together, no idle timer outlives its      *)
(* session, one turn at a time, and audio in the order it was spoken.      *)
(*                                                                         *)
(* The argument: from its voice.start on, a session is retired exactly     *)
(* when it is not the current one (Reached).  What it holds follows the    *)
(* await it is at (Placed): a socket that opens belongs to the handshake,  *)
(* one that is open to an attached stream, one being flushed closes.       *)
(* stopping is never taken back, so a session is flushed once (Stopped).   *)
(***************************************************************************)
EXTENDS VoiceSessions, SequenceTheorems, TLAPS

\* A session that was not started is as new, the current one is not retired,
\* and every other one is.
Reached(s) ==
    /\ at[s] = "unborn" => /\ current # s /\ session[s] = NewSession
                           /\ stream[s].socket = "none" /\ stream[s].lease = "none" /\ stream[s].audio = <<>>
    /\ at[s] # "unborn" => (current = s <=> ~session[s].retired)

\* The await and what the session and its stream are by then.
Placed(s) ==
    /\ at[s] = "acquire" => session[s].status = "idle" /\ stream[s].socket = "none"
    /\ stream[s].socket = "opening" => at[s] = "connect" /\ session[s].status = "idle"
    /\ session[s].attached => at[s] \in {"none", "flush"} /\ stream[s].socket \in {"open", "closing", "closed"}
    /\ session[s].status = "listening" => session[s].attached
    /\ session[s].attached => session[s].status # "idle"
    /\ at[s] = "flush" => stream[s].socket \in {"closing", "closed"}
    /\ stream[s].socket \in {"open", "closing"} /\ at[s] # "connect" => session[s].attached \/ session[s].retired

Leased(s) ==
    /\ stream[s].lease = "held" =>
           \/ at[s] = "connect"
           \/ current = s /\ session[s].attached /\ ~session[s].retired
    /\ stream[s].socket \in {"opening", "open"} => stream[s].lease = "held"

\* A session is asked to stop once, and ends once.
Stopped(s) ==
    /\ session[s].stopping => session[s].attached
    /\ at[s] = "flush" => session[s].stopping /\ ~session[s].finalTimer
    /\ session[s].finalTimer => session[s].stopping
    /\ ~session[s].stopping \/ at[s] = "flush" \/ session[s].finalTimer => session[s].ends = 0
    /\ session[s].stopTimer => current = s /\ session[s].status = "listening" /\ ~session[s].stopping

Chunks(s) == stream[s].audio \o session[s].pendingAudio

Rising(q) == \A i, j \in 1..Len(q) : i < j => q[i] < q[j]

\* The chunks sent and kept are chunks the customer sent, in order.  They begin
\* with the first one: if that was lost, so are all that follow.
Heard(s) ==
    /\ Rising(Chunks(s))
    /\ \A i \in 1..Len(Chunks(s)) : Chunks(s)[i] <= session[s].chunks
    /\ session[s].status = "listening" => session[s].pendingAudio = <<>>
    /\ AudioCap > 0 /\ Chunks(s) # <<>> => Chunks(s)[1] = 1
    /\ AudioCap > 0 /\ Chunks(s) = <<>> /\ session[s].chunks > 0 =>
           \/ session[s].stopping \/ isTerminal(session[s])
           \/ stream[s].socket = "closed" /\ session[s].attached

SInv(s) == Reached(s) /\ Placed(s) /\ Leased(s) /\ Stopped(s)

IInv == TypeOK /\ \A s \in Session : SInv(s)

\* The types of a session and of its stream.
Voice == [
    status : {"idle", "listening"} \cup Terminal,
    retired : BOOLEAN, attached : BOOLEAN, finalReceived : BOOLEAN, stopping : BOOLEAN,
    finalTimer : BOOLEAN, stopTimer : BOOLEAN, midSpeech : BOOLEAN,
    pendingAudio : Seq(Nat), errors : Nat, finals : Nat, ends : Nat, chunks : Nat, asked : BOOLEAN]
Stream == [
    socket : {"none", "opening", "open", "closing", "closed"}, lease : {"none", "held", "released"},
    selfClosing : BOOLEAN, finalDelivered : BOOLEAN, audio : Seq(Nat)]
Awaits == {"unborn", "acquire", "connect", "none", "flush"}

-----------------------------------------------------------------------------
LEMMA InitIInv == Init => IInv
<1> SUFFICES ASSUME Init PROVE IInv
  OBVIOUS
<1>1. TypeOK
  BY DEF Init, TypeOK, NewSession, Terminal
<1>2. ASSUME NEW s \in Session PROVE SInv(s)
  BY <1>2, SessionAssumption DEF Init, NewSession, SInv, Reached, Placed, Leased, Stopped, Terminal
<1> QED
  BY <1>1, <1>2 DEF IInv

(* A step that writes session s only, leaves the others their part of the
   invariant: of the registry it matters to them whether they are current. *)
LEMMA StepOf ==
    ASSUME IInv, NEW s \in Session, NEW v \in Voice, NEW x \in Stream, NEW a \in Awaits,
           session' = [session EXCEPT ![s] = v], stream' = [stream EXCEPT ![s] = x], at' = [at EXCEPT ![s] = a],
           connected' \in BOOLEAN, current' \in Session \cup {NoSession},
           \A z \in Session \ {s} : current' = z <=> current = z,
           SInv(s)'
    PROVE  IInv'
<1>1. TypeOK'
  BY DEF IInv, TypeOK, Voice, Stream, Awaits
<1>2. ASSUME NEW z \in Session \ {s} PROVE SInv(z)'
  <2>1. SInv(z) /\ session'[z] = session[z] /\ stream'[z] = stream[z] /\ at'[z] = at[z]
    BY DEF IInv, TypeOK
  <2> QED
    BY <2>1 DEF SInv, Reached, Placed, Leased, Stopped
<1> QED
  BY <1>1, <1>2 DEF IInv

(* What the operations make of a session and of its stream has their types. *)
LEMMA VoiceTyped ==
    ASSUME NEW w \in Voice
    PROVE  /\ Tell(w) \in Voice
           /\ Fail(w) \in Voice
           /\ End(w) \in Voice
           /\ onError(w) \in Voice
           /\ armIdleStop(w) \in Voice
           /\ clearTimers(w) \in Voice
           /\ retire(w) \in Voice
<1>1. ASSUME NEW y \in Voice PROVE Tell(y) \in Voice
  <2>1. y.errors + 1 \in Nat
    BY DEF Voice
  <2>2. [y EXCEPT !.errors = y.errors + 1] \in Voice /\ [y EXCEPT !.errors = y.errors] \in Voice
    BY <2>1 DEF Voice
  <2> QED
    BY <2>2 DEF Tell
<1>2. ASSUME NEW y \in Voice PROVE Fail(y) \in Voice
  <2>1. [y EXCEPT !.status = "failed"] \in Voice
    BY DEF Voice, Terminal
  <2> QED
    BY <2>1, <1>1 DEF Fail
<1>3. End(w) \in Voice
  <2>1. w.ends + 1 \in Nat
    BY DEF Voice
  <2> QED
    BY <2>1 DEF End, Voice, Terminal
<1>4. onError(w) \in Voice
  <2>1. [w EXCEPT !.stopTimer = FALSE] \in Voice
    BY DEF Voice
  <2> QED
    BY <2>1, <1>2 DEF onError
<1>5. armIdleStop(w) \in Voice
  BY DEF armIdleStop, Voice
<1>6. clearTimers(w) \in Voice /\ retire(w) \in Voice
  BY DEF clearTimers, retire, Voice
<1> QED
  BY <1>1, <1>2, <1>3, <1>4, <1>5, <1>6

LEMMA StreamTyped ==
    ASSUME NEW x \in Stream, NEW v
    PROVE  Drop(x) \in Stream /\ retireStream(v, x) \in Stream
<1>1. Drop(x) \in Stream
  <2>1. CASE x.socket = "closed"
    BY <2>1 DEF Drop, Stream
  <2>2. CASE x.socket # "closed"
    BY <2>2 DEF Drop, Stream
  <2> QED
    BY <2>1, <2>2
<1> QED
  BY <1>1 DEF retireStream

LEMMA AcquiredStep == ASSUME IInv, NEW s \in Session, Acquired(s) PROVE IInv'
<1> DEFINE v == session[s]
           x == [stream[s] EXCEPT !.lease = "held", !.socket = "opening"]
<1>1. SInv(s) /\ session[s] \in Voice /\ stream[s] \in Stream /\ at[s] \in Awaits
  BY DEF IInv, TypeOK, Voice, Stream, Awaits
<1>2. /\ session' = [session EXCEPT ![s] = v] /\ stream' = [stream EXCEPT ![s] = x]
      /\ at' = [at EXCEPT ![s] = "connect"]
      /\ UNCHANGED <<connected, current>>
  BY DEF IInv, TypeOK, Acquired, Update, UpdateStream, GoTo
<1>3. v \in Voice /\ x \in Stream
  BY <1>1, VoiceTyped, StreamTyped DEF Voice, Stream, Acquired, Terminal
<1>4. SInv(s)'
  BY <1>1, <1>2, <1>3 DEF IInv, TypeOK, Voice, Stream, Acquired, SInv, Reached, Placed, Leased, Stopped, NewSession, isTerminal, Terminal
<1> QED
  BY <1>1, <1>2, <1>3, <1>4, StepOf, SessionAssumption DEF Awaits, IInv, TypeOK

LEMMA FlushFailsStep == ASSUME IInv, NEW s \in Session, FlushFails(s) PROVE IInv'
<1> DEFINE v == session[s]
           x == [stream[s] EXCEPT !.lease = "released"]
<1>1. SInv(s) /\ session[s] \in Voice /\ stream[s] \in Stream /\ at[s] \in Awaits
  BY DEF IInv, TypeOK, Voice, Stream, Awaits
<1>2. /\ session' = [session EXCEPT ![s] = v] /\ stream' = [stream EXCEPT ![s] = x]
      /\ at' = [at EXCEPT ![s] = "none"]
      /\ UNCHANGED <<connected, current>>
  BY DEF IInv, TypeOK, FlushFails, Update, UpdateStream, GoTo
<1>3. v \in Voice /\ x \in Stream
  BY <1>1, VoiceTyped, StreamTyped DEF Voice, Stream, FlushFails, Terminal
<1>4. SInv(s)'
  BY <1>1, <1>2, <1>3 DEF IInv, TypeOK, Voice, Stream, FlushFails, SInv, Reached, Placed, Leased, Stopped, NewSession, isTerminal, Terminal
<1> QED
  BY <1>1, <1>2, <1>3, <1>4, StepOf, SessionAssumption DEF Awaits, IInv, TypeOK

LEMMA FlushedStep == ASSUME IInv, NEW s \in Session, Flushed(s) PROVE IInv'
<1> DEFINE v == IF session[s].finalReceived THEN End(session[s]) ELSE [session[s] EXCEPT !.finalTimer = TRUE]
           x == [stream[s] EXCEPT !.lease = "released"]
<1>1. SInv(s) /\ session[s] \in Voice /\ stream[s] \in Stream /\ at[s] \in Awaits
  BY DEF IInv, TypeOK, Voice, Stream, Awaits
<1>2. /\ session' = [session EXCEPT ![s] = v] /\ stream' = [stream EXCEPT ![s] = x]
      /\ at' = [at EXCEPT ![s] = "none"]
      /\ UNCHANGED <<connected, current>>
  BY DEF IInv, TypeOK, Flushed, Update, UpdateStream, GoTo, End
<1>3. v \in Voice /\ x \in Stream
  <2>1. End(session[s]) \in Voice /\ [session[s] EXCEPT !.finalTimer = TRUE] \in Voice
    BY <1>1, VoiceTyped DEF Voice
  <2>2. x \in Stream
    BY <1>1 DEF Stream
  <2> QED
    BY <2>1, <2>2
<1>4. SInv(s)'
  BY <1>1, <1>2, <1>3 DEF IInv, TypeOK, Voice, Stream, Flushed, SInv, Reached, Placed, Leased, Stopped, NewSession, isTerminal, Terminal, End
<1> QED
  BY <1>1, <1>2, <1>3, <1>4, StepOf, SessionAssumption DEF Awaits, IInv, TypeOK

LEMMA FinalTimeoutStep == ASSUME IInv, NEW s \in Session, finalTimeout(s) PROVE IInv'
<1> DEFINE v == LET w == [session[s] EXCEPT !.finalTimer = FALSE] IN IF w.finalReceived \/ w.status = "failed" THEN w ELSE Fail(w)
           x == stream[s]
<1>1. SInv(s) /\ session[s] \in Voice /\ stream[s] \in Stream /\ at[s] \in Awaits
  BY DEF IInv, TypeOK, Voice, Stream, Awaits
<1>2. /\ session' = [session EXCEPT ![s] = v] /\ stream' = [stream EXCEPT ![s] = x]
      /\ at' = [at EXCEPT ![s] = at[s]]
      /\ UNCHANGED <<connected, current>>
  BY DEF IInv, TypeOK, finalTimeout, Update, UpdateStream, GoTo, Fail, Tell
<1>3. v \in Voice /\ x \in Stream
  <2>1. [session[s] EXCEPT !.finalTimer = FALSE] \in Voice
    BY <1>1 DEF Voice
  <2> QED
    BY <1>1, <2>1, VoiceTyped
<1>4. SInv(s)'
  BY <1>1, <1>2, <1>3 DEF IInv, TypeOK, Voice, Stream, finalTimeout, SInv, Reached, Placed, Leased, Stopped, NewSession, isTerminal, Terminal, Fail, Tell
<1> QED
  BY <1>1, <1>2, <1>3, <1>4, StepOf, SessionAssumption DEF Awaits, IInv, TypeOK

LEMMA PartialStep == ASSUME IInv, NEW s \in Session, onPartial(s) PROVE IInv'
<1> DEFINE v == armIdleStop([session[s] EXCEPT !.midSpeech = TRUE])
           x == stream[s]
<1>1. SInv(s) /\ session[s] \in Voice /\ stream[s] \in Stream /\ at[s] \in Awaits
  BY DEF IInv, TypeOK, Voice, Stream, Awaits
<1>2. /\ session' = [session EXCEPT ![s] = v] /\ stream' = [stream EXCEPT ![s] = x]
      /\ at' = [at EXCEPT ![s] = at[s]]
      /\ UNCHANGED <<connected, current>>
  BY DEF IInv, TypeOK, onPartial, Update, UpdateStream, GoTo, armIdleStop, CanSpeak
<1>3. v \in Voice /\ x \in Stream
  <2>1. [session[s] EXCEPT !.midSpeech = TRUE] \in Voice
    BY <1>1 DEF Voice
  <2> QED
    BY <1>1, <2>1, VoiceTyped
<1>4. SInv(s)'
  BY <1>1, <1>2, <1>3 DEF IInv, TypeOK, Voice, Stream, onPartial, SInv, Reached, Placed, Leased, Stopped, NewSession, isTerminal, Terminal, armIdleStop, CanSpeak
<1> QED
  BY <1>1, <1>2, <1>3, <1>4, StepOf, SessionAssumption DEF Awaits, IInv, TypeOK

LEMMA ErrorStep == ASSUME IInv, NEW s \in Session, SocketError(s) PROVE IInv'
<1> DEFINE v == onError(session[s])
           x == Drop(stream[s])
<1>1. SInv(s) /\ session[s] \in Voice /\ stream[s] \in Stream /\ at[s] \in Awaits
  BY DEF IInv, TypeOK, Voice, Stream, Awaits
<1>2. /\ session' = [session EXCEPT ![s] = v] /\ stream' = [stream EXCEPT ![s] = x]
      /\ at' = [at EXCEPT ![s] = at[s]]
      /\ UNCHANGED <<connected, current>>
  BY DEF IInv, TypeOK, SocketError, Update, UpdateStream, GoTo, onError, Fail, Tell, Drop
<1>3. v \in Voice /\ x \in Stream
  BY <1>1, VoiceTyped, StreamTyped
<1>4. SInv(s)'
  BY <1>1, <1>2, <1>3 DEF IInv, TypeOK, Voice, Stream, SocketError, SInv, Reached, Placed, Leased, Stopped, NewSession, isTerminal, Terminal, onError, Fail, Tell, Drop
<1> QED
  BY <1>1, <1>2, <1>3, <1>4, StepOf, SessionAssumption DEF Awaits, IInv, TypeOK

LEMMA CloseStep == ASSUME IInv, NEW s \in Session, SocketClose(s) PROVE IInv'
<1> DEFINE v == IF ~stream[s].finalDelivered /\ ~stream[s].selfClosing THEN onError(session[s]) ELSE session[s]
           x == [stream[s] EXCEPT !.socket = "closed", !.lease = "released"]
<1>1. SInv(s) /\ session[s] \in Voice /\ stream[s] \in Stream /\ at[s] \in Awaits
  BY DEF IInv, TypeOK, Voice, Stream, Awaits
<1>2. /\ session' = [session EXCEPT ![s] = v] /\ stream' = [stream EXCEPT ![s] = x]
      /\ at' = [at EXCEPT ![s] = at[s]]
      /\ UNCHANGED <<connected, current>>
  BY DEF IInv, TypeOK, SocketClose, Update, UpdateStream, GoTo, onError, Fail, Tell
<1>3. v \in Voice /\ x \in Stream
  <2>1. v \in Voice
    BY <1>1, VoiceTyped
  <2>2. x \in Stream
    BY <1>1 DEF Stream
  <2> QED
    BY <2>1, <2>2
<1>4. SInv(s)'
  BY <1>1, <1>2, <1>3 DEF IInv, TypeOK, Voice, Stream, SocketClose, SInv, Reached, Placed, Leased, Stopped, NewSession, isTerminal, Terminal, onError, Fail, Tell
<1> QED
  BY <1>1, <1>2, <1>3, <1>4, StepOf, SessionAssumption DEF Awaits, IInv, TypeOK

LEMMA FinalStep == ASSUME IInv, NEW s \in Session, onFinal(s) PROVE IInv'
<1> DEFINE v == IF isTerminal(session[s]) THEN session[s] ELSE armIdleStop(IF session[s].finalTimer THEN End([[session[s] EXCEPT !.finalReceived = TRUE, !.finals = @ + 1, !.midSpeech = FALSE] EXCEPT !.finalTimer = FALSE]) ELSE [session[s] EXCEPT !.finalReceived = TRUE, !.finals = @ + 1, !.midSpeech = FALSE])
           x == [stream[s] EXCEPT !.finalDelivered = TRUE]
<1>1. SInv(s) /\ session[s] \in Voice /\ stream[s] \in Stream /\ at[s] \in Awaits
  BY DEF IInv, TypeOK, Voice, Stream, Awaits
<1>2. /\ session' = [session EXCEPT ![s] = v] /\ stream' = [stream EXCEPT ![s] = x]
      /\ at' = [at EXCEPT ![s] = at[s]]
      /\ UNCHANGED <<connected, current>>
  BY DEF IInv, TypeOK, onFinal, Update, UpdateStream, GoTo, CanSpeak, armIdleStop, End
<1>3. v \in Voice /\ x \in Stream
  <2> DEFINE received == [session[s] EXCEPT !.finalReceived = TRUE, !.finals = @ + 1, !.midSpeech = FALSE]
  <2>1. session[s].finals + 1 \in Nat
    BY <1>1 DEF Voice
  <2>2. received \in Voice /\ [received EXCEPT !.finalTimer = FALSE] \in Voice
    BY <1>1, <2>1 DEF Voice
  <2>3. x \in Stream
    BY <1>1 DEF Stream
  <2>4. End([received EXCEPT !.finalTimer = FALSE]) \in Voice
    BY <2>2, VoiceTyped
  <2> DEFINE closed == IF session[s].finalTimer THEN End([received EXCEPT !.finalTimer = FALSE]) ELSE received
  <2>5. closed \in Voice
    BY <2>2, <2>4
  <2> HIDE DEF closed
  <2>6. armIdleStop(closed) \in Voice
    BY <2>5, VoiceTyped
  <2> QED
    BY <1>1, <2>3, <2>6 DEF closed
<1>4. SInv(s)'
  <2>1. /\ session'[s] = v /\ stream'[s] = x /\ at'[s] = at[s] /\ current' = current
        /\ CanSpeak(s) /\ at[s] # "unborn"
    BY <1>1, <1>2 DEF IInv, TypeOK, onFinal, CanSpeak, SInv, Reached
  <2>2. x.socket = stream[s].socket /\ x.lease = stream[s].lease
    BY <1>1 DEF Stream
  <2>3. CASE isTerminal(session[s])
    BY <1>1, <2>1, <2>2, <2>3 DEF SInv, Reached, Placed, Leased, Stopped
  <2>4. CASE ~isTerminal(session[s])
    <3>1. session[s].attached /\ session[s].status = "listening"
      BY <1>1, <2>1, <2>4 DEF CanSpeak, SInv, Placed, isTerminal, Terminal, Voice
    <3>2. /\ v.retired = session[s].retired /\ v.attached = session[s].attached /\ v.stopping = session[s].stopping
          /\ v.status \in {"listening", "ended"} /\ ~v.finalTimer
          /\ v.ends # session[s].ends => session[s].finalTimer
          /\ v.stopTimer => v.status = "listening" /\ ~v.stopping
      BY <1>1, <2>4, <3>1 DEF armIdleStop, End, Voice
    <3> HIDE DEF v, x
    <3>3. at[s] \in {"none", "flush"} /\ (session[s].finalTimer => at[s] = "none" /\ session[s].stopping)
      BY <1>1, <3>1 DEF SInv, Placed, Stopped
    <3> QED
      BY <1>1, <2>1, <2>2, <2>4, <3>1, <3>2, <3>3 DEF SInv, Reached, Placed, Leased, Stopped, CanSpeak, isTerminal
  <2> QED
    BY <2>3, <2>4
<1> QED
  BY <1>1, <1>2, <1>3, <1>4, StepOf, SessionAssumption DEF Awaits, IInv, TypeOK

LEMMA OpenFailsStep == ASSUME IInv, NEW s \in Session, OpenFails(s) PROVE IInv'
<1> DEFINE v == IF current = s THEN Tell(retire(session[s])) ELSE retire(session[s])
           x == IF at[s] = "acquire" THEN stream[s] ELSE [stream[s] EXCEPT !.lease = "released", !.socket = "closed"]
<1>1. SInv(s) /\ session[s] \in Voice /\ stream[s] \in Stream /\ at[s] \in Awaits
  BY DEF IInv, TypeOK, Voice, Stream, Awaits
<1>2. /\ session' = [session EXCEPT ![s] = v] /\ stream' = [stream EXCEPT ![s] = x]
      /\ at' = [at EXCEPT ![s] = "none"]
      /\ connected' = connected /\ current' = IF current = s THEN NoSession ELSE current
  BY DEF IInv, TypeOK, OpenFails, Update, UpdateStream, GoTo, Tell, retire
<1>3. v \in Voice /\ x \in Stream
  <2>1. v \in Voice
    BY <1>1, VoiceTyped
  <2>2. x \in Stream
    BY <1>1 DEF Stream
  <2> QED
    BY <2>1, <2>2
<1>4. SInv(s)'
  <2>1. /\ at[s] \in {"acquire", "connect"} /\ at'[s] = "none" /\ session'[s] = v /\ stream'[s] = x
    BY <1>2 DEF IInv, TypeOK, OpenFails
  <2>2. ~session[s].attached /\ (session[s].stopping => FALSE) /\ session[s].ends = 0 /\ ~session[s].stopTimer /\ ~session[s].finalTimer
        /\ session[s].status # "listening"
    BY <1>1, <2>1 DEF SInv, Placed, Stopped, Voice
  <2>3. /\ v.retired /\ v.attached = session[s].attached /\ v.stopping = session[s].stopping
        /\ v.ends = session[s].ends /\ v.stopTimer = session[s].stopTimer /\ v.finalTimer = session[s].finalTimer
        /\ v.status = session[s].status
    BY <1>1 DEF Voice, Tell, retire
  <2>4. x.lease # "held" /\ x.socket \in {"none", "closed"}
    BY <1>1, <2>1 DEF Stream, SInv, Placed, Leased
  <2>5. current' # s
    BY <1>2, SessionAssumption
  <2> QED
    BY <2>1, <2>2, <2>3, <2>4, <2>5 DEF SInv, Reached, Placed, Leased, Stopped
<1> QED
  BY <1>1, <1>2, <1>3, <1>4, StepOf, SessionAssumption DEF Awaits, IInv, TypeOK

LEMMA ConnectedStep == ASSUME IInv, NEW s \in Session, Connected(s) PROVE IInv'
<1> DEFINE v == IF session[s].retired THEN session[s] ELSE [session[s] EXCEPT !.attached = TRUE, !.pendingAudio = <<>>, !.status = "listening"]
           x == IF session[s].retired THEN Drop([stream[s] EXCEPT !.socket = "open"]) ELSE [[stream[s] EXCEPT !.socket = "open"] EXCEPT !.audio = @ \o session[s].pendingAudio]
<1>1. SInv(s) /\ session[s] \in Voice /\ stream[s] \in Stream /\ at[s] \in Awaits
  BY DEF IInv, TypeOK, Voice, Stream, Awaits
<1>2. /\ session' = [session EXCEPT ![s] = v] /\ stream' = [stream EXCEPT ![s] = x]
      /\ at' = [at EXCEPT ![s] = "none"]
      /\ UNCHANGED <<connected, current>>
  BY DEF IInv, TypeOK, Connected, Update, UpdateStream, GoTo, Drop
<1>3. v \in Voice /\ x \in Stream
  <2>1. [stream[s] EXCEPT !.socket = "open"] \in Stream /\ stream[s].audio \o session[s].pendingAudio \in Seq(Nat)
    <3>1. stream[s].audio \in Seq(Nat) /\ session[s].pendingAudio \in Seq(Nat)
      BY <1>1 DEF Voice, Stream
    <3>2. stream[s].audio \o session[s].pendingAudio \in Seq(Nat)
      BY <3>1
    <3>3. [stream[s] EXCEPT !.socket = "open"] \in Stream
      BY <1>1 DEF Stream
    <3> QED
      BY <3>2, <3>3
  <2>2. [[stream[s] EXCEPT !.socket = "open"] EXCEPT !.audio = @ \o session[s].pendingAudio] \in Stream
    BY <2>1 DEF Stream
  <2>3. v \in Voice
    <3>1. <<>> \in Seq(Nat)
      OBVIOUS
    <3> QED
      BY <1>1, <3>1 DEF Voice
  <2> QED
    BY <2>1, <2>2, <2>3, StreamTyped
<1>4. SInv(s)'
  BY <1>1, <1>2, <1>3 DEF IInv, TypeOK, Voice, Stream, Connected, SInv, Reached, Placed, Leased, Stopped, NewSession, isTerminal, Terminal, Drop
<1> QED
  BY <1>1, <1>2, <1>3, <1>4, StepOf, SessionAssumption DEF Awaits, IInv, TypeOK

\* stopSession, of a session that is attached and asked for the first time.
LEMMA StopSessionStep == ASSUME IInv, NEW s \in Session, stopSession(s), UNCHANGED <<connected, current>>,
           session[s].attached, ~session[s].stopping PROVE IInv'
<1> DEFINE v == [session[s] EXCEPT !.stopping = TRUE, !.stopTimer = FALSE, !.asked = TRUE]
           x == [stream[s] EXCEPT !.selfClosing = TRUE, !.socket = IF @ = "open" THEN "closing" ELSE @]
<1>1. SInv(s) /\ session[s] \in Voice /\ stream[s] \in Stream /\ at[s] \in Awaits
  BY DEF IInv, TypeOK, Voice, Stream, Awaits
<1>2. /\ session' = [session EXCEPT ![s] = v] /\ stream' = [stream EXCEPT ![s] = x]
      /\ at' = [at EXCEPT ![s] = "flush"]
      /\ UNCHANGED <<connected, current>>
  BY DEF IInv, TypeOK, stopSession, Update, UpdateStream, GoTo
<1>3. v \in Voice /\ x \in Stream
  <2>1. v \in Voice
    BY <1>1 DEF Voice
  <2>2. CASE stream[s].socket = "open"
    BY <1>1, <2>1, <2>2 DEF Stream
  <2>3. CASE stream[s].socket # "open"
    BY <1>1, <2>1, <2>3 DEF Stream
  <2> QED
    BY <2>2, <2>3
<1>4. SInv(s)'
  BY <1>1, <1>2, <1>3 DEF IInv, TypeOK, Voice, Stream, stopSession, SInv, Reached, Placed, Leased, Stopped, NewSession, isTerminal, Terminal
<1> QED
  BY <1>1, <1>2, <1>3, <1>4, StepOf, SessionAssumption DEF Awaits, IInv, TypeOK

LEMMA HandleStopStep == ASSUME IInv, NEW s \in Session, handleStop(s) PROVE IInv'
<1> DEFINE v == [session[s] EXCEPT !.asked = TRUE]
<1>1. SInv(s) /\ session[s] \in Voice /\ stream[s] \in Stream /\ at[s] \in Awaits
  BY DEF IInv, TypeOK, Voice, Stream, Awaits
<1>2. CASE stopSession(s) /\ Stoppable(session[s])
  BY <1>1, <1>2, StopSessionStep DEF handleStop, Stoppable
<1>3. CASE Update(s, v) /\ UNCHANGED <<stream, at>>
  <2>1. /\ session' = [session EXCEPT ![s] = v] /\ stream' = [stream EXCEPT ![s] = stream[s]]
        /\ at' = [at EXCEPT ![s] = at[s]]
        /\ UNCHANGED <<connected, current>>
    BY <1>3 DEF IInv, TypeOK, handleStop, Update
  <2>2. v \in Voice
    BY <1>1 DEF Voice
  <2>3. at[s] # "unborn"
    BY <1>1 DEF handleStop, SInv, Reached, NewSession
  <2>4. SInv(s)'
    BY <1>1, <2>1, <2>2, <2>3 DEF IInv, TypeOK, Voice, Stream, SInv, Reached, Placed, Leased, Stopped, NewSession, isTerminal, Terminal
  <2> QED
    BY <1>1, <2>1, <2>2, <2>4, StepOf DEF IInv, TypeOK
<1> QED
  BY <1>2, <1>3 DEF handleStop

LEMMA IdleStopStep == ASSUME IInv, NEW s \in Session, idleStop(s) PROVE IInv'
<1> DEFINE v == [session[s] EXCEPT !.stopTimer = FALSE]
<1>1. SInv(s) /\ session[s] \in Voice /\ stream[s] \in Stream /\ at[s] \in Awaits
  BY DEF IInv, TypeOK, Voice, Stream, Awaits
<1>2. CASE stopSession(s) /\ session[s].status = "listening" /\ ~session[s].stopping
  BY <1>1, <1>2, StopSessionStep DEF idleStop, SInv, Placed
<1>3. CASE Update(s, v) /\ UNCHANGED <<stream, at>>
  <2>1. /\ session' = [session EXCEPT ![s] = v] /\ stream' = [stream EXCEPT ![s] = stream[s]]
        /\ at' = [at EXCEPT ![s] = at[s]]
        /\ UNCHANGED <<connected, current>>
    BY <1>3 DEF IInv, TypeOK, idleStop, Update
  <2>2. v \in Voice
    BY <1>1 DEF Voice
  <2>3. at[s] # "unborn"
    BY <1>1 DEF idleStop, SInv, Reached, NewSession
  <2>4. SInv(s)'
    BY <1>1, <2>1, <2>2, <2>3 DEF IInv, TypeOK, Voice, Stream, SInv, Reached, Placed, Leased, Stopped, NewSession, isTerminal, Terminal
  <2> QED
    BY <1>1, <2>1, <2>2, <2>4, StepOf DEF IInv, TypeOK
<1> QED
  BY <1>2, <1>3 DEF idleStop

LEMMA AudioStep == ASSUME IInv, NEW s \in Session, handleAudioChunk(s) PROVE IInv'
<1> DEFINE n == session[s].chunks + 1
           live == session[s].attached /\ session[s].status = "listening"
           accepted == ~session[s].stopping /\ ~isTerminal(session[s])
           kept == IF accepted /\ ~live /\ Len(session[s].pendingAudio) < AudioCap
                   THEN Append(session[s].pendingAudio, n) ELSE session[s].pendingAudio
           sent == IF accepted /\ live /\ stream[s].socket # "closed"
                   THEN Append(stream[s].audio, n) ELSE stream[s].audio
           v == [session[s] EXCEPT !.chunks = n, !.pendingAudio = kept]
           x == [stream[s] EXCEPT !.audio = sent]
<1>1. SInv(s) /\ session[s] \in Voice /\ stream[s] \in Stream /\ at[s] \in Awaits
  BY DEF IInv, TypeOK, Voice, Stream, Awaits
<1>2. /\ session' = [session EXCEPT ![s] = v] /\ stream' = [stream EXCEPT ![s] = x]
      /\ at' = [at EXCEPT ![s] = at[s]]
      /\ UNCHANGED <<connected, current>>
  <2>1. stream[s] = [stream[s] EXCEPT !.audio = stream[s].audio]
    BY <1>1 DEF Stream
  <2> QED
    BY <2>1 DEF IInv, TypeOK, handleAudioChunk, Update, UpdateStream
<1>3. n \in Nat /\ kept \in Seq(Nat) /\ sent \in Seq(Nat)
  BY <1>1 DEF Voice, Stream
<1> HIDE DEF n, kept, sent
<1>4. v \in Voice /\ x \in Stream
  BY <1>1, <1>3 DEF Voice, Stream
<1>5. current = s
  BY DEF handleAudioChunk
<1>6. SInv(s)'
  BY <1>1, <1>2, <1>3, <1>4, <1>5 DEF IInv, TypeOK, Voice, Stream, SInv, Reached, Placed, Leased, Stopped, NewSession, isTerminal, Terminal
<1> QED
  BY <1>1, <1>2, <1>4, <1>6, StepOf DEF IInv, TypeOK

(* The session that a voice.start replaces, or that a disconnect removes, is
   retired, and a stream it holds is dropped with its lease. *)
Over(c, status) == [retire(clearTimers(session[c])) EXCEPT !.status = status]

LEMMA Retired ==
    ASSUME IInv, NEW c \in Session, current = c, NEW status,
           status \in {session[c].status, "interrupted"},
           status # session[c].status => session[c].status = "listening",
           session'[c] = Over(c, status), stream'[c] = retireStream(session[c], stream[c]), at'[c] = at[c],
           current' # c
    PROVE  Over(c, status) \in Voice /\ SInv(c)'
<1> DEFINE v == Over(c, status)
<1>1. SInv(c) /\ session[c] \in Voice /\ stream[c] \in Stream /\ at[c] \in Awaits
  BY DEF IInv, TypeOK, Voice, Stream, Awaits
<1>2. v \in Voice
  <2>1. clearTimers(session[c]) \in Voice
    BY <1>1, VoiceTyped
  <2>2. retire(clearTimers(session[c])) \in Voice
    BY <2>1, VoiceTyped
  <2>3. status \in {"idle", "listening"} \cup Terminal
    BY <1>1 DEF Voice, Terminal
  <2> QED
    BY <2>2, <2>3 DEF Over, Voice
<1>3. stream'[c] \in Stream
  BY <1>1, StreamTyped
<1>4. SInv(c)'
  BY <1>1, <1>2, <1>3 DEF Over, Voice, Stream, retire, clearTimers, retireStream, Drop, SInv, Reached, Placed, Leased, Stopped, NewSession, isTerminal, Terminal
<1> QED
  BY <1>2, <1>4

LEMMA StartStep == ASSUME IInv, NEW s \in Session, voiceStart(s) PROVE IInv'
<1>1. at[s] = "unborn" /\ current' = s /\ at' = [at EXCEPT ![s] = "acquire"] /\ connected' = connected
  BY DEF voiceStart, GoTo
<1>2. SInv(s) /\ current # s
  BY <1>1 DEF IInv, SInv, Reached
<1>3. ASSUME session'[s] = session[s], stream'[s] = stream[s]
      PROVE  SInv(s)'
  BY <1>1, <1>2, <1>3 DEF IInv, TypeOK, SInv, Reached, Placed, Leased, Stopped, NewSession, isTerminal, Terminal
<1>4. ASSUME NEW z \in Session, z # s, z # current, session'[z] = session[z], stream'[z] = stream[z]
      PROVE  SInv(z)'
  <2>1. SInv(z) /\ at'[z] = at[z]
    BY <1>1, <1>4 DEF IInv, TypeOK
  <2> QED
    BY <1>1, <1>4, <2>1 DEF SInv, Reached, Placed, Leased, Stopped, NewSession, isTerminal, Terminal
<1>5. CASE current = NoSession
  <2>1. session' = session /\ stream' = stream
    BY <1>5 DEF voiceStart
  <2>2. TypeOK'
    BY <1>1, <2>1 DEF IInv, TypeOK
  <2> QED
    BY <1>3, <1>4, <1>5, <2>1, <2>2, SessionAssumption DEF IInv
<1>6. CASE current # NoSession
  <2>0. PICK c \in Session : c = current
    BY <1>6 DEF IInv, TypeOK
  <2> DEFINE v == retire(clearTimers(session[c]))
             x == retireStream(session[c], stream[c])
  <2>1. c = current /\ session[c] \in Voice /\ stream[c] \in Stream
    BY <2>0 DEF IInv, TypeOK, Voice, Stream
  <2>2. session' = [session EXCEPT ![c] = v] /\ stream' = [stream EXCEPT ![c] = x]
    BY <1>6, <2>1 DEF voiceStart, Update, UpdateStream
  <2>3. v \in Voice /\ x \in Stream
    BY <2>1, VoiceTyped, StreamTyped
  <2>4. TypeOK'
    BY <1>1, <2>1, <2>2, <2>3 DEF IInv, TypeOK, Voice, Stream
  <2>5. SInv(c)'
    <3>1. v = Over(c, session[c].status)
      BY <2>1 DEF Over, Voice, retire, clearTimers
    <3>2. session'[c] = v /\ stream'[c] = x /\ at'[c] = at[c] /\ current' # c
      BY <1>1, <1>2, <2>1, <2>2 DEF IInv, TypeOK
    <3> QED
      BY <2>1, <3>1, <3>2, Retired
  <2>6. \A z \in Session \ {c} : session'[z] = session[z] /\ stream'[z] = stream[z]
    BY <2>2 DEF IInv, TypeOK
  <2>7. ASSUME NEW z \in Session PROVE SInv(z)'
    <3>1. CASE z = c
      BY <2>5, <3>1
    <3>2. CASE z = s
      BY <1>2, <1>3, <2>1, <2>6, <3>2
    <3>3. CASE z # c /\ z # s
      BY <1>4, <2>1, <2>6, <3>3
    <3> QED
      BY <3>1, <3>2, <3>3
  <2> QED
    BY <2>4, <2>7 DEF IInv
<1> QED
  BY <1>5, <1>6

LEMMA DisconnectStep == ASSUME IInv, handleDisconnect PROVE IInv'
<1>1. current' = NoSession /\ at' = at /\ connected' = FALSE
  BY DEF handleDisconnect
<1>2. CASE current = NoSession
  <2>1. session' = session /\ stream' = stream
    BY <1>2 DEF handleDisconnect
  <2>2. TypeOK'
    BY <1>1, <2>1 DEF IInv, TypeOK
  <2> QED
    BY <1>1, <1>2, <2>1, <2>2, SessionAssumption DEF IInv, SInv, Reached, Placed, Leased, Stopped, NewSession, isTerminal, Terminal
<1>3. CASE current # NoSession
  <2>0. PICK c \in Session : c = current
    BY <1>3 DEF IInv, TypeOK
  <2> DEFINE status == IF session[c].status = "listening" THEN "interrupted" ELSE session[c].status
             v == Over(c, status)
             x == retireStream(session[c], stream[c])
  <2>1. c = current /\ session[c] \in Voice /\ stream[c] \in Stream
    BY <2>0 DEF IInv, TypeOK, Voice, Stream
  <2>2. session' = [session EXCEPT ![c] = v] /\ stream' = [stream EXCEPT ![c] = x]
    BY <1>3, <2>1 DEF handleDisconnect, Update, UpdateStream, Over, retire, clearTimers, Voice
  <2>3. v \in Voice /\ SInv(c)'
    <3>1. session'[c] = v /\ stream'[c] = x /\ at'[c] = at[c] /\ current' # c
      BY <1>1, <1>3, <2>1, <2>2 DEF IInv, TypeOK
    <3> QED
      BY <2>1, <3>1, Retired
  <2>4. TypeOK'
    BY <1>1, <2>1, <2>2, <2>3, StreamTyped DEF IInv, TypeOK, Voice, Stream
  <2>5. ASSUME NEW z \in Session, z # c PROVE SInv(z)'
    <3>1. session'[z] = session[z] /\ stream'[z] = stream[z] /\ SInv(z)
      BY <2>2, <2>5 DEF IInv, TypeOK
    <3> QED
      BY <1>1, <2>1, <2>5, <3>1, SessionAssumption DEF SInv, Reached, Placed, Leased, Stopped, NewSession, isTerminal, Terminal
  <2>6. ASSUME NEW z \in Session PROVE SInv(z)'
    BY <2>3, <2>5
  <2> QED
    BY <2>4, <2>6 DEF IInv
<1> QED
  BY <1>2, <1>3

LEMMA NextIInv == IInv /\ [Next]_vars => IInv'
<1> SUFFICES ASSUME IInv, [Next]_vars PROVE IInv'
  OBVIOUS
<1>1. CASE UNCHANGED vars
  BY <1>1 DEF vars, IInv, TypeOK, SInv, Reached, Placed, Leased, Stopped
<1>2. ASSUME NEW s \in Session, Customer(s) PROVE IInv'
  BY <1>2, StartStep, AudioStep, HandleStopStep DEF Customer
<1>3. ASSUME NEW s \in Session, Await(s) PROVE IInv'
  BY <1>3, AcquiredStep, OpenFailsStep, ConnectedStep, FlushFailsStep, FlushedStep DEF Await
<1>4. ASSUME NEW s \in Session, Timer(s) PROVE IInv'
  BY <1>4, FinalTimeoutStep, IdleStopStep DEF Timer
<1>5. ASSUME NEW s \in Session, Provider(s) PROVE IInv'
  BY <1>5, PartialStep, FinalStep, ErrorStep, CloseStep DEF Provider
<1> QED
  BY <1>1, <1>2, <1>3, <1>4, <1>5, DisconnectStep DEF Next

LEMMA SpecIInv == Spec => []IInv
<1> QED
  BY InitIInv, NextIInv, PTL DEF Spec

-----------------------------------------------------------------------------
(* The state of every session and of its stream is what the code's types say,
   through every message, await, timer and event of the provider. *)
THEOREM TypeCorrect == Spec => []TypeOK
<1>1. IInv => TypeOK
  BY DEF IInv
<1> QED
  BY <1>1, SpecIInv, PTL

(* However a stream is closed, failed, stopped or replaced (attachStream and
   release in assemblyai-stt-provider.ts), a held lease belongs to a handshake
   or to the stream of the reachable session, and an open socket holds one. *)
THEOREM LeasesAreExact == Spec => []LeasesExact
<1>1. IInv => LeasesExact
  BY DEF IInv, SInv, Leased, LeasesExact
<1> QED
  BY <1>1, SpecIInv, PTL

(* A session that stops, fails, ends or is replaced never leaves the timer of
   armIdleStop armed (customer-stop-detection): the server stops no other turn. *)
THEOREM IdleTimersAreLive == Spec => []IdleTimerIsLive
<1>1. IInv => IdleTimerIsLive
  BY DEF IInv, SInv, Stopped, IdleTimerIsLive
<1> QED
  BY <1>1, SpecIInv, PTL

-----------------------------------------------------------------------------
(* What a step leaves alone in a session: the audio it keeps and counts, and
   that it is over, asked to stop or attached. *)
Calm(v, w) ==
    /\ w.pendingAudio = v.pendingAudio /\ w.chunks = v.chunks
    /\ w.status = "listening" => v.status = "listening"
    /\ v.stopping => w.stopping
    /\ v.attached => w.attached
    /\ isTerminal(v) => isTerminal(w)

CalmStream(x, y) == y.audio = x.audio /\ (x.socket = "closed" => y.socket = "closed")

\* No transcript is sent and no turn is closed out.
Silent(v, w) == w.finals = v.finals /\ w.ends = v.ends

LEMMA CalmOps ==
    ASSUME NEW w \in Voice
    PROVE  /\ Calm(w, Fail(w)) /\ Silent(w, Fail(w))
           /\ Calm(w, onError(w)) /\ Silent(w, onError(w))
           /\ Calm(w, armIdleStop(w)) /\ Silent(w, armIdleStop(w))
           /\ Calm(w, retire(w)) /\ Silent(w, retire(w))
           /\ Calm(w, Tell(retire(w))) /\ Silent(w, Tell(retire(w)))
           /\ Calm(w, End(w))
           /\ Calm(w, w) /\ Silent(w, w)
<1>1. Calm(w, Fail(w)) /\ Silent(w, Fail(w))
  BY DEF Voice, Calm, Silent, Fail, Tell, isTerminal, Terminal
<1>2. Calm(w, onError(w)) /\ Silent(w, onError(w))
  BY DEF Voice, Calm, Silent, Fail, Tell, onError, isTerminal, Terminal
<1>3. Calm(w, armIdleStop(w)) /\ Silent(w, armIdleStop(w))
  BY DEF Voice, Calm, Silent, armIdleStop, isTerminal, Terminal
<1>4. Calm(w, retire(w)) /\ Silent(w, retire(w))
  BY DEF Voice, Calm, Silent, retire, isTerminal, Terminal
<1>5. Calm(w, Tell(retire(w))) /\ Silent(w, Tell(retire(w)))
  BY DEF Voice, Calm, Silent, Tell, retire, isTerminal, Terminal
<1>6. Calm(w, End(w))
  BY DEF Voice, Calm, End, isTerminal, Terminal
<1> QED
  BY <1>1, <1>2, <1>3, <1>4, <1>5, <1>6 DEF Calm, Silent

LEMMA CalmTransitive ==
    ASSUME NEW u, NEW v, NEW w, Calm(u, v), Calm(v, w)
    PROVE  Calm(u, w)
<1> QED
  BY DEF Calm

LEMMA CalmRetired ==
    ASSUME NEW c, session[c] \in Voice, NEW x \in Stream, NEW status \in {session[c].status, "interrupted"}
    PROVE  /\ Calm(session[c], Over(c, status)) /\ Silent(session[c], Over(c, status))
           /\ CalmStream(x, retireStream(session[c], x))
<1>1. /\ Over(c, status).retired /\ Over(c, status).status = status
      /\ Over(c, status).stopping = session[c].stopping /\ Over(c, status).attached = session[c].attached
      /\ Over(c, status).pendingAudio = session[c].pendingAudio /\ Over(c, status).chunks = session[c].chunks
      /\ Silent(session[c], Over(c, status))
  BY DEF Over, retire, clearTimers, Voice, Silent
<1>2. CalmStream(x, retireStream(session[c], x))
  BY DEF retireStream, Drop, CalmStream, Stream
<1> QED
  BY <1>1, <1>2 DEF Calm, isTerminal

\* Every session is left its audio by every step but a chunk and a handshake
\* that resolves, and its turn by every step but a final and a flush.
AllCalm == \A z \in Session : Calm(session[z], session'[z]) /\ CalmStream(stream[z], stream'[z])
AllSilent == \A z \in Session : Silent(session[z], session'[z])

LEMMA AcquiredCalm == ASSUME IInv, NEW s \in Session, Acquired(s) PROVE AllCalm /\ AllSilent
<1>1. SInv(s) /\ session[s] \in Voice /\ stream[s] \in Stream
  BY DEF IInv, TypeOK, Voice, Stream
<1>2. Calm(session[s], session'[s]) /\ Silent(session[s], session'[s])
  BY <1>1 DEF IInv, TypeOK, Acquired, Update, Voice, Calm, Silent, isTerminal, Terminal
<1>3. CalmStream(stream[s], stream'[s])
  BY <1>1 DEF IInv, TypeOK, Acquired, UpdateStream, Stream, CalmStream, SInv, Placed
<1>4. ASSUME NEW z \in Session \ {s} PROVE session'[z] = session[z] /\ stream'[z] = stream[z]
  BY DEF IInv, TypeOK, Acquired, Update, UpdateStream
<1> QED
  BY <1>2, <1>3, <1>4 DEF AllCalm, AllSilent, Silent, Calm, CalmStream, isTerminal

LEMMA OpenFailsCalm == ASSUME IInv, NEW s \in Session, OpenFails(s) PROVE AllCalm /\ AllSilent
<1>1. SInv(s) /\ session[s] \in Voice /\ stream[s] \in Stream
  BY DEF IInv, TypeOK, Voice, Stream
<1>2. Calm(session[s], session'[s]) /\ Silent(session[s], session'[s])
  <2>1. session'[s] \in {Tell(retire(session[s])), retire(session[s])}
    BY DEF IInv, TypeOK, OpenFails, Update
  <2> QED
    BY <1>1, CalmOps, <2>1
<1>3. CalmStream(stream[s], stream'[s])
  <2>1. stream'[s] \in {stream[s], [stream[s] EXCEPT !.lease = "released", !.socket = "closed"]}
    BY DEF IInv, TypeOK, OpenFails, UpdateStream
  <2> QED
    BY <1>1, <2>1 DEF Stream, CalmStream
<1>4. ASSUME NEW z \in Session \ {s} PROVE session'[z] = session[z] /\ stream'[z] = stream[z]
  BY DEF IInv, TypeOK, OpenFails, Update, UpdateStream
<1> QED
  BY <1>2, <1>3, <1>4 DEF AllCalm, AllSilent, Silent, Calm, CalmStream, isTerminal

LEMMA FlushFailsCalm == ASSUME IInv, NEW s \in Session, FlushFails(s) PROVE AllCalm /\ AllSilent
<1>1. SInv(s) /\ session[s] \in Voice /\ stream[s] \in Stream
  BY DEF IInv, TypeOK, Voice, Stream
<1>2. Calm(session[s], session'[s]) /\ Silent(session[s], session'[s])
  BY <1>1 DEF IInv, TypeOK, FlushFails, Update, Voice, Calm, Silent, isTerminal, Terminal
<1>3. CalmStream(stream[s], stream'[s])
  BY <1>1 DEF IInv, TypeOK, FlushFails, UpdateStream, Stream, CalmStream, SInv, Placed
<1>4. ASSUME NEW z \in Session \ {s} PROVE session'[z] = session[z] /\ stream'[z] = stream[z]
  BY DEF IInv, TypeOK, FlushFails, Update, UpdateStream
<1> QED
  BY <1>2, <1>3, <1>4 DEF AllCalm, AllSilent, Silent, Calm, CalmStream, isTerminal

LEMMA FlushedCalm == ASSUME IInv, NEW s \in Session, Flushed(s) PROVE AllCalm
<1>1. SInv(s) /\ session[s] \in Voice /\ stream[s] \in Stream
  BY DEF IInv, TypeOK, Voice, Stream
<1>2. Calm(session[s], session'[s])
  BY <1>1 DEF IInv, TypeOK, Flushed, Update, Voice, Calm, Silent, isTerminal, Terminal, End
<1>3. CalmStream(stream[s], stream'[s])
  BY <1>1 DEF IInv, TypeOK, Flushed, UpdateStream, Stream, CalmStream, SInv, Placed, End
<1>4. ASSUME NEW z \in Session \ {s} PROVE session'[z] = session[z] /\ stream'[z] = stream[z]
  BY DEF IInv, TypeOK, Flushed, Update, UpdateStream, End
<1> QED
  BY <1>2, <1>3, <1>4 DEF AllCalm, Calm, CalmStream, isTerminal

LEMMA FinalTimeoutCalm == ASSUME IInv, NEW s \in Session, finalTimeout(s) PROVE AllCalm /\ AllSilent
<1>1. SInv(s) /\ session[s] \in Voice /\ stream[s] \in Stream
  BY DEF IInv, TypeOK, Voice, Stream
<1>2. Calm(session[s], session'[s]) /\ Silent(session[s], session'[s])
  BY <1>1 DEF IInv, TypeOK, finalTimeout, Update, Voice, Calm, Silent, isTerminal, Terminal, Fail, Tell
<1>3. CalmStream(stream[s], stream'[s])
  BY <1>1 DEF IInv, TypeOK, finalTimeout, UpdateStream, Stream, CalmStream, SInv, Placed, Fail, Tell
<1>4. ASSUME NEW z \in Session \ {s} PROVE session'[z] = session[z] /\ stream'[z] = stream[z]
  BY DEF IInv, TypeOK, finalTimeout, Update, UpdateStream, Fail, Tell
<1> QED
  BY <1>2, <1>3, <1>4 DEF AllCalm, AllSilent, Silent, Calm, CalmStream, isTerminal

LEMMA IdleStopCalm == ASSUME IInv, NEW s \in Session, idleStop(s) PROVE AllCalm /\ AllSilent
<1>1. SInv(s) /\ session[s] \in Voice /\ stream[s] \in Stream
  BY DEF IInv, TypeOK, Voice, Stream
<1>2. Calm(session[s], session'[s]) /\ Silent(session[s], session'[s])
  <2>1. session'[s] \in {[session[s] EXCEPT !.stopping = TRUE, !.stopTimer = FALSE, !.asked = TRUE], [session[s] EXCEPT !.stopTimer = FALSE]}
    BY DEF IInv, TypeOK, idleStop, Update, stopSession
  <2>2. Calm(session[s], [session[s] EXCEPT !.stopping = TRUE, !.stopTimer = FALSE, !.asked = TRUE]) /\ Silent(session[s], [session[s] EXCEPT !.stopping = TRUE, !.stopTimer = FALSE, !.asked = TRUE])
    BY <1>1 DEF Voice, Calm, Silent, isTerminal, Terminal
  <2>3. Calm(session[s], [session[s] EXCEPT !.stopTimer = FALSE]) /\ Silent(session[s], [session[s] EXCEPT !.stopTimer = FALSE])
    BY <1>1 DEF Voice, Calm, Silent, isTerminal, Terminal
  <2> QED
    BY <1>1, CalmOps, <2>1, <2>2, <2>3
<1>3. CalmStream(stream[s], stream'[s])
  <2>1. stream'[s] \in {stream[s], [stream[s] EXCEPT !.selfClosing = TRUE, !.socket = IF @ = "open" THEN "closing" ELSE @]}
    BY DEF IInv, TypeOK, idleStop, UpdateStream, stopSession
  <2> QED
    BY <1>1, <2>1 DEF Stream, CalmStream
<1>4. ASSUME NEW z \in Session \ {s} PROVE session'[z] = session[z] /\ stream'[z] = stream[z]
  BY DEF IInv, TypeOK, idleStop, Update, UpdateStream, stopSession
<1> QED
  BY <1>2, <1>3, <1>4 DEF AllCalm, AllSilent, Silent, Calm, CalmStream, isTerminal

LEMMA HandleStopCalm == ASSUME IInv, NEW s \in Session, handleStop(s) PROVE AllCalm /\ AllSilent
<1>1. SInv(s) /\ session[s] \in Voice /\ stream[s] \in Stream
  BY DEF IInv, TypeOK, Voice, Stream
<1>2. Calm(session[s], session'[s]) /\ Silent(session[s], session'[s])
  <2>1. session'[s] \in {[session[s] EXCEPT !.stopping = TRUE, !.stopTimer = FALSE, !.asked = TRUE], [session[s] EXCEPT !.asked = TRUE]}
    BY DEF IInv, TypeOK, handleStop, Update, stopSession
  <2>2. Calm(session[s], [session[s] EXCEPT !.stopping = TRUE, !.stopTimer = FALSE, !.asked = TRUE]) /\ Silent(session[s], [session[s] EXCEPT !.stopping = TRUE, !.stopTimer = FALSE, !.asked = TRUE])
    BY <1>1 DEF Voice, Calm, Silent, isTerminal, Terminal
  <2>3. Calm(session[s], [session[s] EXCEPT !.asked = TRUE]) /\ Silent(session[s], [session[s] EXCEPT !.asked = TRUE])
    BY <1>1 DEF Voice, Calm, Silent, isTerminal, Terminal
  <2> QED
    BY <1>1, CalmOps, <2>1, <2>2, <2>3
<1>3. CalmStream(stream[s], stream'[s])
  <2>1. stream'[s] \in {stream[s], [stream[s] EXCEPT !.selfClosing = TRUE, !.socket = IF @ = "open" THEN "closing" ELSE @]}
    BY DEF IInv, TypeOK, handleStop, UpdateStream, stopSession
  <2> QED
    BY <1>1, <2>1 DEF Stream, CalmStream
<1>4. ASSUME NEW z \in Session \ {s} PROVE session'[z] = session[z] /\ stream'[z] = stream[z]
  BY DEF IInv, TypeOK, handleStop, Update, UpdateStream, stopSession
<1> QED
  BY <1>2, <1>3, <1>4 DEF AllCalm, AllSilent, Silent, Calm, CalmStream, isTerminal

LEMMA PartialCalm == ASSUME IInv, NEW s \in Session, onPartial(s) PROVE AllCalm /\ AllSilent
<1>1. SInv(s) /\ session[s] \in Voice /\ stream[s] \in Stream
  BY DEF IInv, TypeOK, Voice, Stream
<1>2. Calm(session[s], session'[s]) /\ Silent(session[s], session'[s])
  BY <1>1 DEF IInv, TypeOK, onPartial, Update, Voice, Calm, Silent, isTerminal, Terminal, armIdleStop
<1>3. CalmStream(stream[s], stream'[s])
  BY <1>1 DEF IInv, TypeOK, onPartial, UpdateStream, Stream, CalmStream, SInv, Placed, armIdleStop
<1>4. ASSUME NEW z \in Session \ {s} PROVE session'[z] = session[z] /\ stream'[z] = stream[z]
  BY DEF IInv, TypeOK, onPartial, Update, UpdateStream, armIdleStop
<1> QED
  BY <1>2, <1>3, <1>4 DEF AllCalm, AllSilent, Silent, Calm, CalmStream, isTerminal

LEMMA FinalCalm == ASSUME IInv, NEW s \in Session, onFinal(s) PROVE AllCalm
<1>1. SInv(s) /\ session[s] \in Voice /\ stream[s] \in Stream
  BY DEF IInv, TypeOK, Voice, Stream
<1>2. Calm(session[s], session'[s])
  <2>1. session'[s] \in {session[s], armIdleStop([session[s] EXCEPT !.finalReceived = TRUE, !.finals = @ + 1, !.midSpeech = FALSE]), armIdleStop(End([[session[s] EXCEPT !.finalReceived = TRUE, !.finals = @ + 1, !.midSpeech = FALSE] EXCEPT !.finalTimer = FALSE]))}
    BY DEF IInv, TypeOK, onFinal, Update
  <2>2. Calm(session[s], [session[s] EXCEPT !.finalReceived = TRUE, !.finals = @ + 1, !.midSpeech = FALSE]) /\ Calm(session[s], [[session[s] EXCEPT !.finalReceived = TRUE, !.finals = @ + 1, !.midSpeech = FALSE] EXCEPT !.finalTimer = FALSE])
    BY <1>1 DEF Voice, Calm, isTerminal, Terminal
  <2>3. [session[s] EXCEPT !.finalReceived = TRUE, !.finals = @ + 1, !.midSpeech = FALSE] \in Voice /\ [[session[s] EXCEPT !.finalReceived = TRUE, !.finals = @ + 1, !.midSpeech = FALSE] EXCEPT !.finalTimer = FALSE] \in Voice
    <3>1. session[s].finals + 1 \in Nat
      BY <1>1 DEF Voice
    <3> QED
      BY <1>1, <3>1 DEF Voice
  <2>4. Calm(session[s], armIdleStop([session[s] EXCEPT !.finalReceived = TRUE, !.finals = @ + 1, !.midSpeech = FALSE]))
    BY <2>2, <2>3, CalmOps, CalmTransitive
  <2>5. Calm(session[s], armIdleStop(End([[session[s] EXCEPT !.finalReceived = TRUE, !.finals = @ + 1, !.midSpeech = FALSE] EXCEPT !.finalTimer = FALSE])))
    BY <2>2, <2>3, CalmOps, VoiceTyped, CalmTransitive
  <2> QED
    BY <1>1, CalmOps, <2>1, <2>2, <2>3, <2>4, <2>5
<1>3. CalmStream(stream[s], stream'[s])
  BY <1>1 DEF IInv, TypeOK, onFinal, UpdateStream, Stream, CalmStream, SInv, Placed
<1>4. ASSUME NEW z \in Session \ {s} PROVE session'[z] = session[z] /\ stream'[z] = stream[z]
  BY DEF IInv, TypeOK, onFinal, Update, UpdateStream
<1> QED
  BY <1>2, <1>3, <1>4 DEF AllCalm, Calm, CalmStream, isTerminal

LEMMA ErrorCalm == ASSUME IInv, NEW s \in Session, SocketError(s) PROVE AllCalm /\ AllSilent
<1>1. SInv(s) /\ session[s] \in Voice /\ stream[s] \in Stream
  BY DEF IInv, TypeOK, Voice, Stream
<1>2. Calm(session[s], session'[s]) /\ Silent(session[s], session'[s])
  BY <1>1 DEF IInv, TypeOK, SocketError, Update, Voice, Calm, Silent, isTerminal, Terminal, onError, Fail, Tell, Drop
<1>3. CalmStream(stream[s], stream'[s])
  BY <1>1 DEF IInv, TypeOK, SocketError, UpdateStream, Stream, CalmStream, SInv, Placed, onError, Fail, Tell, Drop
<1>4. ASSUME NEW z \in Session \ {s} PROVE session'[z] = session[z] /\ stream'[z] = stream[z]
  BY DEF IInv, TypeOK, SocketError, Update, UpdateStream, onError, Fail, Tell, Drop
<1> QED
  BY <1>2, <1>3, <1>4 DEF AllCalm, AllSilent, Silent, Calm, CalmStream, isTerminal

LEMMA CloseCalm == ASSUME IInv, NEW s \in Session, SocketClose(s) PROVE AllCalm /\ AllSilent
<1>1. SInv(s) /\ session[s] \in Voice /\ stream[s] \in Stream
  BY DEF IInv, TypeOK, Voice, Stream
<1>2. Calm(session[s], session'[s]) /\ Silent(session[s], session'[s])
  BY <1>1 DEF IInv, TypeOK, SocketClose, Update, Voice, Calm, Silent, isTerminal, Terminal, onError, Fail, Tell
<1>3. CalmStream(stream[s], stream'[s])
  BY <1>1 DEF IInv, TypeOK, SocketClose, UpdateStream, Stream, CalmStream, SInv, Placed, onError, Fail, Tell
<1>4. ASSUME NEW z \in Session \ {s} PROVE session'[z] = session[z] /\ stream'[z] = stream[z]
  BY DEF IInv, TypeOK, SocketClose, Update, UpdateStream, onError, Fail, Tell
<1> QED
  BY <1>2, <1>3, <1>4 DEF AllCalm, AllSilent, Silent, Calm, CalmStream, isTerminal

LEMMA StartCalm == ASSUME IInv, NEW s \in Session, voiceStart(s) PROVE AllCalm /\ AllSilent
<1>1. ASSUME NEW z \in Session PROVE session[z] \in Voice /\ stream[z] \in Stream
  BY DEF IInv, TypeOK, Voice, Stream
<1>2. ASSUME NEW z \in Session, z # current \/ current = NoSession
      PROVE  session'[z] = session[z] /\ stream'[z] = stream[z]
  BY <1>2 DEF voiceStart, Update, UpdateStream, IInv, TypeOK
<1>3. ASSUME NEW z \in Session, z = current, current # NoSession
      PROVE  /\ Calm(session[z], session'[z]) /\ Silent(session[z], session'[z])
             /\ CalmStream(stream[z], stream'[z])
  <2> DEFINE status == session[z].status
  <2>1. session[z] \in Voice /\ stream[z] \in Stream
    BY <1>1
  <2>2. session'[z] = Over(z, status) /\ stream'[z] = retireStream(session[z], stream[z])
    <3>1. retire(clearTimers(session[z])) = Over(z, status)
      BY <2>1 DEF Over, Voice, retire, clearTimers
    <3> QED
      BY <1>3, <3>1 DEF voiceStart, Update, UpdateStream, IInv, TypeOK
  <2>3. status \in {session[z].status, "interrupted"}
    OBVIOUS
  <2> HIDE DEF status
  <2> QED
    BY <2>1, <2>2, <2>3, CalmRetired
<1>4. ASSUME NEW z \in Session
      PROVE  Calm(session[z], session[z]) /\ Silent(session[z], session[z]) /\ CalmStream(stream[z], stream[z])
  BY DEF Calm, Silent, CalmStream
<1> QED
  BY <1>2, <1>3, <1>4 DEF AllCalm, AllSilent

LEMMA DisconnectCalm == ASSUME IInv, handleDisconnect PROVE AllCalm /\ AllSilent
<1>1. ASSUME NEW z \in Session PROVE session[z] \in Voice /\ stream[z] \in Stream
  BY DEF IInv, TypeOK, Voice, Stream
<1>2. ASSUME NEW z \in Session, z # current \/ current = NoSession
      PROVE  session'[z] = session[z] /\ stream'[z] = stream[z]
  BY <1>2 DEF handleDisconnect, Update, UpdateStream, IInv, TypeOK
<1>3. ASSUME NEW z \in Session, z = current, current # NoSession
      PROVE  /\ Calm(session[z], session'[z]) /\ Silent(session[z], session'[z])
             /\ CalmStream(stream[z], stream'[z])
  <2> DEFINE status == IF session[z].status = "listening" THEN "interrupted" ELSE session[z].status
  <2>1. session[z] \in Voice /\ stream[z] \in Stream
    BY <1>1
  <2>2. session'[z] = Over(z, status) /\ stream'[z] = retireStream(session[z], stream[z])
    BY <1>3, <2>1 DEF handleDisconnect, Update, UpdateStream, IInv, TypeOK, Over, Voice, retire, clearTimers
  <2>3. status \in {session[z].status, "interrupted"}
    OBVIOUS
  <2> HIDE DEF status
  <2> QED
    BY <2>1, <2>2, <2>3, CalmRetired
<1>4. ASSUME NEW z \in Session
      PROVE  Calm(session[z], session[z]) /\ Silent(session[z], session[z]) /\ CalmStream(stream[z], stream[z])
  BY DEF Calm, Silent, CalmStream
<1> QED
  BY <1>2, <1>3, <1>4 DEF AllCalm, AllSilent

LEMMA StutterCalm == ASSUME UNCHANGED vars PROVE AllCalm /\ AllSilent
<1> QED
  BY DEF vars, AllCalm, AllSilent, Calm, Silent, CalmStream

-----------------------------------------------------------------------------
\* A transcript, or the close of a turn, is of a session that may have it.
OneTurn(z) ==
    /\ session'[z].finals # session[z].finals => current = z /\ session[z].status = "listening"
    /\ session'[z].ends # session[z].ends => session[z].ends = 0

LEMMA FlushedTurn == ASSUME IInv, NEW s \in Session, Flushed(s), NEW z \in Session PROVE OneTurn(z)
<1>1. SInv(s) /\ session[s] \in Voice
  BY DEF IInv, TypeOK, Voice
<1>2. session[s].ends = 0
  BY <1>1 DEF Flushed, SInv, Stopped
<1>3. session'[s] \in {End(session[s]), [session[s] EXCEPT !.finalTimer = TRUE]}
  BY DEF IInv, TypeOK, Flushed, Update
<1>4. session'[s].finals = session[s].finals
  BY <1>1, <1>3 DEF End, Voice
<1>5. z # s => session'[z] = session[z]
  BY DEF IInv, TypeOK, Flushed, Update
<1> QED
  BY <1>2, <1>4, <1>5 DEF OneTurn

LEMMA FinalTurn == ASSUME IInv, NEW s \in Session, onFinal(s), NEW z \in Session PROVE OneTurn(z)
<1>1. SInv(s) /\ session[s] \in Voice
  BY DEF IInv, TypeOK, Voice
<1>2. CASE isTerminal(session[s])
  BY <1>2 DEF onFinal, OneTurn
<1>3. CASE ~isTerminal(session[s])
  <2>1. session[s].attached /\ ~session[s].retired
    BY <1>1, <1>3 DEF onFinal, CanSpeak, SInv, Placed, isTerminal
  <2>2. current = s
    BY <1>1, <2>1 DEF SInv, Placed, Reached
  <2>3. session[s].status = "listening"
    BY <1>1, <1>3, <2>1 DEF SInv, Placed, isTerminal, Voice
  <2>4. session[s].finalTimer => session[s].ends = 0
    BY <1>1 DEF SInv, Stopped
  <2>5. ~session[s].finalTimer => session'[s].ends = session[s].ends
    <3> DEFINE received == [session[s] EXCEPT !.finalReceived = TRUE, !.finals = @ + 1, !.midSpeech = FALSE]
    <3>1. ~session[s].finalTimer => session'[s] = armIdleStop(received)
      BY <1>3 DEF IInv, TypeOK, onFinal, Update
    <3>2. armIdleStop(received).ends = session[s].ends
      BY <1>1 DEF armIdleStop, Voice
    <3> QED
      BY <3>1, <3>2
  <2>6. z # s => session'[z] = session[z]
    BY <1>3 DEF IInv, TypeOK, onFinal, Update
  <2> QED
    BY <2>2, <2>3, <2>4, <2>5, <2>6 DEF OneTurn
<1> QED
  BY <1>2, <1>3

LEMMA SilentTurn == ASSUME AllSilent, NEW z \in Session PROVE OneTurn(z)
<1> QED
  BY DEF AllSilent, Silent, OneTurn

\* The steps that leave all audio alone, and those that leave every turn alone.
LEMMA QuietSteps ==
    ASSUME IInv, [Next]_vars
    PROVE  /\ AllCalm \/ \E s \in Session : handleAudioChunk(s) \/ Connected(s)
           /\ AllSilent \/ \E s \in Session : onFinal(s) \/ Flushed(s)
<1>1. ASSUME NEW s \in Session, handleAudioChunk(s) PROVE AllSilent
  <2>1. session[s] \in Voice
    BY DEF IInv, TypeOK, Voice
  <2>2. session'[s].finals = session[s].finals /\ session'[s].ends = session[s].ends
    BY <1>1, <2>1 DEF handleAudioChunk, Update, IInv, TypeOK, Voice
  <2>3. \A z \in Session \ {s} : session'[z] = session[z]
    BY <1>1 DEF handleAudioChunk, Update, IInv, TypeOK
  <2> QED
    BY <2>2, <2>3 DEF AllSilent, Silent
<1>2. ASSUME NEW s \in Session, Connected(s) PROVE AllSilent
  <2>1. session[s] \in Voice
    BY DEF IInv, TypeOK, Voice
  <2>2. session'[s].finals = session[s].finals /\ session'[s].ends = session[s].ends
    <3>1. session'[s] \in {session[s], [session[s] EXCEPT !.attached = TRUE, !.pendingAudio = <<>>,
                                                          !.status = "listening"]}
      BY <1>2 DEF Connected, Update, IInv, TypeOK
    <3> QED
      BY <2>1, <3>1 DEF Voice
  <2>3. \A z \in Session \ {s} : session'[z] = session[z]
    BY <1>2 DEF Connected, Update, IInv, TypeOK
  <2> QED
    BY <2>2, <2>3 DEF AllSilent, Silent
<1>3. ASSUME NEW s \in Session, Customer(s) \/ Await(s)
      PROVE  /\ AllCalm \/ handleAudioChunk(s) \/ Connected(s)
             /\ AllSilent \/ Flushed(s)
  BY <1>1, <1>2, <1>3, StartCalm, HandleStopCalm, AcquiredCalm, OpenFailsCalm, FlushFailsCalm, FlushedCalm
     DEF Customer, Await
<1>4. ASSUME NEW s \in Session, Timer(s) \/ Provider(s)
      PROVE  /\ AllCalm
             /\ AllSilent \/ onFinal(s)
  BY <1>4, FinalTimeoutCalm, IdleStopCalm, PartialCalm, FinalCalm, ErrorCalm, CloseCalm DEF Timer, Provider
<1> QED
  BY <1>3, <1>4, StutterCalm, DisconnectCalm DEF Next

(* A transcript goes to the ordering module only from the session in the
   registry, while it listens, and a turn is closed out at most once, by the
   flush (stopSession) or by the late final (onFinal), in every interleaving of
   the customer, the awaits, the timers and the provider. *)
THEOREM OneTurnOnly == Spec => OneTurnAtATime
<1>1. ASSUME IInv, [Next]_vars, NEW z \in Session PROVE OneTurn(z)
  BY <1>1, QuietSteps, SilentTurn, FinalTurn, FlushedTurn
<1>2. IInv /\ [Next]_vars =>
      [\A s \in Session :
           /\ session'[s].finals # session[s].finals =>
                  current = s /\ session[s].status = "listening"
           /\ session'[s].ends # session[s].ends => session[s].ends = 0]_vars
  BY <1>1 DEF OneTurn
<1> QED
  BY <1>2, SpecIInv, PTL DEF Spec, OneTurnAtATime

-----------------------------------------------------------------------------
LEMMA RisingAppend ==
    ASSUME NEW q \in Seq(Nat), NEW n \in Nat, Rising(q), \A i \in 1..Len(q) : q[i] < n
    PROVE  Rising(Append(q, n))
<1>1. Len(Append(q, n)) = Len(q) + 1
  OBVIOUS
<1>2. \A i \in 1..Len(q) : Append(q, n)[i] = q[i]
  OBVIOUS
<1>3. Append(q, n)[Len(q) + 1] = n
  OBVIOUS
<1>4. ASSUME NEW i \in 1..Len(q) + 1, NEW j \in 1..Len(q) + 1, i < j
      PROVE  Append(q, n)[i] < Append(q, n)[j]
  <2>1. i \in 1..Len(q)
    BY <1>4
  <2>2. CASE j = Len(q) + 1
    BY <1>2, <1>3, <2>1, <2>2
  <2>3. CASE j # Len(q) + 1
    <3>1. j \in 1..Len(q)
      BY <2>3
    <3> QED
      BY <1>2, <1>4, <2>1, <3>1 DEF Rising
  <2> QED
    BY <2>2, <2>3
<1> QED
  BY <1>1, <1>4 DEF Rising

LEMMA ConcatAppend ==
    ASSUME NEW a \in Seq(Nat), NEW b \in Seq(Nat), NEW e \in Nat
    PROVE  a \o Append(b, e) = Append(a \o b, e)
<1>1. Append(b, e) = b \o <<e>>
  BY AppendIsConcat
<1>2. a \o b \in Seq(Nat)
  BY ConcatProperties
<1>3. Append(a \o b, e) = (a \o b) \o <<e>>
  BY <1>2, AppendIsConcat
<1>4. <<e>> \in Seq(Nat)
  OBVIOUS
<1> QED
  BY <1>1, <1>3, <1>4, ConcatAssociative

\* A chunk at the end of what is sent and kept.
LEMMA HeardAppend ==
    ASSUME NEW q \in Seq(Nat), NEW n \in Nat, Rising(q), \A i \in 1..Len(q) : q[i] <= n,
           q # <<>> /\ AudioCap > 0 => q[1] = 1,
           q = <<>> /\ AudioCap > 0 => n = 0
    PROVE  LET r == Append(q, n + 1) IN
           /\ Rising(r) /\ (\A i \in 1..Len(r) : r[i] <= n + 1) /\ r # <<>>
           /\ AudioCap > 0 => r[1] = 1
<1> DEFINE r == Append(q, n + 1)
<1>1. \A i \in 1..Len(q) : q[i] \in Nat /\ q[i] < n + 1
  BY ElementOfSeq
<1>2. Rising(r)
  BY <1>1, RisingAppend
<1>3. Len(r) = Len(q) + 1 /\ r[Len(q) + 1] = n + 1 /\ \A i \in 1..Len(q) : r[i] = q[i]
  OBVIOUS
<1>4. \A i \in 1..Len(r) : r[i] <= n + 1
  BY <1>1, <1>3
<1>5. r # <<>>
  <2>1. Len(r) # 0
    BY <1>3, EmptySeq
  <2>2. Len(<<>>) = 0
    OBVIOUS
  <2> HIDE DEF r
  <2> QED
    BY <2>1, <2>2
<1>6. AudioCap > 0 => r[1] = 1
  <2>1. CASE q = <<>>
    BY <1>3, <2>1
  <2>2. CASE q # <<>>
    <3>1. 1 \in 1..Len(q)
      BY <2>2, EmptySeq
    <3> QED
      BY <1>3, <2>2, <3>1
  <2> QED
    BY <2>1, <2>2
<1> QED
  BY <1>2, <1>4, <1>5, <1>6

LEMMA HeardCalm ==
    ASSUME IInv, AllCalm, NEW s \in Session, Heard(s)
    PROVE  Heard(s)'
<1>1. Chunks(s)' = Chunks(s) /\ session'[s].chunks = session[s].chunks
  BY DEF AllCalm, Calm, CalmStream, Chunks
<1>2. session'[s].status = "listening" => session'[s].pendingAudio = <<>>
  BY DEF AllCalm, Calm, Heard
<1>3. \/ session[s].stopping \/ isTerminal(session[s])
      \/ stream[s].socket = "closed" /\ session[s].attached
      => \/ session'[s].stopping \/ isTerminal(session'[s])
         \/ stream'[s].socket = "closed" /\ session'[s].attached
  BY DEF AllCalm, Calm, CalmStream
<1>4. Rising(Chunks(s))' = Rising(Chunks(s))
  BY <1>1 DEF Rising
<1>5. isTerminal(session[s])' <=> isTerminal(session'[s])
  BY DEF isTerminal
<1> HIDE DEF Chunks
<1> QED
  BY <1>1, <1>2, <1>3, <1>4, <1>5 DEF Heard

LEMMA HeardConnected ==
    ASSUME IInv, NEW s \in Session, Connected(s), Heard(s)
    PROVE  Heard(s)'
<1>1. SInv(s) /\ session[s] \in Voice /\ stream[s] \in Stream
  BY DEF IInv, TypeOK, Voice, Stream
<1>2. CASE session[s].retired
  <2>1. session' = session /\ stream'[s].audio = stream[s].audio
    <3>1. session' = session /\ stream'[s] = Drop([stream[s] EXCEPT !.socket = "open"])
      BY <1>2 DEF Connected, UpdateStream, IInv, TypeOK
    <3> QED
      BY <1>1, <3>1 DEF Drop, Stream
  <2>2. Chunks(s)' = Chunks(s) /\ Rising(Chunks(s))' = Rising(Chunks(s))
    BY <2>1 DEF Chunks, Rising
  <2> QED
    BY <1>2, <2>1, <2>2 DEF Heard, isTerminal
<1>3. CASE ~session[s].retired
  <2>1. /\ stream'[s].audio = stream[s].audio \o session[s].pendingAudio
        /\ session'[s].pendingAudio = <<>> /\ session'[s].chunks = session[s].chunks
    <3>1. /\ stream'[s] = [[stream[s] EXCEPT !.socket = "open"] EXCEPT !.audio = @ \o session[s].pendingAudio]
          /\ session'[s] = [session[s] EXCEPT !.attached = TRUE, !.pendingAudio = <<>>, !.status = "listening"]
      BY <1>3 DEF Connected, Update, UpdateStream, IInv, TypeOK
    <3> QED
      BY <1>1, <3>1 DEF Stream, Voice
  <2>2. Chunks(s)' = Chunks(s)
    <3>1. stream[s].audio \in Seq(Nat) /\ session[s].pendingAudio \in Seq(Nat)
      BY <1>1 DEF Voice, Stream
    <3> QED
      BY <2>1, <3>1, ConcatEmptySeq, ConcatProperties DEF Chunks
  <2>3. Rising(Chunks(s))' = Rising(Chunks(s))
    BY <2>2 DEF Rising
  <2>4. ~session[s].attached /\ ~session[s].stopping /\ ~isTerminal(session[s])
    BY <1>1, <1>3 DEF Connected, SInv, Placed, Stopped, isTerminal, Terminal
  <2>5. ~(AudioCap > 0 /\ Chunks(s) = <<>> /\ session[s].chunks > 0)
    BY <2>4 DEF Heard
  <2> QED
    BY <2>1, <2>2, <2>3, <2>5 DEF Heard
<1> QED
  BY <1>2, <1>3

LEMMA HeardAudio ==
    ASSUME IInv, NEW s \in Session, handleAudioChunk(s), Heard(s)
    PROVE  Heard(s)'
<1> DEFINE n == session[s].chunks
           live == session[s].attached /\ session[s].status = "listening"
           accepted == ~session[s].stopping /\ ~isTerminal(session[s])
           kept == accepted /\ ~live /\ Len(session[s].pendingAudio) < AudioCap
           sent == accepted /\ live /\ stream[s].socket # "closed"
<1>1. SInv(s) /\ session[s] \in Voice /\ stream[s] \in Stream
  BY DEF IInv, TypeOK, Voice, Stream
<1>2. n \in Nat /\ stream[s].audio \in Seq(Nat) /\ session[s].pendingAudio \in Seq(Nat)
  BY <1>1 DEF Voice, Stream
<1>3. Chunks(s) \in Seq(Nat)
  BY <1>2, ConcatProperties DEF Chunks
<1>4. /\ session'[s].chunks = n + 1 /\ session'[s].status = session[s].status
      /\ session'[s].stopping = session[s].stopping /\ session'[s].attached = session[s].attached
      /\ session'[s].retired = session[s].retired
      /\ session'[s].pendingAudio = IF kept THEN Append(session[s].pendingAudio, n + 1) ELSE session[s].pendingAudio
  BY <1>1 DEF handleAudioChunk, Update, IInv, TypeOK, Voice
<1>5. /\ stream'[s].socket = stream[s].socket
      /\ stream'[s].audio = IF sent THEN Append(stream[s].audio, n + 1) ELSE stream[s].audio
  BY <1>1 DEF handleAudioChunk, UpdateStream, IInv, TypeOK, Stream
<1>6. isTerminal(session[s])' = isTerminal(session[s])
  BY <1>4 DEF isTerminal
<1>7. session[s].status = "listening" => session[s].attached
  BY <1>1 DEF SInv, Placed
<1>8. session'[s].status = "listening" => session'[s].pendingAudio = <<>>
  BY <1>4, <1>7 DEF Heard
<1>9. CASE kept \/ sent
  <2>1. Chunks(s)' = Append(Chunks(s), n + 1)
    <3>1. CASE kept
      <4>1. Chunks(s)' = stream[s].audio \o Append(session[s].pendingAudio, n + 1)
        BY <1>4, <1>5, <3>1 DEF Chunks
      <4>2. n + 1 \in Nat
        BY <1>2
      <4> QED
        BY <1>2, <4>1, <4>2, ConcatAppend DEF Chunks
    <3>2. CASE sent
      <4>1. session[s].pendingAudio = <<>>
        BY <3>2 DEF Heard
      <4>2. Chunks(s)' = Append(stream[s].audio, n + 1) \o <<>> /\ Chunks(s) = stream[s].audio \o <<>>
        BY <1>4, <1>5, <3>2, <4>1 DEF Chunks
      <4>3. Append(stream[s].audio, n + 1) \in Seq(Nat)
        BY <1>2
      <4> QED
        BY <1>2, <4>2, <4>3, ConcatEmptySeq
    <3> QED
      BY <1>9, <3>1, <3>2
  <2>2. AudioCap > 0 /\ Chunks(s) = <<>> => n = 0
    <3>1. session[s].attached => session[s].status # "idle"
      BY <1>1 DEF SInv, Placed
    <3>2. session[s].attached /\ accepted => live
      BY <1>1, <3>1 DEF isTerminal, Terminal, Voice
    <3> QED
      BY <1>2, <1>9, <3>2 DEF Heard
  <2>3. Rising(Chunks(s)) /\ (\A i \in 1..Len(Chunks(s)) : Chunks(s)[i] <= n)
        /\ (AudioCap > 0 /\ Chunks(s) # <<>> => Chunks(s)[1] = 1)
    BY DEF Heard
  <2> DEFINE r == Append(Chunks(s), n + 1)
  <2>4. /\ Rising(r) /\ (\A i \in 1..Len(r) : r[i] <= n + 1) /\ r # <<>>
        /\ AudioCap > 0 => r[1] = 1
    BY <1>2, <1>3, <2>2, <2>3, HeardAppend
  <2>5. Rising(Chunks(s))' = Rising(r)
    BY <2>1 DEF Rising
  <2> HIDE DEF r, Chunks
  <2> QED
    BY <1>4, <1>8, <2>1, <2>4, <2>5 DEF Heard, r
<1>10. CASE ~kept /\ ~sent
  <2>1. Chunks(s)' = Chunks(s)
    BY <1>4, <1>5, <1>10 DEF Chunks
  <2>2. Rising(Chunks(s))' = Rising(Chunks(s))
    BY <2>1 DEF Rising
  <2>3. \A i \in 1..Len(Chunks(s)) : Chunks(s)[i] <= n + 1
    <3>1. \A i \in 1..Len(Chunks(s)) : Chunks(s)[i] \in Nat
      BY <1>3, ElementOfSeq
    <3> QED
      BY <1>2, <3>1 DEF Heard
  <2>4. AudioCap > 0 /\ Chunks(s) = <<>> =>
            \/ session[s].stopping \/ isTerminal(session[s])
            \/ stream[s].socket = "closed" /\ session[s].attached
    <3>1. Chunks(s) = <<>> => session[s].pendingAudio = <<>>
      BY <1>2, ConcatProperties, EmptySeq DEF Chunks
    <3>2. AudioCap > 0 /\ Chunks(s) = <<>> /\ accepted => live
      BY <1>10, <3>1, AudioAssumption
    <3> QED
      BY <1>10, <3>2
  <2> QED
    BY <1>4, <1>5, <1>6, <1>8, <2>1, <2>2, <2>3, <2>4 DEF Heard
<1> QED
  BY <1>9, <1>10

\* A chunk, or a handshake that resolves, of another session.
LEMMA HeardOther ==
    ASSUME IInv, NEW s \in Session, handleAudioChunk(s) \/ Connected(s), NEW z \in Session \ {s}, Heard(z)
    PROVE  Heard(z)'
<1>1. session'[z] = session[z] /\ stream'[z] = stream[z]
  BY DEF handleAudioChunk, Connected, Update, UpdateStream, IInv, TypeOK
<1>2. Chunks(z)' = Chunks(z) /\ Rising(Chunks(z))' = Rising(Chunks(z))
  BY <1>1 DEF Chunks, Rising
<1> QED
  BY <1>1, <1>2 DEF Heard, isTerminal

(* The provider is sent the chunks in the order they were spoken, what
   handleAudioChunk kept while the stream connected first (attachStream flushes
   it before the session listens), and from the first chunk on. *)
THEOREM AudioIsInOrder == Spec => []AudioInOrder
<1> DEFINE AInv == \A s \in Session : Heard(s)
<1>1. Init => AInv
  <2>1. ASSUME Init, NEW s \in Session PROVE Heard(s)
    <3>1. stream[s].audio = <<>> /\ session[s].pendingAudio = <<>> /\ session[s].chunks = 0
      BY <2>1 DEF Init, NewSession
    <3>2. Chunks(s) = <<>>
      BY <3>1 DEF Chunks
    <3>3. Len(Chunks(s)) = 0
      BY <3>2
    <3> QED
      BY <3>1, <3>2, <3>3 DEF Heard, Rising
  <2> QED
    BY <2>1
<1>2. IInv /\ AInv /\ [Next]_vars => AInv'
  <2>1. ASSUME IInv, AInv, [Next]_vars, NEW z \in Session PROVE Heard(z)'
    <3>1. CASE AllCalm
      BY <2>1, <3>1, HeardCalm
    <3>2. ASSUME NEW s \in Session, handleAudioChunk(s) \/ Connected(s) PROVE Heard(z)'
      BY <2>1, <3>2, HeardAudio, HeardConnected, HeardOther
    <3> QED
      BY <2>1, <3>1, <3>2, QuietSteps
  <2> QED
    BY <2>1
<1>3. IInv /\ AInv => AudioInOrder
  BY DEF AudioInOrder, Heard, Chunks, Rising
<1> QED
  BY <1>1, <1>2, <1>3, SpecIInv, PTL DEF Spec

=============================================================================
