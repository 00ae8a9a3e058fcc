---------------------------- MODULE BrowserLink ----------------------------
(***************************************************************************)
(* A window's link to the relay: dialling, the hello and its answers, the    *)
(* heartbeat and its probe, backoff, wake-ups, and what the person does       *)
(* (packages/relay/web/src/connection/{relaySocket,clientAdapter}.ts).        *)
(*                                                                         *)
(* Time is left out: a timer that is set may fire, a silence may be long      *)
(* enough.  What the relay says is heard in the step that says it; a peer     *)
(* that has "gone" says nothing more and the window is not told.  Sockets     *)
(* torn down have no handlers, so they are free at once.                      *)
(***************************************************************************)
EXTENDS Naturals, FiniteSets

CONSTANTS
  Sockets,   \* names of sockets; one that is closed or torn down is used again
  None

ASSUME SocketsAssumption == Sockets \subseteq Nat /\ Sockets # {} /\ None \notin Sockets

VARIABLES
  sockets, ws,
  state,                                   \* what the window shows
  reconnectTimer, pingTimer, probeTimer,   \* whether each is set
  authFailure, temporaryFailure,           \* whether a detail or code is kept
  rejectedByRelay, isManuallyClosed,
  pairCode, autoReconnect,                 \* of the configuration
  dialledBy                                \* auxiliary: who asked for the last dial

timers == <<reconnectTimer, pingTimer, probeTimer>>
refusals == <<authFailure, temporaryFailure, rejectedByRelay, isManuallyClosed>>
config == <<pairCode, autoReconnect>>
vars == <<sockets, ws, state, timers, refusals, config, dialledBy>>

\* The peer has the connection, has been sent the hello, has admitted the window,
\* holds it while its host or session restarts, is about to close, or is gone.
Peers == {"taken", "hello", "window", "held", "leaving", "gone"}
Codes == {1000, 1006, 1008, 1012}

\* pinged: who sent the last ping; heard and answered: whether anything has come
\* in since that ping and since the probe's.  code: of the close to come.
Free == [state |-> "free", peer |-> "gone", code |-> 1006,
         pinged |-> "no", heard |-> TRUE, answered |-> TRUE]
Dialled == [Free EXCEPT !.state = "connecting", !.peer = "taken"]

TypeOK ==
  /\ sockets \in [Sockets ->
       [state : {"free", "connecting", "open", "closing"}, peer : Peers, code : Codes,
        pinged : {"no", "tick", "probe"}, heard : BOOLEAN, answered : BOOLEAN]]
  /\ ws \in Sockets \cup {None}
  /\ state \in {"disconnected", "connecting", "connected", "reconnecting", "error"}
  /\ {reconnectTimer, pingTimer, probeTimer, authFailure, temporaryFailure,
      rejectedByRelay, isManuallyClosed, pairCode, autoReconnect} \subseteq BOOLEAN
  /\ dialledBy \in {None, "person", "page"}

Init ==
  /\ sockets = [s \in Sockets |-> Free] /\ ws = None
  /\ state = "disconnected"
  /\ reconnectTimer = FALSE /\ pingTimer = FALSE /\ probeTimer = FALSE
  /\ authFailure = FALSE /\ temporaryFailure = FALSE
  /\ rejectedByRelay = FALSE /\ isManuallyClosed = FALSE
  /\ pairCode \in BOOLEAN /\ autoReconnect \in BOOLEAN
  /\ dialledBy = None

Is(readyState) == ws # None /\ sockets[ws].state = readyState

ClearTimers(reconnect) ==
  /\ reconnectTimer' = reconnect
  /\ pingTimer' = FALSE /\ probeTimer' = FALSE

\* Mutant: the socket replaced is left as it is.
TornDown_Keeps == sockets

\* The sockets once the present one is torn down.
TornDown == [s \in Sockets |-> IF s = ws THEN Free ELSE sockets[s]]

\* connect() past its early return; its caller may have changed the settings.
Begin(by, throws) ==
  /\ dialledBy' = by
  /\ authFailure' = FALSE /\ temporaryFailure' = FALSE
  /\ rejectedByRelay' = FALSE /\ isManuallyClosed' = FALSE
  /\ IF throws
     THEN /\ sockets' = TornDown /\ ws' = None
          /\ state' = "error"
          /\ ClearTimers(autoReconnect')
     ELSE /\ \E s \in Sockets :
               /\ TornDown[s].state = "free"
               /\ \A t \in Sockets : TornDown[t].state = "free" => s <= t
               /\ sockets' = [TornDown EXCEPT ![s] = Dialled]
               /\ ws' = s
          /\ state' = "connecting"
          /\ ClearTimers(FALSE)

Connect(by, throws) ==
  /\ ~Is("connecting") /\ ~Is("open")
  /\ UNCHANGED autoReconnect
  /\ Begin(by, throws)

ReconnectWith(by, auto, throws) ==
  /\ autoReconnect' = auto
  /\ Begin(by, throws)

DropStaleSocket(throws) ==
  /\ UNCHANGED config
  /\ Begin("page", throws)

(* --- the person and the page --- *)

\* A button, the first view, or the form that pairs; connect() returns early
\* when a socket is in use, and the code stays in the configuration.
UserConnects(throws) ==
  /\ pairCode' \in {pairCode, TRUE}
  /\ \/ Connect("person", throws)
     \/ /\ Is("connecting") \/ Is("open")
        /\ UNCHANGED <<sockets, ws, state, timers, refusals, autoReconnect, dialledBy>>

\* Another profile, added or chosen.
SwitchProfile(auto, throws) ==
  /\ pairCode' \in BOOLEAN
  /\ ReconnectWith("person", auto, throws)

UserDisconnects ==
  /\ isManuallyClosed' = TRUE
  /\ ClearTimers(FALSE)
  /\ sockets' = TornDown /\ ws' = None
  /\ state' = "disconnected"
  /\ UNCHANGED <<authFailure, temporaryFailure, rejectedByRelay, config, dialledBy>>

\* Pings, and gives the socket up if nothing comes back before the timer.
ProbeLiveness ==
  /\ ~probeTimer
  /\ probeTimer' = TRUE
  /\ sockets' = [sockets EXCEPT ![ws].pinged = "probe", ![ws].heard = FALSE,
                                ![ws].answered = FALSE]
  /\ UNCHANGED <<ws, state, reconnectTimer, pingTimer, refusals, config, dialledBy>>

\* Mutant: a rejection by the relay is not looked at.
Wake_AfterRejection(throws) ==
  /\ ~isManuallyClosed /\ autoReconnect /\ ~authFailure
  /\ \/ ws = None /\ Connect("page", throws) /\ UNCHANGED pairCode
     \/ Is("connecting") /\ DropStaleSocket(throws)
     \/ Is("open") /\ ProbeLiveness

\* The page is back: dial now, give up a dial that hangs, probe a quiet socket.
Wake(throws) ==
  /\ ~isManuallyClosed /\ autoReconnect /\ ~authFailure /\ ~rejectedByRelay
  /\ \/ ws = None /\ Connect("page", throws) /\ UNCHANGED pairCode
     \/ Is("connecting") /\ DropStaleSocket(throws)
     \/ Is("open") /\ ProbeLiveness

(* --- timers --- *)

ReconnectFires(throws) ==
  /\ reconnectTimer
  /\ Connect("page", throws)
  /\ UNCHANGED pairCode

\* Mutant: a ping that met silence is only sent again.
HeartbeatTick_Trusts ==
  /\ pingTimer /\ Is("open")
  /\ sockets' = [sockets EXCEPT ![ws].pinged = "tick", ![ws].heard = FALSE]
  /\ UNCHANGED <<ws, state, timers, refusals, config, dialledBy>>

\* A ping of the last interval that met nothing but silence earns a probe.
HeartbeatTick ==
  /\ pingTimer /\ Is("open")
  /\ IF sockets[ws].pinged = "tick" /\ ~sockets[ws].heard
     THEN ProbeLiveness
     ELSE /\ sockets' = [sockets EXCEPT ![ws].pinged = "tick", ![ws].heard = FALSE]
          /\ UNCHANGED <<ws, state, timers, refusals, config, dialledBy>>

ProbeFires(throws) ==
  /\ probeTimer
  /\ IF ws # None /\ ~sockets[ws].answered
     THEN DropStaleSocket(throws)
     ELSE /\ probeTimer' = FALSE
          /\ UNCHANGED <<sockets, ws, state, reconnectTimer, pingTimer, refusals, config, dialledBy>>

(* --- the socket's events --- *)

Opens ==
  /\ Is("connecting") /\ sockets[ws].peer = "taken"
  /\ sockets' = [sockets EXCEPT ![ws].state = "open", ![ws].peer = "hello"]
  /\ pingTimer' = TRUE
  /\ UNCHANGED <<ws, state, reconnectTimer, probeTimer, refusals, config, dialledBy>>

\* Something is heard, and the peer is then as it says.
Hears(peer) ==
  sockets' = [sockets EXCEPT ![ws].peer = peer, ![ws].heard = TRUE, ![ws].answered = TRUE]

At(peer) == Is("open") /\ sockets[ws].peer = peer

\* Only the state shown follows from the message.
Shows(shown) ==
  /\ state' = shown
  /\ UNCHANGED <<ws, timers, refusals, config, dialledBy>>

Ready == At("hello") /\ Hears("window") /\ Shows("connected")

\* The token of a pairing: the link is rebuilt with it.
Paired(throws) ==
  /\ At("hello") /\ pairCode
  /\ pairCode' = FALSE
  /\ ReconnectWith("page", autoReconnect, throws)

\* The session restarts; that its host reconnects is also kept as a failure code.
Held(code) ==
  /\ At("window")
  /\ Hears("held")
  /\ state' = "reconnecting"
  /\ temporaryFailure' = (temporaryFailure \/ code)
  /\ UNCHANGED <<ws, timers, authFailure, rejectedByRelay, isManuallyClosed, config, dialledBy>>

SessionReady == At("held") /\ Hears("window") /\ Shows("connected")

Pong ==
  /\ At("window") \/ At("held")
  /\ Hears(sockets[ws].peer)
  /\ Shows(state)

\* An error message, before the close of a rejection or of a host given up.
Error(kind, code) ==
  /\ \/ code = 1008 /\ At("hello")
     \/ code = 1012 /\ (At("window") \/ At("held"))
  /\ sockets' = [sockets EXCEPT ![ws].peer = "leaving", ![ws].code = code,
                                ![ws].heard = TRUE, ![ws].answered = TRUE]
  /\ authFailure' = (authFailure \/ kind = "auth")
  /\ temporaryFailure' = (temporaryFailure \/ kind = "temporary")
  /\ state' = CASE kind = "auth" -> "error"
                [] kind = "temporary" -> "reconnecting"
                [] OTHER -> state
  /\ UNCHANGED <<ws, timers, rejectedByRelay, isManuallyClosed, config, dialledBy>>

\* Mutant: a close that follows a temporary failure waits for the person.
HandleClose_Waits(code) ==
  /\ ClearTimers(~authFailure /\ code # 1008 /\ ~isManuallyClosed /\ autoReconnect)
  /\ rejectedByRelay' = (rejectedByRelay \/ (~authFailure /\ code = 1008 /\ ~temporaryFailure))
  /\ state' = CASE authFailure -> "error"
                [] ~authFailure /\ code = 1008 ->
                     IF temporaryFailure THEN "reconnecting" ELSE "error"
                [] OTHER -> IF autoReconnect THEN "reconnecting" ELSE "disconnected"
  /\ UNCHANGED <<authFailure, temporaryFailure, isManuallyClosed, config, dialledBy>>

\* handleClose: what comes next depends on what was said before and on the code.
HandleClose(code) ==
  LET temporary == code = 1008 /\ temporaryFailure
      retry == ~isManuallyClosed /\ autoReconnect
  IN
  /\ ClearTimers(~authFailure /\ (code = 1008 => temporary) /\ retry)
  /\ rejectedByRelay' = (rejectedByRelay \/ (~authFailure /\ code = 1008 /\ ~temporary))
  /\ state' = IF authFailure \/ (code = 1008 /\ ~temporary) THEN "error"
              ELSE IF temporary \/ retry THEN "reconnecting" ELSE "disconnected"
  /\ UNCHANGED <<authFailure, temporaryFailure, isManuallyClosed, config, dialledBy>>

\* The close event; a stale socket's is dropped.
CloseEvent(s, code) ==
  /\ sockets[s].state # "free"
  /\ sockets' = [sockets EXCEPT ![s] = Free]
  /\ IF ws = s
     THEN ws' = None /\ HandleClose(code)
     ELSE UNCHANGED <<ws, state, timers, refusals, config, dialledBy>>

(* --- the relay and the network --- *)

\* The relay's close arrives: a revoked device or a slow window too.
RelayCloses(s, code) ==
  /\ sockets[s].state = "open" /\ sockets[s].peer \notin {"taken", "gone"}
  /\ CASE sockets[s].peer = "leaving" -> code = sockets[s].code
       [] sockets[s].peer = "hello" -> code = 1008
       [] OTHER -> code = 1000
  /\ sockets' = [sockets EXCEPT ![s].state = "closing", ![s].peer = "gone", ![s].code = code]
  /\ UNCHANGED <<ws, state, timers, refusals, config, dialledBy>>

Closed(s) == sockets[s].state = "closing" /\ CloseEvent(s, sockets[s].code)

Drops(s) == sockets[s].state \in {"connecting", "open"} /\ CloseEvent(s, 1006)

PeerGone(s) ==
  /\ sockets[s].state \in {"connecting", "open"} /\ sockets[s].peer # "gone"
  /\ sockets' = [sockets EXCEPT ![s].peer = "gone"]
  /\ UNCHANGED <<ws, state, timers, refusals, config, dialledBy>>

(* --- the specification --- *)

UserStep ==
  \/ \E throws \in BOOLEAN : UserConnects(throws) \/ \E auto \in BOOLEAN : SwitchProfile(auto, throws)
  \/ UserDisconnects

PageStep ==
  \/ \E throws \in BOOLEAN : Wake(throws) \/ ReconnectFires(throws) \/ ProbeFires(throws)
  \/ HeartbeatTick

Message ==
  \/ Opens \/ Ready \/ SessionReady \/ Pong
  \/ \E throws \in BOOLEAN : Paired(throws)
  \/ \E code \in BOOLEAN : Held(code)
  \/ \E kind \in {"auth", "temporary", "other"} : Error(kind, 1008)
  \/ Error("temporary", 1012)

Network ==
  \E s \in Sockets :
    Closed(s) \/ Drops(s) \/ PeerGone(s) \/ \E code \in Codes : RelayCloses(s, code)

Next == UserStep \/ PageStep \/ Message \/ Network

Spec == Init /\ [][Next]_vars

\* A dial the other end does not answer, or a close begun, is ended by the browser.
GivesUp(s) ==
  Closed(s) \/ (sockets[s].state = "connecting" /\ sockets[s].peer = "gone" /\ Drops(s))

\* The page's timers fire, a close announced comes; and now and then a dial is
\* taken, a hello is answered with ready, and a session held comes back.
Fairness ==
  /\ SF_vars(ReconnectFires(FALSE)) /\ WF_vars(HeartbeatTick)
  /\ WF_vars(\E throws \in BOOLEAN : ProbeFires(throws))
  /\ SF_vars(Opens) /\ SF_vars(Ready) /\ SF_vars(SessionReady)
  /\ \A s \in Sockets :
       /\ WF_vars(GivesUp(s))
       /\ WF_vars(sockets[s].peer = "leaving" /\ RelayCloses(s, sockets[s].code))

LiveSpec == Spec /\ Fairness

(* --- properties --- *)

\* The window never holds a second link to the relay, nor has a dial to come
\* beside one: the relay would start a second session for it.
OneWindow ==
  /\ {s \in Sockets : sockets[s].state # "free"} \subseteq {ws}
  /\ reconnectTimer => ws = None
  /\ pingTimer \/ probeTimer => ws # None /\ sockets[ws].state \in {"open", "closing"}

\* What the window shows is so: it shows a link as up only on a socket that was
\* admitted, as coming back only while a dial or a socket is under way (when the
\* settings allow a dial at all), and as gone only when nothing is.
StateTells ==
  /\ state = "connected" => ws # None /\ sockets[ws].peer \in {"window", "gone"}
  /\ state \in {"connecting", "reconnecting"} /\ autoReconnect => ws # None \/ reconnectTimer
  /\ state = "disconnected" => ws = None /\ ~reconnectTimer
  /\ state = "error" /\ ws # None => authFailure

\* Once the person has disconnected or the relay has refused the window, and the
\* socket is gone, only the person dials again: no timer and no wake-up does.  Of a
\* socket that is not gone yet it says nothing: a window refused for its
\* authentication whose link then falls silent is probed, and replaces the link.
NoUninvitedDial ==
  [][ws = None /\ ws' # None /\ (isManuallyClosed \/ authFailure \/ rejectedByRelay)
       => dialledBy' = "person"]_vars

\* A window that is dialling or has a socket, be it one that has gone silent
\* without a word, is connected in the end, or has been refused, disconnected or
\* told not to reconnect.
Heals ==
  ws # None \/ reconnectTimer ~>
    \/ state = "connected" /\ ws # None /\ sockets[ws].peer = "window"
    \/ authFailure \/ rejectedByRelay \/ isManuallyClosed \/ ~autoReconnect
=============================================================================
