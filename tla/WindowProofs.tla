----------------------------- MODULE WindowProofs -----------------------------
(* A window's link to the relay, for any number of sockets, and its dialog of the *)
(* workstation's files, for any number of requests.                               *)
EXTENDS BrowserLink, FileTransfer, TLAPS

(* --- the link --- *)

(* What OneWindow and StateTells rest on: while there is a socket the person has  *)
(* not disconnected and the relay has not refused the window, and a dial to come  *)
(* is one that nobody has ruled out.                                              *)
Wanted ==
  /\ ws # None => ~isManuallyClosed /\ ~rejectedByRelay
  /\ reconnectTimer => ~isManuallyClosed /\ ~authFailure /\ ~rejectedByRelay

LinkInv == TypeOK /\ OneWindow /\ StateTells /\ Wanted

(* What a socket is. *)
SocketType ==
  [state : {"free", "connecting", "open", "closing"}, peer : Peers, code : Codes,
   pinged : {"no", "tick", "probe"}, heard : BOOLEAN, answered : BOOLEAN]

(* A socket that is free, and one that was just dialled. *)
LEMMA SocketValues ==
  /\ Free \in SocketType /\ Free.state = "free"
  /\ Dialled \in SocketType /\ Dialled.state = "connecting" /\ Dialled.peer = "taken"
<1>1. Free \in SocketType /\ Free.state = "free"
  BY DEF Free, SocketType, Peers, Codes
<1>2. Dialled = [Free EXCEPT !.state = "connecting", !.peer = "taken"]
  BY DEF Dialled
<1> QED
  BY <1>1, <1>2 DEF SocketType, Peers

(* A dial, whoever asks for it, leaves one socket at most, and no timer beside it. *)
LEMMA BeginInv ==
  ASSUME LinkInv, NEW by \in {"person", "page"}, NEW throws \in BOOLEAN, Begin(by, throws),
         autoReconnect' \in BOOLEAN, pairCode' \in BOOLEAN
  PROVE  LinkInv'
<1>1. \A s \in Sockets : TornDown[s].state = "free" /\ TornDown[s] \in SocketType
  BY SocketValues DEF LinkInv, OneWindow, TornDown, TypeOK, SocketType
<1>2. /\ ~authFailure' /\ ~temporaryFailure' /\ ~rejectedByRelay' /\ ~isManuallyClosed'
      /\ ~pingTimer' /\ ~probeTimer' /\ dialledBy' = by
      /\ authFailure' = FALSE /\ temporaryFailure' = FALSE /\ rejectedByRelay' = FALSE
      /\ isManuallyClosed' = FALSE /\ pingTimer' = FALSE /\ probeTimer' = FALSE
  BY DEF Begin, ClearTimers
<1>3. CASE throws
  <2>1. sockets' = TornDown /\ ws' = None /\ state' = "error" /\ reconnectTimer' = autoReconnect'
    BY <1>3 DEF Begin, ClearTimers
  <2>2. TypeOK'
    BY <1>1, <1>2, <2>1 DEF TypeOK, SocketType, TornDown
  <2>3. OneWindow' /\ StateTells' /\ Wanted'
    BY <1>1, <1>2, <2>1 DEF OneWindow, StateTells, Wanted
  <2> QED
    BY <2>2, <2>3 DEF LinkInv
<1>4. CASE ~throws
  <2>1. PICK s \in Sockets : sockets' = [TornDown EXCEPT ![s] = Dialled] /\ ws' = s
    BY <1>4 DEF Begin
  <2>2. state' = "connecting" /\ ~reconnectTimer' /\ reconnectTimer' = FALSE
    BY <1>4 DEF Begin, ClearTimers
  <2>3. TornDown \in [Sockets -> SocketType]
    BY <1>1 DEF TornDown
  <2>4. sockets' \in [Sockets -> SocketType]
    BY <2>1, <2>3, SocketValues
  <2>5. TypeOK'
    BY <1>2, <2>1, <2>2, <2>4 DEF TypeOK, SocketType
  <2>6. s # None /\ sockets'[s].state = "connecting" /\ \A t \in Sockets \ {s} : sockets'[t].state = "free"
    BY <1>1, <2>1, <2>3, SocketValues, SocketsAssumption
  <2>7. OneWindow' /\ StateTells' /\ Wanted'
    BY <1>2, <2>1, <2>2, <2>6 DEF OneWindow, StateTells, Wanted
  <2> QED
    BY <2>5, <2>7 DEF LinkInv
<1> QED
  BY <1>3, <1>4

(* The invariant holds at first. *)
LEMMA InitInv == Init => LinkInv
BY SocketValues DEF Init, LinkInv, TypeOK, OneWindow, StateTells, Wanted, SocketType

(* A step that changes what is said on the socket in use, and sets no timer but    *)
(* those beside a socket.                                                          *)
LEMMA SpokenInv ==
  ASSUME LinkInv, NEW r \in SocketType, ws # None, sockets' = [sockets EXCEPT ![ws] = r],
         pingTimer' \/ probeTimer' => r.state \in {"open", "closing"},
         pingTimer' \in BOOLEAN, probeTimer' \in BOOLEAN, authFailure' \in BOOLEAN,
         temporaryFailure' \in BOOLEAN, state' \in {"connected", "reconnecting", "error", state},
         UNCHANGED <<ws, reconnectTimer, rejectedByRelay, isManuallyClosed, config, dialledBy>>,
         state' = "connected" => r.peer \in {"window", "gone"},
         state' = "error" => authFailure'
  PROVE  LinkInv'
<1>1. sockets \in [Sockets -> SocketType] /\ ws \in Sockets /\ ws' = ws
  BY DEF LinkInv, TypeOK, SocketType
<1>2. /\ sockets' \in [Sockets -> SocketType] /\ sockets'[ws] = r
      /\ \A s \in Sockets \ {ws} : sockets'[s] = sockets[s]
  BY <1>1
<1>3. TypeOK'
  BY <1>2 DEF LinkInv, TypeOK, SocketType, config
<1>4. ~reconnectTimer /\ ~reconnectTimer'
  BY DEF LinkInv, OneWindow
<1>5. OneWindow'
  BY <1>1, <1>2, <1>4 DEF LinkInv, OneWindow
<1>6. state # "disconnected"
  BY DEF LinkInv, StateTells
<1>7. StateTells'
  BY <1>1, <1>2, <1>4, <1>6 DEF StateTells
<1>8. Wanted'
  BY <1>1, <1>4 DEF LinkInv, Wanted
<1> QED
  BY <1>3, <1>5, <1>7, <1>8 DEF LinkInv

(* The close of a socket. *)
LEMMA CloseInv ==
  ASSUME LinkInv, NEW s \in Sockets, NEW code \in Codes, CloseEvent(s, code)
  PROVE  LinkInv'
<1>1. ws = s /\ ws # None /\ ws' = None /\ HandleClose(code) /\ sockets' = [sockets EXCEPT ![s] = Free]
  BY SocketsAssumption DEF LinkInv, OneWindow, CloseEvent
<1>2. /\ sockets' \in [Sockets -> SocketType] /\ \A t \in Sockets : sockets'[t].state = "free"
  BY <1>1, SocketValues DEF LinkInv, OneWindow, TypeOK, SocketType
<1>3. /\ ~isManuallyClosed /\ ~rejectedByRelay
      /\ UNCHANGED <<authFailure, temporaryFailure, isManuallyClosed, config, dialledBy>>
      /\ pingTimer' = FALSE /\ probeTimer' = FALSE
  BY <1>1 DEF LinkInv, Wanted, HandleClose, ClearTimers
<1>4. /\ reconnectTimer' = (~authFailure /\ (code = 1008 => temporaryFailure) /\ autoReconnect)
      /\ rejectedByRelay' = (~authFailure /\ code = 1008 /\ ~temporaryFailure)
      /\ state' = IF authFailure \/ (code = 1008 /\ ~temporaryFailure) THEN "error"
                  ELSE IF (code = 1008 /\ temporaryFailure) \/ autoReconnect THEN "reconnecting"
                  ELSE "disconnected"
  BY <1>1, <1>3 DEF HandleClose, ClearTimers
<1>5. TypeOK'
  <2>1. reconnectTimer' \in BOOLEAN /\ rejectedByRelay' \in BOOLEAN
    BY <1>4
  <2>2. state' \in {"error", "reconnecting", "disconnected"}
    BY <1>4
  <2> QED
    BY <1>1, <1>2, <1>3, <2>1, <2>2 DEF LinkInv, TypeOK, SocketType, config
<1>6. OneWindow' /\ StateTells' /\ Wanted'
  BY <1>1, <1>2, <1>3, <1>4 DEF OneWindow, StateTells, Wanted, config
<1> QED
  BY <1>5, <1>6 DEF LinkInv

(* An error message marks the socket for the close it announces. *)
LEMMA ErrorInv ==
  ASSUME LinkInv, NEW kind \in {"auth", "temporary", "other"}, NEW code \in Codes,
         code = 1008 \/ kind = "temporary", Error(kind, code)
  PROVE  LinkInv'
<1>1. /\ ws \in Sockets /\ ws # None /\ sockets[ws] \in SocketType /\ sockets[ws].state = "open"
      /\ authFailure \in BOOLEAN /\ temporaryFailure \in BOOLEAN
      /\ pingTimer \in BOOLEAN /\ probeTimer \in BOOLEAN
  BY DEF Error, At, Is, LinkInv, TypeOK, SocketType
<1>2. /\ authFailure' = (authFailure \/ kind = "auth")
      /\ temporaryFailure' = (temporaryFailure \/ kind = "temporary")
      /\ UNCHANGED <<ws, timers, rejectedByRelay, isManuallyClosed, config, dialledBy>>
  BY DEF Error
<1>3. authFailure' \in BOOLEAN /\ temporaryFailure' \in BOOLEAN
  BY <1>1, <1>2
<1>4. PICK r : r = [sockets[ws] EXCEPT !.peer = "leaving", !.code = code,
                                       !.heard = TRUE, !.answered = TRUE]
  OBVIOUS
<1>5. r \in SocketType /\ r.state = "open"
  BY <1>1, <1>4 DEF SocketType, Peers
<1>6. sockets' = [sockets EXCEPT ![ws] = r]
  <2>1. sockets \in [Sockets -> SocketType]
    BY DEF LinkInv, TypeOK, SocketType
  <2>2. sockets' = [sockets EXCEPT ![ws].peer = "leaving", ![ws].code = code,
                                   ![ws].heard = TRUE, ![ws].answered = TRUE]
    BY DEF Error
  <2>3. \A s \in Sockets : sockets'[s] = IF s = ws THEN r ELSE sockets[s]
    BY <1>1, <1>4, <2>1, <2>2
  <2>4. sockets' \in [Sockets -> SocketType]
    BY <1>1, <1>5, <2>1, <2>2, <2>3
  <2> QED
    BY <1>1, <2>1, <2>3, <2>4
<1>7. state' # "connected"
  <2>1. kind = "temporary" \/ sockets[ws].peer = "hello"
    BY DEF Error, At
  <2>2. sockets[ws].peer = "hello" => state # "connected"
    BY <1>1 DEF LinkInv, StateTells
  <2> QED
    BY <2>1, <2>2 DEF Error
<1>8. state' \in {"error", "reconnecting", state}
  BY DEF Error
<1>9. state' = "error" => authFailure'
  <2>1. state = "error" => authFailure
    BY <1>1 DEF LinkInv, StateTells
  <2> QED
    BY <2>1, <1>2 DEF Error
<1>10. /\ UNCHANGED <<ws, reconnectTimer, rejectedByRelay, isManuallyClosed, config, dialledBy>>
       /\ pingTimer' \in BOOLEAN /\ probeTimer' \in BOOLEAN
  BY <1>1, <1>2 DEF timers
<1>11. /\ pingTimer' \/ probeTimer' => r.state \in {"open", "closing"}
       /\ state' \in {"connected", "reconnecting", "error", state}
       /\ state' = "connected" => r.peer \in {"window", "gone"}
  BY <1>5, <1>7, <1>8
<1>12. r \in SocketType /\ ws # None
  BY <1>1, <1>5
<1> QED
  BY <1>3, <1>6, <1>9, <1>10, <1>11, <1>12, SpokenInv

(* What the relay or the page says on the socket in use. *)
LEMMA MessageInv ==
  ASSUME LinkInv,
         \/ Opens \/ Ready \/ SessionReady \/ Pong \/ HeartbeatTick
         \/ Is("open") /\ ProbeLiveness
         \/ \E code \in BOOLEAN : Held(code)
         \/ \E kind \in {"auth", "temporary", "other"} : Error(kind, 1008)
         \/ Error("temporary", 1012)
  PROVE  LinkInv'
<1>1. ASSUME Is("open") \/ Is("connecting")
      PROVE  /\ sockets[ws] \in SocketType /\ ws # None
             /\ pingTimer \in BOOLEAN /\ probeTimer \in BOOLEAN /\ authFailure \in BOOLEAN
             /\ temporaryFailure \in BOOLEAN
             /\ state = "connected" => sockets[ws].peer \in {"window", "gone"}
             /\ state = "error" => authFailure
  BY <1>1 DEF Is, LinkInv, TypeOK, SocketType, StateTells
<1>2. CASE Opens
  <2>1. PICK r : r = [sockets[ws] EXCEPT !.state = "open", !.peer = "hello"]
    OBVIOUS
  <2>2. Is("connecting") /\ sockets[ws].peer = "taken" /\ sockets' = [sockets EXCEPT ![ws] = r]
    BY <1>2, <2>1 DEF Opens
  <2>3. r \in SocketType /\ r.state = "open"
    BY <1>1, <2>1, <2>2 DEF SocketType, Peers
  <2> QED
    BY <1>1, <1>2, <2>2, <2>3, SpokenInv DEF Opens, refusals
<1>3. CASE Ready \/ SessionReady \/ Pong
  <2>1. PICK peer \in {"window", sockets[ws].peer} :
           /\ Is("open") /\ Hears(peer) /\ state' \in {"connected", state}
           /\ state' = "connected" => peer \in {"window", "gone"}
           /\ UNCHANGED <<ws, timers, refusals, config, dialledBy>>
    <3>1. CASE Ready \/ SessionReady
      BY <3>1 DEF Ready, SessionReady, At, Shows
    <3>2. CASE Pong
      BY <1>1, <3>2 DEF Pong, At, Shows
    <3> QED
      BY <1>3, <3>1, <3>2
  <2>2. PICK r : r = [sockets[ws] EXCEPT !.peer = peer, !.heard = TRUE, !.answered = TRUE]
    OBVIOUS
  <2>3. sockets' = [sockets EXCEPT ![ws] = r]
    BY <2>1, <2>2 DEF Hears
  <2>4. r \in SocketType /\ r.state = "open" /\ r.peer = peer
    BY <1>1, <2>1, <2>2 DEF SocketType, Peers, Is
  <2> QED
    BY <1>1, <2>1, <2>3, <2>4, SpokenInv DEF timers, refusals
<1>4. ASSUME NEW code \in BOOLEAN, Held(code)
      PROVE  LinkInv'
  <2>1. PICK r : r = [sockets[ws] EXCEPT !.peer = "held", !.heard = TRUE, !.answered = TRUE]
    OBVIOUS
  <2>2. Is("open") /\ sockets' = [sockets EXCEPT ![ws] = r]
    BY <1>4, <2>1 DEF Held, At, Hears
  <2>3. r \in SocketType /\ r.state = "open"
    BY <1>1, <2>1, <2>2 DEF SocketType, Peers, Is
  <2>4. temporaryFailure' \in BOOLEAN
    BY <1>4 DEF Held
  <2> QED
    BY <1>1, <1>4, <2>2, <2>3, <2>4, SpokenInv DEF Held, timers
<1>5. ASSUME NEW kind \in {"auth", "temporary", "other"}, Error(kind, 1008)
      PROVE  LinkInv'
  BY <1>5, ErrorInv DEF Codes
<1>8. CASE Error("temporary", 1012)
  BY <1>8, ErrorInv DEF Codes
<1>6. CASE Is("open") /\ ProbeLiveness
  <2>1. PICK r : r = [sockets[ws] EXCEPT !.pinged = "probe", !.heard = FALSE, !.answered = FALSE]
    OBVIOUS
  <2>2. sockets' = [sockets EXCEPT ![ws] = r]
    BY <1>6, <2>1 DEF ProbeLiveness
  <2>3. r \in SocketType /\ r.state = "open" /\ r.peer = sockets[ws].peer
    BY <1>1, <1>6, <2>1 DEF SocketType, Is
  <2> QED
    BY <1>1, <1>6, <2>2, <2>3, SpokenInv DEF ProbeLiveness, refusals
<1>7. CASE HeartbeatTick /\ ~(Is("open") /\ ProbeLiveness)
  <2>1. PICK r : r = [sockets[ws] EXCEPT !.pinged = "tick", !.heard = FALSE]
    OBVIOUS
  <2>2. /\ Is("open") /\ sockets' = [sockets EXCEPT ![ws] = r]
        /\ UNCHANGED <<ws, state, timers, refusals, config, dialledBy>>
    BY <1>7, <2>1 DEF HeartbeatTick
  <2>3. r \in SocketType /\ r.state = "open" /\ r.peer = sockets[ws].peer
    BY <1>1, <2>1, <2>2 DEF SocketType, Is
  <2> QED
    BY <1>1, <2>2, <2>3, SpokenInv DEF timers, refusals
<1> QED
  BY <1>2, <1>3, <1>4, <1>5, <1>6, <1>7, <1>8

(* The network: a close arrives, an abnormal close, or a peer that says nothing    *)
(* more.                                                                           *)
LEMMA NetworkInv ==
  ASSUME LinkInv, Network
  PROVE  LinkInv'
<1>1. PICK s \in Sockets :
        Closed(s) \/ Drops(s) \/ PeerGone(s) \/ \E code \in Codes : RelayCloses(s, code)
  BY DEF Network
<1>2. sockets \in [Sockets -> SocketType] /\ sockets[s] \in SocketType
  BY DEF LinkInv, TypeOK, SocketType
<1>3. CASE Closed(s)
  BY <1>2, <1>3, CloseInv DEF Closed, SocketType
<1>4. CASE Drops(s)
  BY <1>4, CloseInv DEF Drops, Codes
<1>5. ASSUME sockets[s].state # "free"
      PROVE  /\ ws = s /\ ws # None /\ pingTimer \in BOOLEAN /\ probeTimer \in BOOLEAN
             /\ authFailure \in BOOLEAN /\ temporaryFailure \in BOOLEAN
             /\ pingTimer \/ probeTimer => sockets[s].state \in {"open", "closing"}
             /\ state = "connected" => sockets[s].peer \in {"window", "gone"}
             /\ state = "error" => authFailure
  BY <1>5, SocketsAssumption DEF LinkInv, TypeOK, OneWindow, StateTells
<1>6. CASE PeerGone(s)
  <2>1. PICK r : r = [sockets[s] EXCEPT !.peer = "gone"]
    OBVIOUS
  <2>2. sockets' = [sockets EXCEPT ![s] = r] /\ sockets[s].state \in {"connecting", "open"}
    BY <1>6, <2>1 DEF PeerGone
  <2>3. r \in SocketType /\ r.state = sockets[s].state /\ r.peer = "gone"
    BY <1>2, <2>1 DEF SocketType, Peers
  <2>4. UNCHANGED <<ws, state, timers, refusals, config, dialledBy>>
    BY <1>6 DEF PeerGone
  <2> QED
    BY <1>5, <2>2, <2>3, <2>4, SpokenInv DEF timers, refusals
<1>7. ASSUME NEW code \in Codes, RelayCloses(s, code)
      PROVE  LinkInv'
  <2>1. PICK r : r = [sockets[s] EXCEPT !.state = "closing", !.peer = "gone", !.code = code]
    OBVIOUS
  <2>2. sockets' = [sockets EXCEPT ![s] = r] /\ sockets[s].state = "open"
    <3>1. sockets[s].state = "open"
      BY <1>7 DEF RelayCloses
    <3>2. sockets' = [sockets EXCEPT ![s].state = "closing", ![s].peer = "gone", ![s].code = code]
      BY <1>7 DEF RelayCloses
    <3>3. \A t \in Sockets : sockets'[t] = IF t = s THEN r ELSE sockets[t]
      BY <1>2, <2>1, <3>2
    <3> QED
      BY <1>2, <3>1, <3>2, <3>3
  <2>3. r \in SocketType /\ r.state = "closing" /\ r.peer = "gone"
    BY <1>2, <2>1 DEF SocketType, Peers
  <2>4. UNCHANGED <<ws, state, timers, refusals, config, dialledBy>>
    BY <1>7 DEF RelayCloses
  <2> QED
    BY <1>5, <2>2, <2>3, <2>4, SpokenInv DEF timers, refusals
<1> QED
  BY <1>1, <1>3, <1>4, <1>6, <1>7

(* Every step keeps the invariant. *)
LEMMA NextInv ==
  ASSUME LinkInv, [Next]_vars
  PROVE  LinkInv'
<1>1. pairCode \in BOOLEAN /\ autoReconnect \in BOOLEAN
  BY DEF LinkInv, TypeOK
<1>2. ASSUME NEW throws \in BOOLEAN, NEW by \in {"person", "page"},
             \/ Connect(by, throws) /\ pairCode' \in BOOLEAN
             \/ DropStaleSocket(throws) /\ by = "page"
             \/ \E auto \in BOOLEAN : ReconnectWith(by, auto, throws) /\ pairCode' \in BOOLEAN
      PROVE  LinkInv'
  <2>1. Begin(by, throws) /\ autoReconnect' \in BOOLEAN /\ pairCode' \in BOOLEAN
    BY <1>1, <1>2 DEF Connect, DropStaleSocket, ReconnectWith, config
  <2> QED
    BY <2>1, BeginInv
<1>3. ASSUME NEW throws \in BOOLEAN, UserConnects(throws)
      PROVE  LinkInv'
  <2>1. pairCode' \in BOOLEAN
    BY <1>1, <1>3 DEF UserConnects
  <2>2. CASE Connect("person", throws)
    BY <1>2, <2>1, <2>2
  <2>3. CASE UNCHANGED <<sockets, ws, state, timers, refusals, autoReconnect, dialledBy>>
    BY <2>1, <2>3 DEF LinkInv, TypeOK, OneWindow, StateTells, Wanted, timers, refusals
  <2> QED
    BY <1>3, <2>2, <2>3 DEF UserConnects
<1>4. ASSUME NEW throws \in BOOLEAN, NEW auto \in BOOLEAN, SwitchProfile(auto, throws)
      PROVE  LinkInv'
  BY <1>2, <1>4 DEF SwitchProfile
<1>5. CASE UserDisconnects
  <2>1. \A s \in Sockets : TornDown[s].state = "free" /\ TornDown[s] \in SocketType
    BY SocketValues DEF LinkInv, OneWindow, TornDown, TypeOK, SocketType
  <2>2. /\ sockets' = TornDown /\ ws' = None /\ state' = "disconnected" /\ isManuallyClosed' = TRUE
        /\ reconnectTimer' = FALSE /\ pingTimer' = FALSE /\ probeTimer' = FALSE
        /\ UNCHANGED <<authFailure, temporaryFailure, rejectedByRelay, pairCode, autoReconnect, dialledBy>>
    BY <1>5 DEF UserDisconnects, ClearTimers, config
  <2>3. TypeOK'
    BY <2>1, <2>2 DEF LinkInv, TypeOK, SocketType, TornDown
  <2>4. OneWindow' /\ StateTells' /\ Wanted'
    BY <2>1, <2>2 DEF OneWindow, StateTells, Wanted
  <2> QED
    BY <2>3, <2>4 DEF LinkInv
<1>6. ASSUME NEW throws \in BOOLEAN, Wake(throws)
      PROVE  LinkInv'
  BY <1>1, <1>2, <1>6, MessageInv DEF Wake
<1>7. ASSUME NEW throws \in BOOLEAN, ReconnectFires(throws)
      PROVE  LinkInv'
  BY <1>1, <1>2, <1>7 DEF ReconnectFires
<1>8. ASSUME NEW throws \in BOOLEAN, ProbeFires(throws)
      PROVE  LinkInv'
  <2>1. CASE DropStaleSocket(throws)
    BY <1>2, <2>1
  <2>2. CASE /\ probeTimer' = FALSE
             /\ UNCHANGED <<sockets, ws, state, reconnectTimer, pingTimer, refusals, config, dialledBy>>
    BY <2>2 DEF LinkInv, TypeOK, OneWindow, StateTells, Wanted, refusals, config
  <2> QED
    BY <1>8, <2>1, <2>2 DEF ProbeFires
<1>9. ASSUME NEW throws \in BOOLEAN, Paired(throws)
      PROVE  LinkInv'
  BY <1>1, <1>2, <1>9 DEF Paired
<1>10. CASE Network
  BY <1>10, NetworkInv
<1>11. CASE UNCHANGED vars
  BY <1>11 DEF LinkInv, TypeOK, OneWindow, StateTells, Wanted, vars, timers, refusals, config
<1>12. CASE PageStep
  BY <1>6, <1>7, <1>8, <1>12, MessageInv DEF PageStep
<1>13. CASE Message
  BY <1>9, <1>13, MessageInv DEF Message
<1>14. CASE UserStep
  BY <1>3, <1>4, <1>5, <1>14 DEF UserStep
<1> QED
  BY <1>10, <1>11, <1>12, <1>13, <1>14 DEF Next

(* In every behaviour the window's state is of its type, and the invariant holds. *)
THEOREM LinkHolds == Spec => []LinkInv
<1>1. Init => LinkInv
  BY InitInv
<1>2. LinkInv /\ [Next]_vars => LinkInv'
  BY NextInv
<1> QED
  BY <1>1, <1>2, PTL DEF Spec

(* However the window reconnects, probes and is woken, it never holds a second     *)
(* link to the relay, nor has a dial to come beside one.                           *)
THEOREM OneLinkPerWindow == Spec => []OneWindow
<1>1. LinkInv => OneWindow
  BY DEF LinkInv
<1> QED
  BY <1>1, LinkHolds, PTL

(* What the window shows is so, whatever it heard and in whatever order. *)
THEOREM ShowsTheTruth == Spec => []StateTells
<1>1. LinkInv => StateTells
  BY DEF LinkInv
<1> QED
  BY <1>1, LinkHolds, PTL

(* Once the person has disconnected, or the relay has refused the window, and the  *)
(* socket is gone, no timer and no wake-up dials: only the person does.  While the *)
(* socket is still there the heartbeat may find it silent and its probe replace it, *)
(* also after an authentication error; the theorem does not rule that out.          *)
THEOREM OnlyThePersonDials == Spec => NoUninvitedDial
<1> DEFINE Ruled == isManuallyClosed \/ authFailure \/ rejectedByRelay
           Invited == ws = None /\ ws' # None /\ Ruled => dialledBy' = "person"
<1>1. ASSUME LinkInv, Next, ws = None, ws' # None, Ruled
      PROVE  dialledBy' = "person"
  <2>1. ~Is("connecting") /\ ~Is("open")
    BY <1>1 DEF Is
  <2>2. ASSUME NEW throws \in BOOLEAN, UserConnects(throws)
        PROVE  dialledBy' = "person"
    BY <2>1, <2>2 DEF UserConnects, Connect, Begin
  <2>3. ASSUME NEW throws \in BOOLEAN, NEW auto \in BOOLEAN, SwitchProfile(auto, throws)
        PROVE  dialledBy' = "person"
    BY <2>3 DEF SwitchProfile, ReconnectWith, Begin
  <2>4. ~UserDisconnects
    BY <1>1 DEF UserDisconnects
  <2>5. ASSUME NEW throws \in BOOLEAN
        PROVE  ~Wake(throws) /\ ~ReconnectFires(throws) /\ ~ProbeFires(throws) /\ ~Paired(throws)
    BY <1>1, <2>1 DEF Wake, ReconnectFires, ProbeFires, Paired, At, LinkInv, Wanted
  <2>6. ~HeartbeatTick
    BY <2>1 DEF HeartbeatTick
  <2>7. ~Message
    BY <2>1, <2>5 DEF Message, Opens, Ready, SessionReady, Pong, Held, Error, At
  <2>8. ~Network
    <3>1. \A s \in Sockets : sockets[s].state = "free"
      BY <1>1, SocketsAssumption DEF LinkInv, OneWindow
    <3>2. ASSUME NEW s \in Sockets
          PROVE  ~Closed(s) /\ ~Drops(s) /\ ~PeerGone(s)
      BY <3>1 DEF Closed, Drops, PeerGone
    <3>3. ASSUME NEW s \in Sockets, NEW code \in Codes
          PROVE  ~RelayCloses(s, code)
      BY <3>1 DEF RelayCloses
    <3> QED
      BY <3>2, <3>3 DEF Network
  <2> QED
    BY <1>1, <2>2, <2>3, <2>4, <2>5, <2>6, <2>7, <2>8 DEF Next, UserStep, PageStep
<1>2. LinkInv /\ [Next]_vars => [Invited]_vars
  BY <1>1
<1> QED
  BY <1>2, LinkHolds, PTL DEF Spec, NoUninvitedDial

-----------------------------------------------------------------------------
(* --- the files dialog --- *)

Loading == [id : Ids, total : Nat, next : Nat, timer : {"off", "ready", "slice"}]

Errands == {"list", "listed", "mutation"}
Picks == {"preview", "mutation", "download"}
Carries(q, T) == \E i \in 1 .. Len(q) : q[i].type \in T
Once(q, T) == \A i, j \in 1 .. Len(q) : q[i].type \in T /\ q[j].type \in T => i = j

FilesTyped ==
  /\ toHost \in Seq(Request) /\ toWindow \in Seq(Answer)
  /\ listing \in Dirs \cup {Nothing}
  /\ reading \subseteq Ids /\ lists \subseteq Ids /\ transfers \subseteq Ids
  /\ fsDownloads \in Seq(Ids)
  /\ download # Nothing => download \in Loading
  /\ alone \in BOOLEAN

OneErrand ==
  /\ Once(toHost, Errands) /\ Once(toWindow, Errands)
  /\ \A x, y \in reading : x = y
  /\ ~(Carries(toHost, Errands) /\ Carries(toWindow, Errands))
  /\ reading # {} => ~Carries(toHost, Errands) /\ ~Carries(toWindow, Errands)
Listing == Carries(toHost, {"list"}) \/ reading # {} \/ Carries(toWindow, {"listed"})
Changing == Carries(toHost, {"mutation"}) \/ Carries(toWindow, {"mutation"})
RowsStand ==
  view \in Dirs => /\ ~Listing
                   /\ mutation = Nothing => ~Changing
                   /\ listing \in {view, Nothing}
Told(q, dir) == \A i \in 1 .. Len(q) : q[i].type = "listed" => q[i].dir = dir

\* While the listing last asked for is the only one, at most one errand is on its
\* way, and the rows shown are those of the workstation's directory.
Orderly == OneErrand /\ RowsStand /\ Told(toWindow, listing)

\* A pick from rows listed alone: no list goes before it, none is being read, and
\* what it names is what the workstation lists.
Sure(m) == m.type \in Picks /\ m.sure
HasSure(q) == \E i \in 1 .. Len(q) : Sure(q[i])
PicksBefore(q) == \A i, j \in 1 .. Len(q) : q[i].type = "list" /\ Sure(q[j]) => j < i
Meant(q, dir) == \A i \in 1 .. Len(q) : Sure(q[i]) => dir \in {q[i].shown, Nothing}
PicksFirst == PicksBefore(toHost) /\ (reading # {} => ~HasSure(toHost))

FilesInv == FilesTyped /\ PicksFirst /\ Meant(toHost, listing) /\ (alone => Orderly)
-----------------------------------------------------------------------------
LEMMA AppendCarries ==
  ASSUME NEW S, NEW q \in Seq(S), NEW m \in S, NEW T
  PROVE  /\ Append(q, m) \in Seq(S)
         /\ Carries(Append(q, m), T) <=> Carries(q, T) \/ m.type \in T
         /\ Once(q, T) /\ (m.type \in T => ~Carries(q, T)) => Once(Append(q, m), T)
<1>1. /\ Append(q, m) \in Seq(S) /\ Len(Append(q, m)) = Len(q) + 1 /\ Len(q) \in Nat
      /\ \A i \in 1 .. Len(q) : Append(q, m)[i] = q[i]
      /\ Append(q, m)[Len(q) + 1] = m
  OBVIOUS
<1> HIDE DEF Carries, Once
<1> DEFINE p == Append(q, m)
<1>2. Len(p) = Len(q) + 1 /\ Len(q) \in Nat /\ (\A i \in 1 .. Len(q) : p[i] = q[i]) /\ p[Len(q) + 1] = m
  BY <1>1
<1> HIDE DEF p
<1>3. Carries(p, T) <=> Carries(q, T) \/ m.type \in T
  BY <1>2 DEF Carries
<1>4. Once(q, T) /\ (m.type \in T => ~Carries(q, T)) => Once(p, T)
  BY <1>2 DEF Carries, Once
<1> QED BY <1>1, <1>3, <1>4 DEF p

LEMMA TailCarries ==
  ASSUME NEW S, NEW q \in Seq(S), q # <<>>, NEW T
  PROVE  /\ Tail(q) \in Seq(S) /\ Head(q) \in S
         /\ Carries(q, T) <=> Carries(Tail(q), T) \/ Head(q).type \in T
         /\ Once(q, T) => /\ Once(Tail(q), T)
                          /\ Head(q).type \in T => ~Carries(Tail(q), T)
<1> DEFINE p == Tail(q)
<1>1. /\ p \in Seq(S) /\ Head(q) \in S /\ Len(q) \in Nat \ {0} /\ Len(p) = Len(q) - 1
      /\ \A i \in 1 .. Len(p) : p[i] = q[i + 1]
      /\ Head(q) = q[1]
  OBVIOUS
<1> HIDE DEF p
<1>2. Carries(q, T) <=> Carries(p, T) \/ Head(q).type \in T
  <2>1. ASSUME NEW i \in 1 .. Len(q), q[i].type \in T, i # 1 PROVE Carries(p, T)
    <3>1. i - 1 \in 1 .. Len(p) /\ p[i - 1] = q[i] BY <1>1, <2>1
    <3> QED BY <3>1, <2>1 DEF Carries
  <2>2. Carries(p, T) => Carries(q, T) BY <1>1 DEF Carries
  <2>3. Head(q).type \in T => Carries(q, T) BY <1>1 DEF Carries
  <2> QED BY <1>1, <2>1, <2>2, <2>3 DEF Carries
<1>3. Once(q, T) => Once(p, T) /\ (Head(q).type \in T => ~Carries(p, T))
  <2> SUFFICES ASSUME Once(q, T) PROVE Once(p, T) /\ (Head(q).type \in T => ~Carries(p, T))
    OBVIOUS
  <2>0. \A i \in 1 .. Len(p) : i + 1 \in 1 .. Len(q) BY <1>1
  <2>1. \A i, j \in 1 .. Len(p) : p[i].type \in T /\ p[j].type \in T => i + 1 = j + 1
    <3> SUFFICES ASSUME NEW i \in 1 .. Len(p), NEW j \in 1 .. Len(p), p[i].type \in T, p[j].type \in T
                 PROVE  i + 1 = j + 1
      OBVIOUS
    <3>1. q[i + 1].type \in T /\ q[j + 1].type \in T BY <1>1
    <3> QED BY <2>0, <3>1 DEF Once
  <2>2. \A i \in 1 .. Len(p) : p[i].type \in T /\ Head(q).type \in T => i + 1 = 1
    BY <1>1 DEF Once
  <2> QED BY <1>1, <2>1, <2>2 DEF Once, Carries
<1> QED BY <1>1, <1>2, <1>3 DEF p

LEMMA AppendOrders ==
  ASSUME NEW S, NEW q \in Seq(S), NEW m \in S, NEW dir
  PROVE  /\ HasSure(Append(q, m)) <=> HasSure(q) \/ Sure(m)
         /\ PicksBefore(q) /\ (Sure(m) => ~Carries(q, {"list"})) => PicksBefore(Append(q, m))
         /\ Meant(q, dir) /\ (Sure(m) => dir \in {m.shown, Nothing}) => Meant(Append(q, m), dir)
         /\ Told(q, dir) /\ (m.type = "listed" => m.dir = dir) => Told(Append(q, m), dir)
<1> DEFINE p == Append(q, m)
<1>1. Len(p) = Len(q) + 1 /\ Len(q) \in Nat /\ (\A i \in 1 .. Len(q) : p[i] = q[i]) /\ p[Len(q) + 1] = m
  OBVIOUS
<1> HIDE DEF p
<1>0. HasSure(p) <=> HasSure(q) \/ Sure(m)
  BY <1>1 DEF HasSure
<1>2. PicksBefore(q) /\ (Sure(m) => ~Carries(q, {"list"})) => PicksBefore(p)
  <2>1. Sure(m) => m.type # "list" BY DEF Sure, Picks
  <2> QED BY <1>1, <2>1 DEF PicksBefore, Carries
<1>3. Meant(q, dir) /\ (Sure(m) => dir \in {m.shown, Nothing}) => Meant(p, dir)
  BY <1>1 DEF Meant
<1>4. Told(q, dir) /\ (m.type = "listed" => m.dir = dir) => Told(p, dir)
  BY <1>1 DEF Told
<1> QED BY <1>0, <1>2, <1>3, <1>4 DEF p

LEMMA TailOrders ==
  ASSUME NEW S, NEW q \in Seq(S), q # <<>>, NEW dir
  PROVE  /\ HasSure(q) <=> HasSure(Tail(q)) \/ Sure(Head(q))
         /\ PicksBefore(q) => PicksBefore(Tail(q)) /\ (Head(q).type = "list" => ~HasSure(Tail(q)))
         /\ Meant(q, dir) => Meant(Tail(q), dir)
         /\ Told(q, dir) => Told(Tail(q), dir) /\ (Head(q).type = "listed" => Head(q).dir = dir)
<1> DEFINE p == Tail(q)
<1>1. /\ Len(q) \in Nat \ {0} /\ Len(p) = Len(q) - 1
      /\ \A i \in 1 .. Len(p) : p[i] = q[i + 1] /\ i + 1 \in 1 .. Len(q)
      /\ Head(q) = q[1]
  OBVIOUS
<1> HIDE DEF p
<1>0. HasSure(q) <=> HasSure(p) \/ Sure(Head(q))
  <2>1. ASSUME NEW i \in 1 .. Len(q), Sure(q[i]), i # 1 PROVE HasSure(p)
    <3>1. i - 1 \in 1 .. Len(p) /\ p[i - 1] = q[i] BY <1>1, <2>1
    <3> QED BY <3>1, <2>1 DEF HasSure
  <2>2. HasSure(p) => HasSure(q) BY <1>1 DEF HasSure
  <2>3. Sure(Head(q)) => HasSure(q) BY <1>1 DEF HasSure
  <2> QED BY <1>1, <2>1, <2>2, <2>3 DEF HasSure
<1>2. PicksBefore(q) => PicksBefore(p)
  <2> SUFFICES ASSUME PicksBefore(q) PROVE PicksBefore(p) OBVIOUS
  <2>1. \A i, j \in 1 .. Len(p) : p[i].type = "list" /\ Sure(p[j]) => j + 1 < i + 1
    BY <1>1 DEF PicksBefore
  <2> QED BY <1>1, <2>1 DEF PicksBefore
<1>3. PicksBefore(q) /\ Head(q).type = "list" => ~HasSure(p)
  <2> SUFFICES ASSUME PicksBefore(q), Head(q).type = "list" PROVE ~HasSure(p) OBVIOUS
  <2>1. \A j \in 1 .. Len(p) : Sure(p[j]) => j + 1 < 1
    BY <1>1 DEF PicksBefore
  <2> QED BY <1>1, <2>1 DEF HasSure
<1>4. Meant(q, dir) => Meant(p, dir) BY <1>1 DEF Meant
<1>5. Told(q, dir) => Told(p, dir) /\ (Head(q).type = "listed" => Head(q).dir = dir) BY <1>1 DEF Told
<1> QED BY <1>0, <1>2, <1>3, <1>4, <1>5 DEF p

(* A queue without a kind of message makes no claim about it. *)
LEMMA EmptyClaims ==
  ASSUME NEW q, NEW dir
  PROVE  /\ ~HasSure(q) => Meant(q, dir) /\ PicksBefore(q)
         /\ ~Carries(q, {"listed"}) => Told(q, dir)
         /\ ~Carries(q, Errands) => Once(q, Errands)
         /\ Carries(q, {"list"}) \/ Carries(q, {"listed"}) \/ Carries(q, {"mutation"}) <=> Carries(q, Errands)
         /\ q = <<>> => ~Carries(q, Errands) /\ ~HasSure(q)
  BY DEF Carries, HasSure, Meant, PicksBefore, Told, Errands, Once

LEMMA InitFiles == FilesInit => FilesInv
<1> SUFFICES ASSUME FilesInit PROVE FilesInv OBVIOUS
<1> USE DEF FilesInit
<1>1. FilesTyped BY DEF FilesTyped
<1>2. OneErrand BY EmptyClaims DEF OneErrand
<1>3. RowsStand BY FilesAssumption DEF RowsStand
<1>4. PicksFirst /\ Meant(toHost, listing) /\ Told(toWindow, listing) BY EmptyClaims DEF PicksFirst, Carries
<1> QED BY <1>1, <1>2, <1>3, <1>4 DEF FilesInv, Orderly

(* What a request sent adds to the queue.  *)
LEMMA SendsFacts ==
  ASSUME FilesTyped, NEW m \in Request, Sends(m)
  PROVE  /\ toHost' \in Seq(Request)
         /\ Carries(toHost', Errands) <=> Carries(toHost, Errands) \/ m.type \in Errands
         /\ HasSure(toHost') <=> HasSure(toHost) \/ Sure(m)
         /\ Carries(toHost', {"list"}) <=> Carries(toHost, {"list"}) \/ m.type = "list"
         /\ Carries(toHost', {"listed"}) <=> Carries(toHost, {"listed"}) \/ m.type = "listed"
         /\ Carries(toHost', {"mutation"}) <=> Carries(toHost, {"mutation"}) \/ m.type = "mutation"
         /\ Once(toHost, Errands) /\ (m.type \in Errands => ~Carries(toHost, Errands)) => Once(toHost', Errands)
         /\ PicksBefore(toHost) /\ (Sure(m) => ~Carries(toHost, {"list"})) => PicksBefore(toHost')
         /\ Meant(toHost, listing) /\ (Sure(m) => listing \in {m.shown, Nothing}) => Meant(toHost', listing)
<1>1. toHost \in Seq(Request) BY DEF FilesTyped
<1>2. \A T : /\ Append(toHost, m) \in Seq(Request)
             /\ Carries(Append(toHost, m), T) <=> Carries(toHost, T) \/ m.type \in T
             /\ Once(toHost, T) /\ (m.type \in T => ~Carries(toHost, T)) => Once(Append(toHost, m), T)
  BY <1>1, AppendCarries
<1>3. \A dir : /\ HasSure(Append(toHost, m)) <=> HasSure(toHost) \/ Sure(m)
               /\ PicksBefore(toHost) /\ (Sure(m) => ~Carries(toHost, {"list"})) => PicksBefore(Append(toHost, m))
               /\ Meant(toHost, dir) /\ (Sure(m) => dir \in {m.shown, Nothing}) => Meant(Append(toHost, m), dir)
               /\ Told(toHost, dir) /\ (m.type = "listed" => m.dir = dir) => Told(Append(toHost, m), dir)
  BY <1>1, AppendOrders
<1>4. toHost' = Append(toHost, m) BY DEF Sends
<1> HIDE DEF Picks, Errands
<1> QED BY <1>2, <1>3, <1>4

(* What an answer adds to the queue.  *)
LEMMA AnswersFacts ==
  ASSUME FilesTyped, NEW m \in Answer, Answers(m)
  PROVE  /\ toWindow' \in Seq(Answer)
         /\ Carries(toWindow', Errands) <=> Carries(toWindow, Errands) \/ m.type \in Errands
         /\ Carries(toWindow', {"list"}) <=> Carries(toWindow, {"list"}) \/ m.type = "list"
         /\ Carries(toWindow', {"listed"}) <=> Carries(toWindow, {"listed"}) \/ m.type = "listed"
         /\ Carries(toWindow', {"mutation"}) <=> Carries(toWindow, {"mutation"}) \/ m.type = "mutation"
         /\ Once(toWindow, Errands) /\ (m.type \in Errands => ~Carries(toWindow, Errands)) => Once(toWindow', Errands)
         /\ Told(toWindow, listing') /\ (m.type = "listed" => m.dir = listing') => Told(toWindow', listing')
<1>1. toWindow \in Seq(Answer) BY DEF FilesTyped
<1>2. \A T : /\ Append(toWindow, m) \in Seq(Answer)
             /\ Carries(Append(toWindow, m), T) <=> Carries(toWindow, T) \/ m.type \in T
             /\ Once(toWindow, T) /\ (m.type \in T => ~Carries(toWindow, T)) => Once(Append(toWindow, m), T)
  BY <1>1, AppendCarries
<1>3. \A dir : Told(toWindow, dir) /\ (m.type = "listed" => m.dir = dir) => Told(Append(toWindow, m), dir)
  BY <1>1, AppendOrders
<1>4. toWindow' = Append(toWindow, m) BY DEF Answers
<1> HIDE DEF Picks, Errands
<1> QED BY <1>2, <1>3, <1>4

(* What a request handled leaves of the queue.  *)
LEMMA HostTakes ==
  ASSUME FilesTyped, toHost # <<>>, toHost' = Tail(toHost), NEW m, m = Head(toHost)
  PROVE  /\ toHost' \in Seq(Request) /\ m \in Request
         /\ Carries(toHost, Errands) <=> Carries(toHost', Errands) \/ m.type \in Errands
         /\ HasSure(toHost) <=> HasSure(toHost') \/ Sure(m)
         /\ Carries(toHost, {"list"}) <=> Carries(toHost', {"list"}) \/ m.type = "list"
         /\ Carries(toHost, {"listed"}) <=> Carries(toHost', {"listed"}) \/ m.type = "listed"
         /\ Carries(toHost, {"mutation"}) <=> Carries(toHost', {"mutation"}) \/ m.type = "mutation"
         /\ Once(toHost, Errands) => Once(toHost', Errands) /\ (m.type \in Errands => ~Carries(toHost', Errands))
         /\ PicksBefore(toHost) => PicksBefore(toHost') /\ (m.type = "list" => ~HasSure(toHost'))
         /\ Meant(toHost, listing) => Meant(toHost', listing)
<1>1. toHost \in Seq(Request) BY DEF FilesTyped
<1>2. \A T : /\ Tail(toHost) \in Seq(Request) /\ m \in Request
             /\ Carries(toHost, T) <=> Carries(Tail(toHost), T) \/ m.type \in T
             /\ Once(toHost, T) => Once(Tail(toHost), T) /\ (m.type \in T => ~Carries(Tail(toHost), T))
  BY <1>1, TailCarries
<1>3. \A dir : /\ HasSure(toHost) <=> HasSure(Tail(toHost)) \/ Sure(m)
               /\ PicksBefore(toHost) => PicksBefore(Tail(toHost)) /\ (m.type = "list" => ~HasSure(Tail(toHost)))
               /\ Meant(toHost, dir) => Meant(Tail(toHost), dir)
               /\ Told(toHost, dir) => Told(Tail(toHost), dir) /\ (m.type = "listed" => m.dir = dir)
  BY <1>1, TailOrders
<1> HIDE DEF Picks, Errands
<1> QED BY <1>2, <1>3

(* What an answer heard leaves of the queue.  *)
LEMMA WindowTakes ==
  ASSUME FilesTyped, toWindow # <<>>, toWindow' = Tail(toWindow), NEW m, m = Head(toWindow)
  PROVE  /\ toWindow' \in Seq(Answer) /\ m \in Answer
         /\ Carries(toWindow, Errands) <=> Carries(toWindow', Errands) \/ m.type \in Errands
         /\ Carries(toWindow, {"list"}) <=> Carries(toWindow', {"list"}) \/ m.type = "list"
         /\ Carries(toWindow, {"listed"}) <=> Carries(toWindow', {"listed"}) \/ m.type = "listed"
         /\ Carries(toWindow, {"mutation"}) <=> Carries(toWindow', {"mutation"}) \/ m.type = "mutation"
         /\ Once(toWindow, Errands) => Once(toWindow', Errands) /\ (m.type \in Errands => ~Carries(toWindow', Errands))
         /\ Told(toWindow, listing) => Told(toWindow', listing) /\ (m.type = "listed" => m.dir = listing)
<1>1. toWindow \in Seq(Answer) BY DEF FilesTyped
<1>2. \A T : /\ Tail(toWindow) \in Seq(Answer) /\ m \in Answer
             /\ Carries(toWindow, T) <=> Carries(Tail(toWindow), T) \/ m.type \in T
             /\ Once(toWindow, T) => Once(Tail(toWindow), T) /\ (m.type \in T => ~Carries(Tail(toWindow), T))
  BY <1>1, TailCarries
<1>3. \A dir : Told(toWindow, dir) => Told(Tail(toWindow), dir) /\ (m.type = "listed" => m.dir = dir)
  BY <1>1, TailOrders
<1> HIDE DEF Picks, Errands
<1> QED BY <1>2, <1>3

LEMMA Kinds ==
  ASSUME FilesTyped
  PROVE  /\ ~Carries(toHost, {"listed"}) /\ ~Carries(toHost, {"ready"})
         /\ ~Carries(toWindow, {"list"}) /\ ~Carries(toWindow, {"download"})
<1>1. \A i \in 1 .. Len(toHost) : toHost[i] \in Request BY DEF FilesTyped
<1>2. \A m \in Request : m.type \notin {"listed", "ready"} BY DEF Request
<1>3. \A i \in 1 .. Len(toWindow) : toWindow[i] \in Answer BY DEF FilesTyped
<1>4. \A m \in Answer : m.type \notin {"list", "download"} BY DEF Answer
<1> QED BY <1>1, <1>2, <1>3, <1>4 DEF Carries

(* A list asked for: what was picked before stays before it, and one asked for alone *)
(* finds nothing on its way.                                                         *)
LEMMA StepBrowse ==
  ASSUME FilesInv, NEW id \in Ids, NEW how \in {"current", "same", "step"}, Browse(id, how)
  PROVE  FilesInv'
<1> DEFINE m == [type |-> "list", id |-> id, how |-> how]
<1>1. m \in Request /\ m.type = "list" /\ ~Sure(m) BY DEF Request, Sure, Picks
<1> HIDE DEF m
<1>2. FilesTyped BY DEF FilesInv
<1>3. /\ Sends(m) \/ toHost' = toHost
      /\ UNCHANGED <<relay, host, toWindow, mutation, download>>
      /\ view' \notin Dirs /\ lists' = lists \cup {id} /\ alone' = ~ListUnderWay
  BY FilesAssumption DEF Browse, Navigate, SendsList, m
<1> HIDE DEF Sends
<1>4. toHost' \in Seq(Request) /\ PicksFirst' /\ Meant(toHost', listing')
  <2>1. CASE toHost' = toHost BY <1>2, <1>3, <2>1 DEF FilesInv, FilesTyped, PicksFirst, host
  <2>2. CASE Sends(m) BY <1>1, <1>2, <1>3, <2>2, SendsFacts DEF FilesInv, PicksFirst, host
  <2> QED BY <1>3, <2>1, <2>2
<1>5. FilesTyped'
  <2>1. alone' \in BOOLEAN BY <1>3
  <2> QED BY <1>2, <1>3, <1>4, <2>1 DEF FilesTyped, host, relay
<1>6. ASSUME alone' PROVE Orderly'
  <2>1. reading = {} /\ ~Carries(toHost, Errands) /\ ~Carries(toWindow, Errands) /\ ~Carries(toWindow, {"listed"})
    <3>1. DOMAIN toHost = 1 .. Len(toHost) /\ DOMAIN toWindow = 1 .. Len(toWindow) BY <1>2 DEF FilesTyped
    <3>2. /\ ~Carries(toHost, {"list"}) /\ ~Carries(toHost, {"mutation"})
          /\ ~Carries(toWindow, {"listed"}) /\ ~Carries(toWindow, {"mutation"})
      BY <1>3, <1>6, <3>1 DEF ListUnderWay, Carries
    <3> QED BY <1>3, <1>6, <3>2, <1>2, Kinds, EmptyClaims DEF ListUnderWay
  <2>2. Once(toHost, Errands) /\ Once(toWindow, Errands) /\ Told(toWindow, listing) BY <2>1, EmptyClaims
  <2>3. Once(toHost', Errands)
    <3>1. CASE toHost' = toHost BY <2>2, <3>1
    <3>2. CASE Sends(m) BY <1>1, <1>2, <2>1, <2>2, <3>2, SendsFacts
    <3> QED BY <1>3, <3>1, <3>2
  <2>4. OneErrand' BY <1>3, <2>1, <2>2, <2>3 DEF OneErrand, host
  <2>5. RowsStand' BY <1>3 DEF RowsStand
  <2> QED BY <1>3, <2>2, <2>4, <2>5 DEF Orderly, host
<1> QED BY <1>4, <1>5, <1>6 DEF FilesInv

(* An entry is picked from the rows shown. *)
LEMMA StepPick ==
  ASSUME FilesInv, NEW id \in Ids, Preview(id) \/ Mutate(id) \/ StartDownload(id)
  PROVE  FilesInv'
<1> PICK type \in {"preview", "mutation", "download"} :
      /\ Pick(id, type) /\ UNCHANGED <<view, lists, relay, host, toWindow, alone>>
      /\ type = "mutation" => mutation = Nothing /\ mutation' = id
      /\ type # "mutation" => mutation' = mutation
      /\ \/ download' = download
         \/ download' = [id |-> id, total |-> 0, next |-> 0, timer |-> "ready"]
  BY DEF Preview, Mutate, StartDownload, Pick
<1> DEFINE m == [type |-> type, id |-> id, shown |-> view, sure |-> alone]
<1>0. alone \in BOOLEAN BY DEF FilesInv, FilesTyped
<1>1. m \in Request /\ m.type = type /\ m.shown = view /\ view \in Dirs /\ Sends(m) /\ (Sure(m) <=> alone)
  BY <1>0 DEF Request, Picks, Pick, Sure
<1> HIDE DEF m, Sends
<1>2. FilesTyped /\ view' = view /\ host' = host /\ toWindow' = toWindow /\ UNCHANGED <<fsDownloads, lists, alone>>
  BY DEF FilesInv, relay
<1>3. alone => ~Listing /\ listing \in {view, Nothing}
  BY <1>1 DEF FilesInv, Orderly, RowsStand
<1>4. FilesTyped'
  <2>1. [id |-> id, total |-> 0, next |-> 0, timer |-> "ready"] \in Loading BY DEF Loading
  <2> QED BY <1>1, <1>2, <2>1, SendsFacts DEF FilesTyped, host
<1>5. PicksBefore(toHost') /\ Meant(toHost', listing)
  BY <1>1, <1>2, <1>3, SendsFacts DEF FilesInv, PicksFirst, Listing
<1>6. PicksFirst' /\ Meant(toHost', listing')
  BY <1>1, <1>2, <1>3, <1>5, SendsFacts DEF FilesInv, PicksFirst, Listing, host
<1>7. ASSUME alone PROVE Orderly'
  <2>1. type \in Errands => type = "mutation" /\ mutation = Nothing /\ ~Changing
    BY <1>1, <1>7 DEF FilesInv, Orderly, RowsStand, Errands
  <2>2. OneErrand'
    BY <1>1, <1>2, <1>3, <1>7, <2>1, SendsFacts, EmptyClaims, Kinds
       DEF FilesInv, Orderly, OneErrand, Listing, Changing, host
  <2>3. RowsStand'
    BY <1>1, <1>2, <1>3, <1>7, <2>1, SendsFacts, FilesAssumption
       DEF FilesInv, Orderly, RowsStand, Listing, Changing, host
  <2> QED BY <1>2, <1>7, <2>2, <2>3 DEF FilesInv, Orderly, host
<1> QED BY <1>2, <1>4, <1>6, <1>7 DEF FilesInv

(* Whatever else the window does, the queues and the workstation stay. *)
LEMMA StepWindowOnly ==
  ASSUME FilesInv, UNCHANGED <<host, toHost, toWindow, alone>>, fsDownloads' \in Seq(Ids),
         view' \in Dirs => view' = view /\ mutation' = mutation, lists' \subseteq lists,
         download' # Nothing => download' = download
  PROVE  FilesInv'
<1>1. FilesTyped' BY DEF FilesInv, FilesTyped, host
<1>2. PicksFirst' /\ Meant(toHost', listing') BY DEF FilesInv, PicksFirst, host
<1>3. ASSUME alone PROVE Orderly'
  <2>1. OneErrand' BY <1>3 DEF FilesInv, Orderly, OneErrand, host
  <2>2. RowsStand' BY <1>3 DEF FilesInv, Orderly, RowsStand, Listing, Changing, host
  <2> QED BY <1>3, <2>1, <2>2 DEF FilesInv, Orderly, host
<1> QED BY <1>1, <1>2, <1>3 DEF FilesInv

LEMMA StepTimesOut ==
  ASSUME FilesInv, TimesOut \/ ChunkRequestExpires
  PROVE  FilesInv'
<1>1. fsDownloads' = fsDownloads /\ UNCHANGED <<host, toHost, toWindow, alone>> /\ fsDownloads \in Seq(Ids)
  BY DEF TimesOut, ChunkRequestExpires, relay, FilesInv, FilesTyped
<1>2. ASSUME TimesOut PROVE FilesInv'
  <2>1. /\ view' = "error" \/ (view' = view /\ mutation' = mutation)
        /\ lists' \subseteq lists
        /\ download' # Nothing => download' = download
    BY <1>2 DEF TimesOut, ListTimesOut, PreviewTimesOut, MutationTimesOut, ReadyTimesOut, SliceTimesOut, RejectDownload
  <2> QED BY <1>1, <2>1, StepWindowOnly, FilesAssumption
<1>3. ASSUME ChunkRequestExpires PROVE FilesInv'
  BY <1>1, <1>3, StepWindowOnly DEF ChunkRequestExpires, window
<1> QED BY <1>2, <1>3

(* The workstation takes a request and answers it, or not. *)
LEMMA StepHandleList ==
  ASSUME FilesInv, HostHandles, HandleList
  PROVE  FilesInv'
<1> DEFINE m == Head(toHost)
<1>1. /\ FilesTyped /\ toHost # <<>> /\ toHost' = Tail(toHost)
      /\ UNCHANGED <<window, relay, alone>> /\ m.type = "list"
      /\ m.id \in Ids
  BY HostTakes DEF HostHandles, HandleList, FilesInv, Request1, Request
<1>2. toHost' \in Seq(Request) /\ ~HasSure(toHost') /\ PicksBefore(toHost')
  BY <1>1, HostTakes DEF FilesInv, PicksFirst
<1>3. transfers' \subseteq Ids
  BY <1>1 DEF HandleList, FilesTyped
<1>4. \A dir : Meant(toHost', dir)
  BY <1>2, EmptyClaims
<1>5. \/ /\ reading' = reading \cup {m.id} /\ UNCHANGED <<listing, toWindow>>
      \/ /\ reading' = reading /\ listing' = listing /\ Answers([type |-> "error", id |-> m.id])
      \/ /\ reading' = reading /\ listing' \in Dirs /\ Answers([type |-> "listed", id |-> m.id, dir |-> listing'])
  <2>1. CASE m.how = "current" BY <2>1 DEF HandleList, Request1
  <2>2. CASE m.how # "current"
    <3>1. listing = Nothing => Answers([type |-> "error", id |-> m.id]) /\ listing' = listing /\ reading' = reading
      BY <2>2 DEF HandleList, Request1, Fails
    <3>2. listing # Nothing => /\ reading' = reading
                               /\ \/ Answers([type |-> "error", id |-> m.id]) /\ listing' = listing
                                  \/ \E d \in Target(m.how) :
                                       listing' = d /\ Answers([type |-> "listed", id |-> m.id, dir |-> d])
      BY <2>2 DEF HandleList, Request1, Fails, Lists
    <3>3. listing # Nothing => Target(m.how) \subseteq Dirs
      BY <1>1 DEF Target, FilesTyped
    <3> QED BY <3>1, <3>2, <3>3
  <2> QED BY <2>1, <2>2
<1> HIDE DEF m
<1>6. \/ toWindow' = toWindow
      \/ \E a \in Answer : Answers(a) /\ (a.type = "error" \/ (a.type = "listed" /\ a.dir = listing' /\ reading' = reading))
  <2>1. [type |-> "error", id |-> m.id] \in Answer BY <1>1 DEF Answer
  <2>2. ASSUME listing' \in Dirs PROVE [type |-> "listed", id |-> m.id, dir |-> listing'] \in Answer
    BY <1>1, <2>2 DEF Answer
  <2> QED BY <1>5, <2>1, <2>2
<1> HIDE DEF Answers
<1>7. toWindow' \in Seq(Answer)
  BY <1>1, <1>6, AnswersFacts DEF FilesTyped
<1>8. FilesTyped'
  BY <1>1, <1>2, <1>3, <1>5, <1>7 DEF FilesTyped, window, relay
<1>9. PicksFirst' /\ Meant(toHost', listing') BY <1>2, <1>4 DEF PicksFirst
<1>10. ASSUME alone PROVE Orderly'
  <2>1. Carries(toHost, {"list"}) /\ Carries(toHost, Errands) /\ ~Carries(toHost', Errands) /\ Once(toHost', Errands)
    <3>1. Once(toHost, Errands) BY <1>10 DEF FilesInv, Orderly, OneErrand
    <3>2. m.type \in Errands BY <1>1 DEF Errands
    <3>3. m = Head(toHost) BY DEF m
    <3> QED BY <1>1, <3>1, <3>2, <3>3, HostTakes
  <2>2. reading = {} /\ ~Carries(toWindow, Errands) /\ ~Carries(toWindow, {"listed"}) /\ view' \notin Dirs
    BY <1>1, <1>10, <2>1, EmptyClaims DEF FilesInv, Orderly, OneErrand, RowsStand, Listing, window
  <2>3. \A dir : Told(toWindow, dir) BY <2>2, EmptyClaims
  <2>4. Once(toWindow, Errands) BY <1>10 DEF FilesInv, Orderly, OneErrand
  <2>5. /\ Once(toWindow', Errands) /\ Told(toWindow', listing')
        /\ reading' # {} => ~Carries(toWindow', Errands)
    <3>1. CASE toWindow' = toWindow BY <2>2, <2>3, <2>4, <3>1
    <3>2. ASSUME NEW a \in Answer, Answers(a),
                 a.type = "error" \/ (a.type = "listed" /\ a.dir = listing' /\ reading' = reading)
          PROVE  <2>5
      <4>1. Once(toWindow', Errands) /\ Told(toWindow', listing')
        BY <1>1, <2>2, <2>3, <2>4, <3>2, AnswersFacts
      <4>2. reading' # {} => a.type = "error" BY <2>2, <3>2
      <4>3. a.type = "error" => ~Carries(toWindow', Errands)
        BY <1>1, <2>2, <3>2, AnswersFacts DEF Errands
      <4> QED BY <4>1, <4>2, <4>3
    <3> QED BY <1>6, <3>1, <3>2
  <2>6. \A x, y \in reading' : x = y BY <1>5, <2>2
  <2>7. OneErrand' BY <2>1, <2>5, <2>6 DEF OneErrand
  <2>8. RowsStand' BY <2>2 DEF RowsStand
  <2> QED BY <2>5, <2>7, <2>8 DEF Orderly
<1> QED BY <1>1, <1>8, <1>9, <1>10 DEF FilesInv

(* Herdr's answer ends the reading: the list, or an error, goes to the window. *)
LEMMA StepHerdrAnswers ==
  ASSUME FilesInv, NEW id \in Ids, HerdrAnswers(id)
  PROVE  FilesInv'
<1>1. /\ FilesTyped /\ id \in reading /\ reading' = reading \ {id}
      /\ UNCHANGED <<transfers, window, relay, toHost, alone>> /\ ~HasSure(toHost)
  BY DEF HerdrAnswers, FilesInv, PicksFirst
<1>2. \A dir : Meant(toHost, dir) BY <1>1, EmptyClaims
<1> DEFINE Says(a) == /\ Answers(a) /\ listing' \in Dirs \cup {Nothing}
                      /\ a.type = "error" \/ (a.type = "listed" /\ a.dir = listing')
<1>4. \E a \in Answer : Says(a)
  <2>1. CASE Fails(id) /\ UNCHANGED listing
    <3> [type |-> "error", id |-> id] \in Answer BY DEF Answer
    <3> QED BY <2>1, <1>1 DEF Fails, FilesTyped
  <2>2. ASSUME NEW d \in Target("current"), listing' = d, Answers([type |-> "listed", id |-> id, dir |-> d])
        PROVE \E a \in Answer : Says(a)
    <3>1. d \in Dirs BY DEF Target
    <3>2. [type |-> "listed", id |-> id, dir |-> d] \in Answer BY <3>1 DEF Answer
    <3> QED BY <2>2, <3>1, <3>2
  <2> QED BY <2>1, <2>2 DEF HerdrAnswers, Lists
<1>5. PICK a \in Answer : Says(a)
  BY <1>4
<1> HIDE DEF Answers
<1>6. toWindow' \in Seq(Answer) BY <1>1, <1>5, AnswersFacts
<1>7. FilesTyped' BY <1>1, <1>5, <1>6 DEF FilesTyped, window, relay
<1>8. PicksFirst' /\ Meant(toHost', listing') BY <1>1, <1>2 DEF PicksFirst, FilesInv
<1>9. ASSUME alone PROVE Orderly'
  <2>1. /\ reading' = {} /\ view \notin Dirs
        /\ ~Carries(toHost, Errands) /\ ~Carries(toWindow, Errands)
    BY <1>1, <1>9 DEF FilesInv, Orderly, OneErrand, RowsStand, Listing
  <2>2. \A dir : Told(toWindow, dir) BY <2>1, EmptyClaims
  <2>3. Once(toWindow, Errands) BY <2>1, EmptyClaims
  <2>4. a.type = "listed" => a.dir = listing' BY <1>5
  <2>5. Once(toWindow', Errands) /\ Told(toWindow', listing')
    BY <1>1, <1>5, <2>1, <2>2, <2>3, <2>4, AnswersFacts
  <2>6. OneErrand' BY <1>1, <1>9, <2>1, <2>5 DEF OneErrand, FilesInv, Orderly
  <2>7. RowsStand' BY <1>1, <2>1 DEF RowsStand, window
  <2> QED BY <2>5, <2>6, <2>7 DEF Orderly
<1> QED BY <1>1, <1>7, <1>8, <1>9 DEF FilesInv

(* An entry looked for, or a slice read: the listing stays. *)
LEMMA StepHandleOther ==
  ASSUME FilesInv, HostHandles, HandlePick \/ HandleDownload \/ HandleChunk
  PROVE  FilesInv'
<1> DEFINE m == Head(toHost)
<1>1. /\ FilesTyped /\ toHost # <<>> /\ toHost' = Tail(toHost)
      /\ UNCHANGED <<window, relay, alone>> /\ m.type \in {"preview", "mutation", "download", "chunk"}
      /\ m \in Request
      /\ UNCHANGED <<listing, reading>>
  BY HostTakes DEF HostHandles, HandlePick, HandleDownload, HandleChunk, FilesInv, Request1
<1>2. m.id \in Ids BY <1>1 DEF Request
<1>3. transfers' \subseteq Ids
  BY <1>1, <1>2 DEF HandlePick, HandleDownload, HandleChunk, Request1, FilesTyped
<1>4. toWindow' = toWindow \/ \E a \in Answer : Answers(a) /\ a.type # "listed" /\ (a.type \in Errands => m.type = "mutation")
  <2> DEFINE OK(a) == a \in Answer /\ Answers(a) /\ a.type # "listed" /\ (a.type \in Errands => m.type = "mutation")
  <2>1. ASSUME Fails(m.id) PROVE \E a : OK(a)
    <3> [type |-> "error", id |-> m.id] \in Answer BY <1>2 DEF Answer
    <3> WITNESS [type |-> "error", id |-> m.id]
    <3> QED BY <2>1 DEF Fails, Errands
  <2>2. ASSUME HandlePick, ~Fails(m.id) PROVE \E a : OK(a)
    <3>1. [type |-> m.type, id |-> m.id] \in Answer /\ m.type \in {"preview", "mutation"}
      BY <1>2, <2>2 DEF Answer, HandlePick, Request1
    <3> WITNESS [type |-> m.type, id |-> m.id]
    <3> QED BY <2>2, <3>1 DEF HandlePick, Request1, Errands
  <2>3. ASSUME HandleDownload, ~Fails(m.id) PROVE \E a : OK(a)
    <3>1. PICK n \in 1 .. MaxSlices : Answers([type |-> "ready", id |-> m.id, total |-> n])
      BY <2>3 DEF HandleDownload, Request1
    <3>2. [type |-> "ready", id |-> m.id, total |-> n] \in Answer BY <1>2 DEF Answer
    <3> WITNESS [type |-> "ready", id |-> m.id, total |-> n]
    <3> QED BY <3>1, <3>2 DEF Errands
  <2>4. ASSUME HandleChunk, ~Fails(m.id), toWindow' # toWindow PROVE \E a : OK(a)
    <3>1. Answers(m) /\ m.type = "chunk" BY <2>4 DEF HandleChunk, Request1
    <3>2. m \in Answer BY <1>1, <3>1 DEF Request, Answer
    <3> WITNESS m
    <3> QED BY <3>1, <3>2 DEF Errands
  <2> HIDE DEF m
  <2> QED BY <2>1, <2>2, <2>3, <2>4
<1> HIDE DEF m
<1>5. /\ toHost' \in Seq(Request) /\ PicksBefore(toHost') /\ Meant(toHost', listing')
      /\ HasSure(toHost') => HasSure(toHost)
  BY <1>1, HostTakes DEF FilesInv, PicksFirst, m
<1>6. toWindow' \in Seq(Answer)
  <2> HIDE DEF Answers
  <2> QED BY <1>1, <1>4, AnswersFacts DEF FilesTyped
<1>7. FilesTyped' BY <1>1, <1>3, <1>5, <1>6 DEF FilesTyped, window, relay
<1>8. PicksFirst' BY <1>1, <1>5 DEF FilesInv, PicksFirst
<1>9. ASSUME alone PROVE Orderly'
  <2>0. OneErrand /\ RowsStand /\ Told(toWindow, listing) BY <1>9 DEF FilesInv, Orderly
  <2>1. /\ Carries(toHost', Errands) => Carries(toHost, Errands)
        /\ Carries(toHost', {"list"}) <=> Carries(toHost, {"list"})
        /\ Carries(toHost', {"mutation"}) \/ m.type = "mutation" <=> Carries(toHost, {"mutation"})
        /\ Once(toHost', Errands)
        /\ m.type = "mutation" => Carries(toHost, Errands) /\ ~Carries(toHost', Errands)
    BY <1>1, <2>0, HostTakes DEF OneErrand, m, Errands
  <2>2. /\ Told(toWindow', listing')
        /\ Carries(toWindow', {"listed"}) <=> Carries(toWindow, {"listed"})
        /\ Carries(toWindow', {"mutation"}) => Carries(toWindow, {"mutation"}) \/ m.type = "mutation"
        /\ Carries(toWindow', Errands) => Carries(toWindow, Errands) \/ m.type = "mutation"
        /\ Once(toWindow', Errands)
    <3>1. CASE toWindow' = toWindow BY <3>1, <1>1, <2>0 DEF OneErrand
    <3>2. ASSUME NEW a \in Answer, Answers(a), a.type # "listed", a.type \in Errands => m.type = "mutation" PROVE <2>2
      <4> HIDE DEF Answers
      <4>1. m.type = "mutation" => ~Carries(toWindow, Errands) BY <2>0, <2>1 DEF OneErrand
      <4> QED BY <3>2, <4>1, <1>1, <2>0, AnswersFacts DEF OneErrand, Errands
    <3> QED BY <1>4, <3>1, <3>2
  <2>3. OneErrand' BY <1>1, <2>0, <2>1, <2>2 DEF OneErrand
  <2>4. RowsStand' BY <1>1, <2>0, <2>1, <2>2 DEF RowsStand, Listing, Changing, window
  <2> QED BY <2>2, <2>3, <2>4 DEF Orderly
<1> QED BY <1>1, <1>5, <1>7, <1>8, <1>9 DEF FilesInv

(* The link ends: nothing is on its way any more. *)
LEMMA StepReconnects ==
  ASSUME FilesInv, HostReconnects
  PROVE  FilesInv'
<1>1. /\ reading' = {} /\ toHost' = <<>> /\ toWindow' = <<>> /\ listing' = Nothing /\ lists' = {}
      /\ transfers' = {} /\ download' = Nothing /\ fsDownloads' = fsDownloads /\ alone' = alone
  BY DEF HostReconnects, RejectAll, relay
<1>2. FilesTyped' BY <1>1 DEF FilesInv, FilesTyped
<1>3. OneErrand' /\ RowsStand' /\ PicksFirst' /\ Meant(toHost', listing') /\ Told(toWindow', listing')
  BY <1>1 DEF OneErrand, RowsStand, PicksFirst, Listing, Changing, Carries, Once, PicksBefore, Meant, Told, HasSure
<1> QED BY <1>2, <1>3 DEF FilesInv, Orderly

(* Forgetting one transfer leaves the others, and one announced is among them. *)
LEMMA ForgetKeeps ==
  ASSUME fsDownloads \in Seq(Ids), NEW id \in Ids
  PROVE  Forget(id) \in Seq(Ids) /\ ToSet(fsDownloads) \ {id} \subseteq ToSet(Forget(id))
<1> DEFINE q == fsDownloads
           k == CHOOSE i \in DOMAIN q : q[i] = id
<1>1. CASE id \notin ToSet(q) BY <1>1 DEF Forget
<1>2. CASE id \in ToSet(q)
  <2>1. k \in 1 .. Len(q) /\ q[k] = id /\ q \in Seq(Ids)
    <3> \E i \in DOMAIN q : q[i] = id BY <1>2 DEF ToSet
    <3> QED OBVIOUS
  <2>2. Forget(id) = SubSeq(q, 1, k - 1) \o SubSeq(q, k + 1, Len(q))
    BY <1>2 DEF Forget, RemoveAt
  <2> DEFINE p == SubSeq(q, 1, k - 1)
             r == SubSeq(q, k + 1, Len(q))
  <2> HIDE DEF k, q
  <2>3. /\ p \in Seq(Ids) /\ Len(p) = k - 1 /\ \A i \in 1 .. k - 1 : p[i] = q[i]
        /\ r \in Seq(Ids) /\ Len(r) = Len(q) - k /\ \A i \in 1 .. Len(q) - k : r[i] = q[i + k]
    BY <2>1
  <2> HIDE DEF p, r
  <2> DEFINE c == p \o r
             n == Len(q)
  <2>4. c \in Seq(Ids) /\ Len(c) = Len(p) + Len(r)
        /\ \A i \in 1 .. Len(c) : c[i] = IF i <= Len(p) THEN p[i] ELSE r[i - Len(p)]
    <3>1. p \in Seq(Ids) /\ r \in Seq(Ids) BY <2>3
    <3>2. c \in Seq(Ids) /\ Len(c) = Len(p) + Len(r) BY <3>1
    <3>3. ASSUME NEW i \in 1 .. Len(c) PROVE c[i] = IF i <= Len(p) THEN p[i] ELSE r[i - Len(p)]
      BY ONLY <3>1, <3>2, <3>3
    <3> QED BY <3>2, <3>3
  <2>5. n \in Nat /\ k \in 1 .. n /\ Len(c) = n - 1 /\ DOMAIN q = 1 .. n /\ DOMAIN c = 1 .. n - 1
    BY <2>1, <2>3, <2>4
  <2> HIDE DEF c, n
  <2>6. ASSUME NEW i \in 1 .. n, i # k PROVE \E j \in 1 .. n - 1 : c[j] = q[i]
    <3>1. CASE i < k
      <4>1. i \in 1 .. n - 1 /\ i \in 1 .. k - 1 BY <3>1, <2>5
      <4>2. i \in 1 .. Len(c) /\ i <= Len(p) BY <4>1, <2>3, <2>5
      <4>3. c[i] = p[i] BY <4>2, <2>4
      <4>4. p[i] = q[i] BY <4>1, <2>3
      <4> QED BY <4>1, <4>3, <4>4
    <3>2. CASE i > k
      <4> DEFINE j == i - 1
      <4>1. j \in 1 .. n - 1 /\ ~(j <= k - 1) /\ j - (k - 1) \in 1 .. n - k /\ j - (k - 1) + k = i
        BY <3>2, <2>5
      <4>2. j \in 1 .. Len(c) /\ ~(j <= Len(p)) /\ Len(p) = k - 1 BY <4>1, <2>3, <2>5
      <4>3. c[j] = r[j - (k - 1)] BY <4>2, <2>4
      <4>4. r[j - (k - 1)] = q[i] BY <4>1, <2>3 DEF n
      <4> QED BY <4>1, <4>3, <4>4
    <3> QED BY <3>1, <3>2, <2>6, <2>5
  <2>7. \A x \in ToSet(q) \ {id} : x \in ToSet(c)
    <3> SUFFICES ASSUME NEW x \in ToSet(q), x # id PROVE x \in ToSet(c) OBVIOUS
    <3>1. PICK i \in 1 .. n : q[i] = x BY <2>5 DEF ToSet
    <3>2. PICK j \in 1 .. n - 1 : c[j] = q[i] BY <3>1, <2>1, <2>6
    <3> QED BY <3>1, <3>2, <2>5 DEF ToSet
  <2>8. Forget(id) = c BY <2>2 DEF c, p, r
  <2> QED BY <2>4, <2>7, <2>8 DEF q
<1> QED BY <1>1, <1>2

LEMMA RegisteredHolds ==
  ASSUME fsDownloads \in Seq(Ids), NEW id \in Ids
  PROVE  Registered(id) \in Seq(Ids) /\ id \in ToSet(Registered(id))
<1> DEFINE f == Forget(id)
           all == Append(f, id)
<1>1. f \in Seq(Ids) BY ForgetKeeps
<1> HIDE DEF f
<1>2. all \in Seq(Ids) /\ Len(all) = Len(f) + 1 /\ Len(f) \in Nat /\ all[Len(all)] = id /\ DOMAIN all = 1 .. Len(all)
  BY <1>1
<1>3. MaxTransfers \in Nat \ {0} BY FilesAssumption
<1> HIDE DEF all
<1>4. CASE Len(all) > MaxTransfers
  <2>1. all # <<>> /\ Len(all) >= 2 BY <1>2, <1>3, <1>4
  <2>2. /\ Tail(all) \in Seq(Ids) /\ Len(Tail(all)) = Len(all) - 1 /\ DOMAIN Tail(all) = 1 .. Len(all) - 1
        /\ Tail(all)[Len(all) - 1] = all[Len(all)]
    BY <2>1, <1>2
  <2>3. Registered(id) = Tail(all) BY <1>4 DEF Registered, all, f
  <2> DEFINE k == Len(all) - 1
             t == Tail(all)
  <2>4. k \in DOMAIN t /\ t[k] = id BY <2>1, <2>2, <1>2
  <2>5. id \in ToSet(t) BY <2>4 DEF ToSet
  <2> QED BY <2>2, <2>3, <2>5
<1>5. CASE ~(Len(all) > MaxTransfers)
  <2>1. Registered(id) = all BY <1>5 DEF Registered, all, f
  <2> QED BY <2>1, <1>2 DEF ToSet
<1> QED BY <1>4, <1>5

(* What the window hears, it does one thing about: an answer of a kind is taken *)
(* by one action.                                                               *)
Heard(m) ==
  toWindow # <<>> /\ toWindow' = Tail(toWindow) /\ m = Head(toWindow) /\ UNCHANGED <<host, alone>>

(* What is left of the answers when one was heard, and nothing was asked for but slices. *)
LEMMA HearsQuietly ==
  ASSUME FilesInv, NEW m, Heard(m),
         toHost' = toHost \/ \E last : Sends([type |-> "chunk", id |-> m.id, last |-> last]) /\ last \in BOOLEAN,
         m.id \in Ids,
         view' \in Dirs => view' = view /\ mutation' = mutation, lists' \subseteq lists,
         fsDownloads' \in Seq(Ids), download' # Nothing => download' \in Loading
  PROVE  FilesInv'
<1>1. FilesTyped /\ host' = host /\ alone' = alone BY DEF FilesInv, Heard
<1>2. toWindow' \in Seq(Answer) BY <1>1, WindowTakes DEF Heard
<1>3. /\ toHost' \in Seq(Request) /\ Meant(toHost', listing) /\ PicksBefore(toHost')
      /\ Carries(toHost', {"list"}) <=> Carries(toHost, {"list"})
      /\ Carries(toHost', {"mutation"}) <=> Carries(toHost, {"mutation"})
      /\ Carries(toHost', Errands) <=> Carries(toHost, Errands)
      /\ HasSure(toHost') <=> HasSure(toHost)
      /\ Once(toHost, Errands) => Once(toHost', Errands)
  <2>1. CASE toHost' = toHost BY <2>1, <1>1 DEF FilesInv, FilesTyped, PicksFirst
  <2>2. ASSUME NEW last \in BOOLEAN, Sends([type |-> "chunk", id |-> m.id, last |-> last]) PROVE <1>3
    <3> DEFINE r == [type |-> "chunk", id |-> m.id, last |-> last]
    <3>1. r \in Request /\ r.type = "chunk" /\ ~Sure(r) /\ r.type \notin Errands /\ Sends(r)
      BY <2>2 DEF Request, Sure, Picks, Errands
    <3> HIDE DEF r
    <3> QED BY <3>1, <1>1, SendsFacts DEF FilesInv, PicksFirst
  <2> QED BY <2>1, <2>2
<1>4. FilesTyped' BY <1>1, <1>2, <1>3 DEF FilesTyped, host
<1>5. PicksFirst' /\ Meant(toHost', listing') BY <1>1, <1>3 DEF FilesInv, PicksFirst, host
<1>6. ASSUME alone PROVE Orderly'
  <2>1. OneErrand /\ RowsStand /\ Told(toWindow, listing) BY <1>6 DEF FilesInv, Orderly
  <2>2. /\ Told(toWindow', listing)
        /\ Carries(toWindow', {"listed"}) => Carries(toWindow, {"listed"})
        /\ Carries(toWindow', {"mutation"}) => Carries(toWindow, {"mutation"})
        /\ Carries(toWindow', Errands) => Carries(toWindow, Errands)
        /\ Once(toWindow', Errands)
    BY <1>1, <2>1, WindowTakes DEF Heard, OneErrand
  <2>3. OneErrand' BY <1>1, <1>3, <2>1, <2>2 DEF OneErrand, host
  <2>4. RowsStand' BY <1>1, <1>3, <2>1, <2>2 DEF RowsStand, Listing, Changing, host
  <2> QED BY <1>1, <2>2, <2>3, <2>4 DEF Orderly, host
<1> QED BY <1>1, <1>4, <1>5, <1>6 DEF FilesInv

LEMMA StepListed ==
  ASSUME FilesInv, NEW m, Heard(m), Listed(m)
  PROVE  FilesInv'
<1>1. /\ FilesTyped /\ m.type = "listed"
      /\ UNCHANGED <<listing, reading, transfers, previews, mutation, download, fsDownloads, toHost, alone>>
      /\ m.id \in Ids /\ lists' \subseteq lists
  BY WindowTakes DEF FilesInv, Heard, Listed, relay, host, Answer
<1>2. toWindow' \in Seq(Answer) BY <1>1, WindowTakes DEF Heard
<1>3. FilesTyped' BY <1>1, <1>2 DEF FilesTyped
<1>4. PicksFirst' /\ Meant(toHost', listing') BY <1>1 DEF FilesInv, PicksFirst
<1>5. ASSUME alone PROVE Orderly'
  <2>0. OneErrand /\ RowsStand /\ Told(toWindow, listing) BY <1>5 DEF FilesInv, Orderly
  <2>1. /\ Told(toWindow', listing) /\ m.dir = listing
        /\ Carries(toWindow, {"listed"}) /\ Carries(toWindow, Errands) /\ ~Carries(toWindow', Errands)
        /\ Once(toWindow', Errands)
    BY <1>1, <2>0, WindowTakes DEF Heard, OneErrand, Errands
  <2>2. ~Carries(toWindow', {"listed"}) /\ ~Carries(toWindow', {"mutation"})
    BY <2>1, EmptyClaims
  <2>3. reading = {} /\ ~Carries(toHost, Errands) /\ ~Carries(toHost, {"list"}) /\ ~Carries(toHost, {"mutation"})
    BY <2>0, <2>1, EmptyClaims DEF OneErrand
  <2>4. view' \in Dirs => view' = listing
    BY <1>1, <2>0, <2>1 DEF Listed, RowsStand, Listing
  <2>5. OneErrand' BY <1>1, <2>0, <2>1, <2>3 DEF OneErrand
  <2>6. RowsStand' BY <1>1, <2>2, <2>3, <2>4 DEF RowsStand, Listing, Changing
  <2> QED BY <1>1, <2>1, <2>5, <2>6 DEF Orderly
<1> QED BY <1>1, <1>3, <1>4, <1>5 DEF FilesInv

(* A change confirmed: the directory is listed anew. *)
LEMMA StepMutated ==
  ASSUME FilesInv, NEW m, Heard(m), Mutated(m)
  PROVE  FilesInv'
<1>1. /\ FilesTyped /\ UNCHANGED <<listing, reading, transfers, download, fsDownloads, alone>>
      /\ m.type = "mutation" /\ m.id \in Ids
  BY WindowTakes DEF FilesInv, Heard, Mutated, relay, host, Answer
<1>2. CASE m.id # mutation
  BY <1>1, <1>2, HearsQuietly DEF Mutated, FilesInv, FilesTyped
<1>3. CASE m.id = mutation
  <2> DEFINE r == [type |-> "list", id |-> m.id, how |-> "same"]
  <2>1. r \in Request /\ r.type = "list" /\ ~Sure(r) BY <1>1 DEF Request, Sure, Picks
  <2>2. view' \notin Dirs /\ lists' \subseteq Ids /\ (toHost' = toHost \/ Sends(r))
    BY <1>1, <1>3, FilesAssumption DEF Mutated, Navigate, SendsList, FilesTyped
  <2> HIDE DEF r, Sends
  <2>3. /\ toHost' \in Seq(Request) /\ PicksBefore(toHost') /\ Meant(toHost', listing)
        /\ HasSure(toHost') => HasSure(toHost)
    <3>1. CASE toHost' = toHost BY <3>1, <1>1 DEF FilesInv, FilesTyped, PicksFirst
    <3>2. CASE Sends(r) BY <3>2, <1>1, <2>1, SendsFacts DEF FilesInv, PicksFirst
    <3> QED BY <2>2, <3>1, <3>2
  <2>4. toWindow' \in Seq(Answer) BY <1>1, WindowTakes DEF Heard
  <2>5. FilesTyped' BY <1>1, <2>2, <2>3, <2>4 DEF FilesTyped
  <2>6. PicksFirst' /\ Meant(toHost', listing') BY <1>1, <2>3 DEF FilesInv, PicksFirst
  <2>7. ASSUME alone PROVE Orderly'
    <3>0. OneErrand /\ Told(toWindow, listing) BY <2>7 DEF FilesInv, Orderly
    <3>1. /\ Told(toWindow', listing)
          /\ Carries(toWindow, Errands) /\ ~Carries(toWindow', Errands) /\ Once(toWindow', Errands)
      BY <1>1, <3>0, WindowTakes DEF Heard, OneErrand, Errands
    <3>2. reading = {} /\ ~Carries(toHost, Errands) BY <3>0, <3>1 DEF OneErrand
    <3>3. Once(toHost', Errands)
      <4>1. CASE toHost' = toHost BY <4>1, <3>0 DEF OneErrand
      <4>2. CASE Sends(r) BY <4>2, <1>1, <2>1, <3>0, <3>2, SendsFacts DEF OneErrand
      <4> QED BY <2>2, <4>1, <4>2
    <3>4. OneErrand' BY <1>1, <3>1, <3>2, <3>3 DEF OneErrand
    <3>5. RowsStand' BY <2>2 DEF RowsStand
    <3> QED BY <1>1, <3>1, <3>4, <3>5 DEF Orderly
  <2> QED BY <1>1, <2>5, <2>6, <2>7 DEF FilesInv
<1> QED BY <1>2, <1>3

(* A pull sets a timer; the rest of the download's record stays as it was.  An *)
(* announcement sets the total, a slice moves the next one on; both clear the timer. *)
LEMMA RequestChunkKeeps ==
  ASSUME NEW d \in Loading
  PROVE  /\ RequestChunk(d) \in Loading
         /\ RequestChunk(d).id = d.id /\ RequestChunk(d).total = d.total /\ RequestChunk(d).next = d.next
  BY DEF RequestChunk, Loading

Sized(d, total) == [d EXCEPT !.total = total, !.timer = "off"]
Moved(d) == [d EXCEPT !.next = @ + 1, !.timer = "off"]

LEMMA ClearsKeep ==
  ASSUME NEW d \in Loading
  PROVE  /\ \A t \in Nat : /\ Sized(d, t) \in Loading
                           /\ Sized(d, t).id = d.id /\ Sized(d, t).total = t /\ Sized(d, t).next = d.next
         /\ Moved(d) \in Loading
         /\ Moved(d).id = d.id /\ Moved(d).total = d.total /\ Moved(d).next = d.next + 1
<1>1. ASSUME NEW c \in Loading
      PROVE  /\ [c EXCEPT !.timer = "off"] \in Loading
             /\ [c EXCEPT !.timer = "off"].id = c.id
             /\ [c EXCEPT !.timer = "off"].total = c.total
             /\ [c EXCEPT !.timer = "off"].next = c.next
  BY DEF Loading
<1>2. ASSUME NEW t \in Nat
      PROVE  /\ Sized(d, t) \in Loading
             /\ Sized(d, t).id = d.id /\ Sized(d, t).total = t /\ Sized(d, t).next = d.next
  <2> DEFINE c == [d EXCEPT !.total = t]
  <2>1. c \in Loading /\ c.id = d.id /\ c.total = t /\ c.next = d.next BY DEF Loading
  <2>2. Sized(d, t) = [c EXCEPT !.timer = "off"] BY DEF Sized
  <2> HIDE DEF c
  <2> QED BY <2>1, <2>2, <1>1
<1>3. Moved(d) \in Loading /\ Moved(d).id = d.id /\ Moved(d).total = d.total /\ Moved(d).next = d.next + 1
  <2> DEFINE c == [d EXCEPT !.next = @ + 1]
  <2>1. c \in Loading /\ c.id = d.id /\ c.total = d.total /\ c.next = d.next + 1 BY DEF Loading
  <2>2. Moved(d) = [c EXCEPT !.timer = "off"] BY DEF Moved
  <2> HIDE DEF c
  <2> QED BY <2>1, <2>2, <1>1
<1> QED BY <1>2, <1>3

LEMMA RejectsAll ==
  ASSUME FilesInv, RejectAll
  PROVE  /\ view' \in Dirs => view' = view /\ mutation' = mutation
         /\ lists' = {} /\ download' = Nothing /\ mutation' = Nothing
  BY FilesAssumption DEF RejectAll

(* A pull goes on to the workstation, or is dropped, or has no download any more. *)
LEMMA StepPulls ==
  ASSUME FilesInv, NEW m, Heard(m), NEW d \in Loading, NEW fs \in Seq(Ids), NEW used,
         d.id = m.id, Pulls(d, fs, used)
  PROVE  FilesInv'
<1>0. m.id \in Ids BY DEF Loading
<1>1. fsDownloads' = fs /\ fsDownloads' \in Seq(Ids) BY DEF Pulls
<1>2. CASE d.id \notin ToSet(fs)
  <2>1. RejectAll /\ toHost' = toHost BY <1>2 DEF Pulls
  <2>2. /\ view' \in Dirs => view' = view /\ mutation' = mutation
        /\ lists' \subseteq lists /\ download' = Nothing
    BY <2>1, RejectsAll
  <2> QED BY <1>0, <1>1, <2>1, <2>2, HearsQuietly
<1>3. CASE d.id \in ToSet(fs)
  <2>1. download' \in Loading /\ UNCHANGED <<view, lists, previews, mutation>>
    BY <1>3, RequestChunkKeeps DEF Pulls
  <2>2. toHost' = toHost \/ \E last : Sends([type |-> "chunk", id |-> m.id, last |-> last]) /\ last \in BOOLEAN
    <3>1. (d.next = d.total - 1) \in BOOLEAN OBVIOUS
    <3>2. toHost' = toHost \/ Sends([type |-> "chunk", id |-> m.id, last |-> d.next = d.total - 1])
      BY <1>3 DEF Pulls
    <3> QED BY <3>1, <3>2
  <2> QED BY <1>0, <1>1, <2>1, <2>2, HearsQuietly
<1> QED BY <1>2, <1>3

LEMMA StepOtherAnswer ==
  ASSUME FilesInv, NEW m, Heard(m), Previewed(m) \/ Announced(m) \/ Chunk(m) \/ Refused(m)
  PROVE  FilesInv'
<1>1. FilesTyped /\ m \in Answer BY WindowTakes DEF FilesInv, Heard
<1>2. m.id \in Ids BY <1>1 DEF Answer
<1>3. Forget(m.id) \in Seq(Ids) /\ Registered(m.id) \in Seq(Ids)
  BY <1>1, <1>2, ForgetKeeps, RegisteredHolds DEF FilesTyped
<1>4. CASE Previewed(m)
  BY <1>1, <1>2, <1>4, HearsQuietly DEF Previewed, relay, FilesTyped
<1>5. CASE Refused(m)
  BY <1>1, <1>2, <1>5, HearsQuietly, RejectsAll DEF Refused, relay, FilesTyped
<1>6. CASE Announced(m)
  <2>1. CASE m.id \in Current
    <3> DEFINE d == Sized(download, m.total)
    <3>1. m.total \in Nat BY <1>1, <1>6 DEF Announced, Answer
    <3>2. download # Nothing /\ m.id = download.id BY <2>1 DEF Current
    <3>3. d \in Loading /\ d.id = m.id BY <1>1, <3>1, <3>2, ClearsKeep DEF FilesTyped
    <3>4. Pulls(d, Registered(m.id), fsChunkRequests) BY <1>6, <2>1 DEF Announced, Sized
    <3> QED BY <3>3, <3>4, <1>3, StepPulls
  <2>2. CASE m.id \notin Current
    BY <1>1, <1>2, <1>3, <1>6, <2>2, HearsQuietly DEF Announced, window, FilesTyped
  <2> QED BY <2>1, <2>2
<1>7. CASE Chunk(m)
  <2> DEFINE fs == IF m.last THEN Forget(m.id) ELSE fsDownloads
             d == Moved(download)
  <2>3. fs \in Seq(Ids)
    <3>1. CASE m.last BY <3>1, <1>3
    <3>2. CASE ~m.last BY <3>2, <1>1 DEF FilesTyped
    <3> QED BY <3>1, <3>2
  <2>1. CASE Pulls(d, fs, Shifted) /\ m.id \in Current
    <3>1. download # Nothing /\ m.id = download.id BY <2>1 DEF Current
    <3>2. download \in Loading BY <1>1, <3>1 DEF FilesTyped
    <3> HIDE DEF fs
    <3>3. d \in Loading /\ d.id = m.id BY <3>1, <3>2, ClearsKeep
    <3> QED BY <2>1, <2>3, <3>3, StepPulls
  <2>2. CASE ~(Pulls(d, fs, Shifted) /\ m.id \in Current)
    <3>1. /\ UNCHANGED <<view, lists, mutation, toHost>>
          /\ download' # Nothing => download' = download
          /\ fsDownloads' \in {fs, fsDownloads}
      BY <1>7, <2>2 DEF Chunk, window, relay, Moved
    <3>2. fsDownloads' \in Seq(Ids) BY <3>1, <2>3, <1>1 DEF FilesTyped
    <3> HIDE DEF fs
    <3>3. /\ toHost' = toHost /\ view' = view /\ mutation' = mutation /\ lists' \subseteq lists
          /\ download' # Nothing => download' \in Loading
      BY <3>1, <1>1 DEF FilesTyped
    <3> QED BY <3>2, <3>3, <1>2, HearsQuietly
  <2> QED BY <2>1, <2>2
<1> QED BY <1>4, <1>5, <1>6, <1>7

LEMMA StepFiles ==
  ASSUME FilesInv, [FilesNext]_filesVars
  PROVE  FilesInv'
<1>1. CASE Dialog BY <1>1, StepBrowse, StepPick DEF Dialog
<1>2. CASE TimesOut \/ ChunkRequestExpires BY <1>2, StepTimesOut
<1>3. CASE HostHandles BY <1>3, StepHandleList, StepHandleOther DEF HostHandles
<1>4. CASE WindowHears
  <2> DEFINE m == Head(toWindow)
  <2>1. Heard(m) BY <1>4 DEF WindowHears, Heard
  <2>2. Listed(m) \/ Previewed(m) \/ Mutated(m) \/ Announced(m) \/ Chunk(m) \/ Refused(m)
    BY <1>4 DEF WindowHears
  <2> HIDE DEF m
  <2> QED BY <2>1, <2>2, StepListed, StepMutated, StepOtherAnswer
<1>5. CASE HostReconnects BY <1>5, StepReconnects
<1>6. CASE \E id \in Ids : HerdrAnswers(id) BY <1>6, StepHerdrAnswers
<1>7. CASE UNCHANGED filesVars
  <2>1. UNCHANGED <<view, lists, mutation, download, fsDownloads, host, toHost, toWindow, alone>>
    BY <1>7 DEF filesVars, window, relay
  <2> QED BY <2>1, StepWindowOnly DEF FilesInv, FilesTyped
<1> QED BY <1>1, <1>2, <1>3, <1>4, <1>5, <1>6, <1>7 DEF FilesNext

LEMMA RowsAreMeant == FilesInv => ShownIsMeant
<1> SUFFICES ASSUME FilesInv, toHost # <<>>, Sure(Head(toHost))
             PROVE  listing \in {Head(toHost).shown, Nothing}
  BY DEF ShownIsMeant, Request1, Sure, Picks
<1>1. 1 \in 1 .. Len(toHost) /\ Head(toHost) = toHost[1] BY DEF FilesInv, FilesTyped
<1> QED BY <1>1 DEF FilesInv, Meant

-----------------------------------------------------------------------------
(* Downloads. *)
For(q, type, x) == \E i \in 1 .. Len(q) : q[i].type = type /\ q[i].id = x
Newest(q, type, x) ==
  \A i, j \in 1 .. Len(q) : q[i].type = type /\ q[i].id = x /\ q[j].type = type => j <= i
Ends(m, x) == m.id = x /\ (m.type = "error" \/ (m.type = "chunk" /\ m.last))
Ending(q, x) == \E i \in 1 .. Len(q) : Ends(q[i], x)

Unannounced(x) ==
  /\ ~For(toHost, "chunk", x) /\ ~For(toWindow, "chunk", x)
  /\ Newest(toHost, "download", x) /\ Newest(toWindow, "ready", x)
  /\ For(toHost, "download", x) => ~For(toWindow, "ready", x)
  /\ For(toWindow, "ready", x) => x \in transfers /\ ~Carries(toHost, {"download"})
BeingServed(x) ==
  /\ ~Carries(toHost, {"download"}) /\ ~Carries(toWindow, {"ready"})
  /\ x \in ToSet(fsDownloads) /\ (x \in transfers \/ Ending(toWindow, x))

PullsInv ==
  /\ FilesTyped
  /\ download # Nothing => /\ download.total = 0 => Unannounced(download.id)
                           /\ download.total > 0 => BeingServed(download.id)

LEMMA AppendFor ==
  ASSUME NEW S, NEW q \in Seq(S), NEW m \in S, NEW t, NEW x
  PROVE  /\ For(Append(q, m), t, x) <=> For(q, t, x) \/ (m.type = t /\ m.id = x)
         /\ Newest(q, t, x) /\ (m.type = t => ~For(q, t, x)) => Newest(Append(q, m), t, x)
         /\ Ending(Append(q, m), x) <=> Ending(q, x) \/ Ends(m, x)
<1> DEFINE p == Append(q, m)
<1>1. Len(p) = Len(q) + 1 /\ Len(q) \in Nat /\ (\A i \in 1 .. Len(q) : p[i] = q[i]) /\ p[Len(q) + 1] = m
  OBVIOUS
<1> HIDE DEF p
<1>2. For(p, t, x) <=> For(q, t, x) \/ (m.type = t /\ m.id = x)
  BY <1>1 DEF For
<1>3. Newest(q, t, x) /\ (m.type = t => ~For(q, t, x)) => Newest(p, t, x)
  BY <1>1 DEF For, Newest
<1>4. Ending(p, x) <=> Ending(q, x) \/ Ends(m, x)
  BY <1>1 DEF Ending
<1> QED BY <1>2, <1>3, <1>4 DEF p

LEMMA TailFor ==
  ASSUME NEW S, NEW q \in Seq(S), q # <<>>, NEW t, NEW x
  PROVE  /\ For(q, t, x) <=> For(Tail(q), t, x) \/ (Head(q).type = t /\ Head(q).id = x)
         /\ Newest(q, t, x) => /\ Newest(Tail(q), t, x)
                               /\ Head(q).type = t /\ Head(q).id = x => ~Carries(Tail(q), {t})
         /\ Ending(q, x) <=> Ending(Tail(q), x) \/ Ends(Head(q), x)
<1> DEFINE p == Tail(q)
<1>1. /\ Len(q) \in Nat \ {0} /\ Len(p) = Len(q) - 1
      /\ \A i \in 1 .. Len(p) : p[i] = q[i + 1] /\ i + 1 \in 1 .. Len(q)
      /\ \A i \in 1 .. Len(q) : i # 1 => i - 1 \in 1 .. Len(p) /\ p[i - 1] = q[i]
      /\ Head(q) = q[1] /\ 1 \in 1 .. Len(q)
  OBVIOUS
<1> HIDE DEF p
<1>2. For(q, t, x) <=> For(p, t, x) \/ (Head(q).type = t /\ Head(q).id = x)
  <2>1. ASSUME NEW i \in 1 .. Len(q), q[i].type = t /\ q[i].id = x, i # 1 PROVE For(p, t, x)
    BY <1>1, <2>1 DEF For
  <2>2. For(p, t, x) => For(q, t, x) BY <1>1 DEF For
  <2>3. Head(q).type = t /\ Head(q).id = x => For(q, t, x) BY <1>1 DEF For
  <2> QED BY <1>1, <2>1, <2>2, <2>3 DEF For
<1>3. Ending(q, x) <=> Ending(p, x) \/ Ends(Head(q), x)
  <2>1. ASSUME NEW i \in 1 .. Len(q), Ends(q[i], x), i # 1 PROVE Ending(p, x)
    BY <1>1, <2>1 DEF Ending
  <2>2. Ending(p, x) => Ending(q, x) BY <1>1 DEF Ending
  <2>3. Ends(Head(q), x) => Ending(q, x) BY <1>1 DEF Ending
  <2> QED BY <1>1, <2>1, <2>2, <2>3 DEF Ending
<1>4. Newest(q, t, x) => Newest(p, t, x) /\ (Head(q).type = t /\ Head(q).id = x => ~Carries(p, {t}))
  <2> SUFFICES ASSUME Newest(q, t, x)
               PROVE Newest(p, t, x) /\ (Head(q).type = t /\ Head(q).id = x => ~Carries(p, {t}))
    OBVIOUS
  <2>1. \A i, j \in 1 .. Len(p) : p[i].type = t /\ p[i].id = x /\ p[j].type = t => j + 1 <= i + 1
    BY <1>1 DEF Newest
  <2>2. ASSUME Head(q).type = t, Head(q).id = x, NEW j \in 1 .. Len(p), p[j].type = t PROVE FALSE
    <3>1. j + 1 <= 1 BY <1>1, <2>2 DEF Newest
    <3> QED BY <3>1
  <2> QED BY <1>1, <2>1, <2>2 DEF Newest, Carries
<1> QED BY <1>2, <1>3, <1>4 DEF p

(* What a request sent, or an answer, means to the download x. *)
LEMMA SendsFor ==
  ASSUME FilesTyped, NEW m \in Request, Sends(m), NEW x
  PROVE  /\ For(toHost', "chunk", x) <=> For(toHost, "chunk", x) \/ (m.type = "chunk" /\ m.id = x)
         /\ For(toHost', "download", x) <=> For(toHost, "download", x) \/ (m.type = "download" /\ m.id = x)
         /\ Newest(toHost, "download", x) /\ (m.type = "download" => ~For(toHost, "download", x))
              => Newest(toHost', "download", x)
         /\ Carries(toHost', {"download"}) <=> Carries(toHost, {"download"}) \/ m.type = "download"
         /\ toHost' \in Seq(Request)
<1>1. toHost \in Seq(Request) /\ toHost' = Append(toHost, m) BY DEF FilesTyped, Sends
<1>2. /\ For(Append(toHost, m), "chunk", x) <=> For(toHost, "chunk", x) \/ (m.type = "chunk" /\ m.id = x)
      /\ For(Append(toHost, m), "download", x) <=> For(toHost, "download", x) \/ (m.type = "download" /\ m.id = x)
      /\ Newest(toHost, "download", x) /\ (m.type = "download" => ~For(toHost, "download", x))
           => Newest(Append(toHost, m), "download", x)
  BY <1>1, AppendFor
<1>3. /\ Carries(Append(toHost, m), {"download"}) <=> Carries(toHost, {"download"}) \/ m.type \in {"download"}
      /\ Append(toHost, m) \in Seq(Request)
  BY <1>1, AppendCarries
<1> QED BY <1>1, <1>2, <1>3

LEMMA AnswersFor ==
  ASSUME FilesTyped, NEW m \in Answer, Answers(m), NEW x
  PROVE  /\ For(toWindow', "chunk", x) <=> For(toWindow, "chunk", x) \/ (m.type = "chunk" /\ m.id = x)
         /\ For(toWindow', "ready", x) <=> For(toWindow, "ready", x) \/ (m.type = "ready" /\ m.id = x)
         /\ Newest(toWindow, "ready", x) /\ (m.type = "ready" => ~For(toWindow, "ready", x)) => Newest(toWindow', "ready", x)
         /\ Carries(toWindow', {"ready"}) <=> Carries(toWindow, {"ready"}) \/ m.type = "ready"
         /\ Ending(toWindow', x) <=> Ending(toWindow, x) \/ Ends(m, x)
         /\ toWindow' \in Seq(Answer)
<1>1. toWindow \in Seq(Answer) /\ toWindow' = Append(toWindow, m) BY DEF FilesTyped, Answers
<1>2. /\ For(Append(toWindow, m), "chunk", x) <=> For(toWindow, "chunk", x) \/ (m.type = "chunk" /\ m.id = x)
      /\ For(Append(toWindow, m), "ready", x) <=> For(toWindow, "ready", x) \/ (m.type = "ready" /\ m.id = x)
      /\ Newest(toWindow, "ready", x) /\ (m.type = "ready" => ~For(toWindow, "ready", x))
           => Newest(Append(toWindow, m), "ready", x)
      /\ Ending(Append(toWindow, m), x) <=> Ending(toWindow, x) \/ Ends(m, x)
  BY <1>1, AppendFor
<1>3. /\ Carries(Append(toWindow, m), {"ready"}) <=> Carries(toWindow, {"ready"}) \/ m.type \in {"ready"}
      /\ Append(toWindow, m) \in Seq(Answer)
  BY <1>1, AppendCarries
<1> QED BY <1>1, <1>2, <1>3

LEMMA HostTakesFor ==
  ASSUME FilesTyped, toHost # <<>>, toHost' = Tail(toHost), NEW m, m = Head(toHost), NEW x
  PROVE  /\ For(toHost', "chunk", x) => For(toHost, "chunk", x)
         /\ For(toHost', "download", x) => For(toHost, "download", x)
         /\ m.type = "chunk" /\ m.id = x => For(toHost, "chunk", x)
         /\ m.type = "download" /\ m.id = x => For(toHost, "download", x)
         /\ Newest(toHost, "download", x) => Newest(toHost', "download", x)
         /\ Newest(toHost, "download", x) /\ m.type = "download" /\ m.id = x => ~Carries(toHost', {"download"})
         /\ Carries(toHost', {"download"}) => Carries(toHost, {"download"})
         /\ m.type = "download" => Carries(toHost, {"download"})
         /\ toHost' \in Seq(Request) /\ m \in Request
<1>1. toHost \in Seq(Request) BY DEF FilesTyped
<1>2. /\ For(toHost, "chunk", x) <=> For(Tail(toHost), "chunk", x) \/ (m.type = "chunk" /\ m.id = x)
      /\ For(toHost, "download", x) <=> For(Tail(toHost), "download", x) \/ (m.type = "download" /\ m.id = x)
      /\ Newest(toHost, "download", x) => Newest(Tail(toHost), "download", x)
      /\ Newest(toHost, "download", x) /\ m.type = "download" /\ m.id = x => ~Carries(Tail(toHost), {"download"})
  BY <1>1, TailFor
<1>3. /\ Carries(toHost, {"download"}) <=> Carries(Tail(toHost), {"download"}) \/ m.type \in {"download"}
      /\ Tail(toHost) \in Seq(Request) /\ m \in Request
  BY <1>1, TailCarries
<1> QED BY <1>2, <1>3

LEMMA WindowTakesFor ==
  ASSUME FilesTyped, toWindow # <<>>, toWindow' = Tail(toWindow), NEW m, m = Head(toWindow), NEW x
  PROVE  /\ For(toWindow', "chunk", x) => For(toWindow, "chunk", x)
         /\ For(toWindow', "ready", x) => For(toWindow, "ready", x)
         /\ m.type = "chunk" /\ m.id = x => For(toWindow, "chunk", x)
         /\ m.type = "ready" /\ m.id = x => For(toWindow, "ready", x)
         /\ Newest(toWindow, "ready", x) => Newest(toWindow', "ready", x)
         /\ Newest(toWindow, "ready", x) /\ m.type = "ready" /\ m.id = x => ~Carries(toWindow', {"ready"})
         /\ Carries(toWindow', {"ready"}) => Carries(toWindow, {"ready"})
         /\ m.type = "ready" => Carries(toWindow, {"ready"})
         /\ Ending(toWindow, x) <=> Ending(toWindow', x) \/ Ends(m, x)
         /\ toWindow' \in Seq(Answer) /\ m \in Answer
<1>1. toWindow \in Seq(Answer) BY DEF FilesTyped
<1>2. /\ For(toWindow, "chunk", x) <=> For(Tail(toWindow), "chunk", x) \/ (m.type = "chunk" /\ m.id = x)
      /\ For(toWindow, "ready", x) <=> For(Tail(toWindow), "ready", x) \/ (m.type = "ready" /\ m.id = x)
      /\ Newest(toWindow, "ready", x) => Newest(Tail(toWindow), "ready", x)
      /\ Newest(toWindow, "ready", x) /\ m.type = "ready" /\ m.id = x => ~Carries(Tail(toWindow), {"ready"})
      /\ Ending(toWindow, x) <=> Ending(Tail(toWindow), x) \/ Ends(m, x)
  BY <1>1, TailFor
<1>3. /\ Carries(toWindow, {"ready"}) <=> Carries(Tail(toWindow), {"ready"}) \/ m.type \in {"ready"}
      /\ Tail(toWindow) \in Seq(Answer) /\ m \in Answer
  BY <1>1, TailCarries
<1> QED BY <1>2, <1>3

(* Whatever is not about it leaves the download under way as it is. *)
LEMMA InitPulls == FilesInit => PullsInv
  BY DEF FilesInit, PullsInv, FilesTyped


(* The window asks, and not for a slice or a download. *)
LEMMA PullsAsk ==
  ASSUME PullsInv,
         toHost' = toHost \/ \E r \in Request : Sends(r) /\ r.type \notin {"chunk", "download"},
         UNCHANGED <<host, toWindow, fsDownloads, download>>, lists' \subseteq Ids, alone' \in BOOLEAN
  PROVE  PullsInv'
<1> DEFINE x == download.id
<1>1. FilesTyped BY DEF PullsInv
<1>2. /\ toHost' \in Seq(Request)
      /\ For(toHost', "chunk", x) => For(toHost, "chunk", x)
      /\ For(toHost', "download", x) => For(toHost, "download", x)
      /\ Newest(toHost, "download", x) => Newest(toHost', "download", x)
      /\ Carries(toHost', {"download"}) => Carries(toHost, {"download"})
  <2>1. CASE toHost' = toHost BY <2>1, <1>1 DEF FilesTyped
  <2>2. ASSUME NEW r \in Request, Sends(r), r.type \notin {"chunk", "download"} PROVE <1>2
    BY <1>1, <2>2, SendsFor
  <2> QED BY <2>1, <2>2
<1>3. FilesTyped' BY <1>1, <1>2 DEF FilesTyped, host
<1>4. Unannounced(x) => Unannounced(x)' BY <1>2 DEF Unannounced, host
<1>5. BeingServed(x) => BeingServed(x)' BY <1>2 DEF BeingServed, host
<1> QED BY <1>3, <1>4, <1>5 DEF PullsInv

LEMMA PullsDialog ==
  ASSUME PullsInv, Dialog
  PROVE  PullsInv'
<1>1. ASSUME NEW id \in Ids, NEW how \in {"current", "same", "step"}, Browse(id, how) PROVE PullsInv'
  <2>1. [type |-> "list", id |-> id, how |-> how] \in Request BY DEF Request
  <2>2. UNCHANGED <<host, toWindow, fsDownloads, download>> /\ lists' \subseteq Ids /\ alone' \in BOOLEAN
    BY <1>1 DEF Browse, Navigate, relay, PullsInv, FilesTyped
  <2>3. toHost' = toHost \/ Sends([type |-> "list", id |-> id, how |-> how])
    BY <1>1 DEF Browse, Navigate, SendsList
  <2>4. [type |-> "list", id |-> id, how |-> how].type \notin {"chunk", "download"} OBVIOUS
  <2> QED BY <2>1, <2>2, <2>3, <2>4, PullsAsk
<1>2. ASSUME NEW id \in Ids, Preview(id) \/ Mutate(id) PROVE PullsInv'
  <2>1. PICK type \in {"preview", "mutation"} : Pick(id, type)
    BY <1>2 DEF Preview, Mutate
  <2> DEFINE r == [type |-> type, id |-> id, shown |-> view, sure |-> alone]
  <2>5. alone \in BOOLEAN BY DEF PullsInv, FilesTyped
  <2>2. r \in Request BY <2>1, <2>5 DEF Request, Pick
  <2>3. r.type \notin {"chunk", "download"} OBVIOUS
  <2>4. /\ Sends(r) /\ lists' \subseteq Ids /\ alone' \in BOOLEAN
        /\ UNCHANGED <<host, toWindow, fsDownloads, download>>
    BY <1>2, <2>1 DEF Pick, Preview, Mutate, relay, PullsInv, FilesTyped
  <2> QED BY <2>2, <2>3, <2>4, PullsAsk
<1>3. ASSUME NEW id \in Ids, StartDownload(id) PROVE PullsInv'
  <2> DEFINE r == [type |-> "download", id |-> id, shown |-> view, sure |-> alone]
  <2>0. alone \in BOOLEAN BY DEF PullsInv, FilesTyped
  <2>1. /\ r \in Request /\ r.type = "download" /\ r.id = id /\ Sends(r)
        /\ download' = [id |-> id, total |-> 0, next |-> 0, timer |-> "ready"]
        /\ UNCHANGED <<host, toWindow, fsDownloads, lists, alone>> /\ id \notin InUse
    BY <1>3, <2>0 DEF StartDownload, Pick, Request, relay
  <2> HIDE DEF r
  <2>2. FilesTyped BY DEF PullsInv
  <2>3. /\ \A type : ~For(toHost, type, id) /\ ~For(toWindow, type, id)
    <3>1. DOMAIN toHost = 1 .. Len(toHost) /\ DOMAIN toWindow = 1 .. Len(toWindow) BY <2>2 DEF FilesTyped
    <3> QED BY <2>1, <3>1 DEF InUse, InTransit, For
  <2>4. Newest(toHost, "download", id) /\ Newest(toWindow, "ready", id)
    BY <2>3 DEF Newest, For
  <2>5. Unannounced(id)' BY <2>1, <2>2, <2>3, <2>4, SendsFor DEF Unannounced
  <2>8. download' \in Loading BY <2>1 DEF Loading
  <2>6. FilesTyped' BY <2>1, <2>2, <2>8, SendsFor DEF FilesTyped, host
  <2>7. download'.total = 0 /\ download'.id = id BY <2>1
  <2> QED BY <2>5, <2>6, <2>7 DEF PullsInv
<1> QED BY <1>1, <1>2, <1>3 DEF Dialog

LEMMA PullsTimesOut ==
  ASSUME PullsInv, TimesOut \/ ChunkRequestExpires \/ UNCHANGED filesVars
  PROVE  PullsInv'
<1>1. /\ UNCHANGED <<fsDownloads, listing, reading, transfers, toHost, toWindow, alone>>
      /\ download' # Nothing => download' = download
      /\ lists' \subseteq lists
  BY DEF TimesOut, ChunkRequestExpires, filesVars, ListTimesOut, PreviewTimesOut, MutationTimesOut,
         ReadyTimesOut, SliceTimesOut, RejectDownload, window, relay, host
<1>2. FilesTyped' BY <1>1 DEF PullsInv, FilesTyped
<1> QED BY <1>1, <1>2 DEF PullsInv, Unannounced, BeingServed

(* The link ends, or an error comes: no download is left. *)
LEMMA PullsEnd ==
  ASSUME PullsInv, download' = Nothing, FilesTyped'
  PROVE  PullsInv'
  BY DEF PullsInv

(* No sweep takes away what the window is pulling. *)
LEMMA SweepSpares ==
  ASSUME NEW gone \in Swept, download # Nothing
  PROVE  download.id \notin gone
  BY DEF Swept, Current

(* The workstation answers what has nothing to do with a download; nothing, or an  *)
(* error, or what was asked for.                                                    *)
LEMMA PullsAside ==
  ASSUME PullsInv, FilesTyped', UNCHANGED <<window, relay, alone>>,
         toHost' = toHost \/ (toHost # <<>> /\ toHost' = Tail(toHost)),
         toWindow' = toWindow \/ \E a \in Answer : Answers(a) /\ a.type \notin {"chunk", "ready"},
         download # Nothing /\ download.id \in transfers => download.id \in transfers'
  PROVE  PullsInv'
<1> SUFFICES ASSUME download # Nothing
             PROVE  /\ Unannounced(download.id) => Unannounced(download.id)'
                    /\ BeingServed(download.id) => BeingServed(download.id)'
  BY DEF PullsInv, window
<1> DEFINE x == download.id
<1>1. FilesTyped /\ download' = download /\ fsDownloads' = fsDownloads /\ (x \in transfers => x \in transfers')
  BY DEF PullsInv, window, relay
<1>2. /\ For(toHost', "chunk", x) => For(toHost, "chunk", x)
      /\ For(toHost', "download", x) => For(toHost, "download", x)
      /\ Newest(toHost, "download", x) => Newest(toHost', "download", x)
      /\ Carries(toHost', {"download"}) => Carries(toHost, {"download"})
  <2>1. CASE toHost' = toHost BY <2>1
  <2>2. CASE toHost # <<>> /\ toHost' = Tail(toHost) BY <1>1, <2>2, HostTakesFor
  <2> QED BY <2>1, <2>2
<1>3. /\ For(toWindow', "chunk", x) => For(toWindow, "chunk", x)
      /\ For(toWindow', "ready", x) <=> For(toWindow, "ready", x)
      /\ Newest(toWindow, "ready", x) => Newest(toWindow', "ready", x)
      /\ Carries(toWindow', {"ready"}) => Carries(toWindow, {"ready"})
      /\ Ending(toWindow, x) => Ending(toWindow', x)
  <2>1. CASE toWindow' = toWindow BY <2>1
  <2>2. ASSUME NEW a \in Answer, Answers(a), a.type \notin {"chunk", "ready"} PROVE <1>3
    BY <1>1, <2>2, AnswersFor
  <2> QED BY <2>1, <2>2
<1> HIDE DEF x
<1>4. Unannounced(x) => Unannounced(x)' BY <1>1, <1>2, <1>3 DEF Unannounced, x
<1>5. BeingServed(x) => BeingServed(x)' BY <1>1, <1>2, <1>3 DEF BeingServed, x
<1> QED BY <1>4, <1>5 DEF x

(* The queues and the workstation stay what they are meant to be. *)
LEMMA HostTyped ==
  ASSUME FilesTyped, UNCHANGED <<window, relay, alone>>,
         toHost' = toHost \/ (toHost # <<>> /\ toHost' = Tail(toHost)),
         toWindow' = toWindow \/ \E a \in Answer : Answers(a),
         listing' \in Dirs \cup {Nothing}, reading' \subseteq Ids, transfers' \subseteq Ids
  PROVE  FilesTyped'
<1>1. toHost' \in Seq(Request) BY HostTakesFor DEF FilesTyped
<1>2. toWindow' \in Seq(Answer) BY AnswersFor DEF FilesTyped
<1> QED BY <1>1, <1>2 DEF FilesTyped, window, relay

LEMMA ListsAnswers ==
  ASSUME FilesTyped, NEW id \in Ids, NEW how, Lists(id, how), how = "same" => listing # Nothing
  PROVE  /\ listing' \in Dirs \cup {Nothing}
         /\ \E a \in Answer : Answers(a) /\ a.type \in {"error", "listed"}
<1>1. CASE Fails(id) /\ UNCHANGED listing
  <2> [type |-> "error", id |-> id] \in Answer BY DEF Answer
  <2> QED BY <1>1 DEF Fails, FilesTyped
<1>2. CASE \E d \in Target(how) : listing' = d /\ Answers([type |-> "listed", id |-> id, dir |-> d])
  <2>1. PICK d \in Target(how) : listing' = d /\ Answers([type |-> "listed", id |-> id, dir |-> d])
    BY <1>2
  <2>2. d \in Dirs BY DEF Target, FilesTyped
  <2>3. [type |-> "listed", id |-> id, dir |-> d] \in Answer BY <2>2 DEF Answer
  <2> QED BY <2>1, <2>2, <2>3
<1> QED BY <1>1, <1>2 DEF Lists

LEMMA PullsHostLists ==
  ASSUME PullsInv, (HostHandles /\ HandleList) \/ \E id \in Ids : HerdrAnswers(id)
  PROVE  PullsInv'
<1>1. FilesTyped BY DEF PullsInv
<1>2. ASSUME NEW id \in Ids, HerdrAnswers(id) PROVE PullsInv'
  <2>1. /\ reading' \subseteq reading /\ UNCHANGED <<transfers, window, relay, toHost, alone>> /\ Lists(id, "current")
    BY <1>2 DEF HerdrAnswers
  <2>2. listing' \in Dirs \cup {Nothing} /\ \E a \in Answer : Answers(a) /\ a.type \in {"error", "listed"}
    BY <2>1, <1>1, ListsAnswers
  <2>3. FilesTyped' BY <2>1, <2>2, <1>1, HostTyped DEF FilesTyped
  <2> QED BY <2>1, <2>2, <2>3, PullsAside
<1>3. ASSUME HostHandles, HandleList PROVE PullsInv'
  <2> DEFINE m == Head(toHost)
  <2>1. /\ toHost # <<>> /\ toHost' = Tail(toHost) /\ UNCHANGED <<window, relay, alone>> /\ m \in Request /\ m.type = "list"
    BY <1>1, <1>3, HostTakesFor DEF HostHandles, HandleList, Request1
  <2>2. m.id \in Ids BY <2>1 DEF Request
  <2>3. /\ \E gone \in Swept : transfers' = transfers \ gone
        /\ reading' \in {reading, reading \cup {m.id}}
    BY <1>3 DEF HandleList, Request1
  <2>4. /\ listing' \in Dirs \cup {Nothing}
        /\ toWindow' = toWindow \/ \E a \in Answer : Answers(a) /\ a.type \in {"error", "listed"}
    <3>1. CASE m.how = "current" BY <3>1, <1>1, <1>3 DEF HandleList, Request1, FilesTyped
    <3>2. CASE m.how # "current" /\ listing # Nothing
      <4>1. Lists(m.id, m.how) BY <3>2, <1>3 DEF HandleList, Request1
      <4> HIDE DEF m
      <4> QED BY <4>1, <1>1, <2>2, <3>2, ListsAnswers
    <3>3. CASE m.how # "current" /\ listing = Nothing
      <4>1. Fails(m.id) /\ UNCHANGED listing BY <3>3, <1>3 DEF HandleList, Request1
      <4>2. Lists(m.id, "current") BY <4>1 DEF Lists
      <4> HIDE DEF m
      <4> QED BY <4>2, <1>1, <2>2, ListsAnswers
    <3> QED BY <3>1, <3>2, <3>3
  <2> HIDE DEF m
  <2>5. FilesTyped' BY <2>1, <2>2, <2>3, <2>4, <1>1, HostTyped DEF FilesTyped
  <2>6. download # Nothing /\ download.id \in transfers => download.id \in transfers'
    BY <2>3, SweepSpares
  <2> QED BY <2>1, <2>4, <2>5, <2>6, PullsAside
<1> QED BY <1>2, <1>3

LEMMA PullsHostPicks ==
  ASSUME PullsInv, HostHandles, HandlePick
  PROVE  PullsInv'
<1> DEFINE m == Head(toHost)
<1>1. FilesTyped BY DEF PullsInv
<1>2. /\ toHost # <<>> /\ toHost' = Tail(toHost) /\ UNCHANGED <<window, relay, listing, reading, alone>> /\ m \in Request
      /\ m.type \in {"preview", "mutation"}
  BY <1>1, HostTakesFor DEF HostHandles, HandlePick, Request1
<1>3. m.id \in Ids BY <1>2 DEF Request
<1>4. \E gone \in Swept : transfers' = transfers \ gone BY DEF HandlePick
<1>5. \E a \in Answer : Answers(a) /\ a.type \notin {"chunk", "ready"}
  <2>1. [type |-> "error", id |-> m.id] \in Answer /\ [type |-> m.type, id |-> m.id] \in Answer
    BY <1>2, <1>3 DEF Answer
  <2>2. Answers([type |-> "error", id |-> m.id]) \/ Answers([type |-> m.type, id |-> m.id])
    BY DEF HandlePick, Fails, Request1
  <2> QED BY <2>1, <2>2, <1>2
<1> HIDE DEF m
<1>6. FilesTyped' BY <1>1, <1>2, <1>4, <1>5, HostTyped DEF FilesTyped
<1>7. download # Nothing /\ download.id \in transfers => download.id \in transfers'
  BY <1>4, SweepSpares
<1> QED BY <1>2, <1>5, <1>6, <1>7, PullsAside

(* The download asked for is staged before it is announced; one the window waits *)
(* for is the last that was asked for.                                           *)
LEMMA PullsHostStages ==
  ASSUME PullsInv, HostHandles, HandleDownload
  PROVE  PullsInv'
<1> DEFINE m == Head(toHost)
<1>1. FilesTyped BY DEF PullsInv
<1>2. /\ toHost # <<>> /\ toHost' = Tail(toHost) /\ UNCHANGED <<window, relay, listing, reading, alone>> /\ m \in Request
      /\ m.type = "download"
  BY <1>1, HostTakesFor DEF HostHandles, HandleDownload, Request1
<1>3. m.id \in Ids BY <1>2 DEF Request
<1>4. PICK gone \in Swept :
        \/ Fails(m.id) /\ transfers' = transfers \ gone
        \/ /\ transfers' = (transfers \ gone) \cup {m.id}
           /\ \E n \in 1 .. MaxSlices : Answers([type |-> "ready", id |-> m.id, total |-> n])
  BY DEF HandleDownload, Request1
<1>5. CASE Fails(m.id) /\ transfers' = transfers \ gone
  <2>1. [type |-> "error", id |-> m.id] \in Answer BY <1>3 DEF Answer
  <2>2. \E a \in Answer : Answers(a) /\ a.type \notin {"chunk", "ready"} BY <2>1, <1>5 DEF Fails
  <2> HIDE DEF m
  <2>3. FilesTyped' BY <1>1, <1>2, <1>5, <2>2, HostTyped DEF FilesTyped
  <2>4. download # Nothing /\ download.id \in transfers => download.id \in transfers'
    BY <1>5, SweepSpares
  <2> QED BY <1>2, <2>2, <2>3, <2>4, PullsAside
<1>6. CASE /\ transfers' = (transfers \ gone) \cup {m.id}
           /\ \E n \in 1 .. MaxSlices : Answers([type |-> "ready", id |-> m.id, total |-> n])
  <2>1. PICK n \in 1 .. MaxSlices : Answers([type |-> "ready", id |-> m.id, total |-> n]) BY <1>6
  <2> DEFINE a == [type |-> "ready", id |-> m.id, total |-> n]
  <2>2. a \in Answer /\ a.type = "ready" /\ a.id = m.id /\ Answers(a) BY <1>3, <2>1 DEF Answer
  <2> HIDE DEF a, m
  <2>3. FilesTyped' BY <1>1, <1>2, <1>3, <1>6, <2>2, HostTyped DEF FilesTyped
  <2> SUFFICES ASSUME download # Nothing
               PROVE  /\ download.total = 0 => Unannounced(download.id)'
                      /\ ~(download.total > 0)
    BY <1>2, <2>3 DEF PullsInv, window
  <2> DEFINE x == download.id
  <2>4. ~(download.total > 0)
    BY <1>1, <1>2, HostTakesFor DEF m, PullsInv, BeingServed
  <2>5. CASE download.total = 0
    <3>1. Unannounced(x) BY <2>5 DEF PullsInv
    <3>2. x \in transfers => x \in transfers' BY <1>6, SweepSpares
    <3>3. download.id' = download.id /\ fsDownloads' = fsDownloads BY <1>2 DEF window, relay
    <3> HIDE DEF x
    <3>4. /\ For(toHost', "chunk", x) => For(toHost, "chunk", x)
          /\ For(toHost', "download", x) => For(toHost, "download", x)
          /\ m.id = x => For(toHost, "download", x)
          /\ Newest(toHost, "download", x) => Newest(toHost', "download", x)
          /\ Newest(toHost, "download", x) /\ m.id = x => ~Carries(toHost', {"download"})
          /\ Carries(toHost, {"download"})
      BY <1>1, <1>2, HostTakesFor DEF m
    <3>5. /\ For(toWindow', "chunk", x) <=> For(toWindow, "chunk", x)
          /\ For(toWindow', "ready", x) <=> For(toWindow, "ready", x) \/ m.id = x
          /\ ~For(toWindow, "ready", x) => Newest(toWindow', "ready", x)
      BY <1>1, <2>2, <3>1, AnswersFor DEF Unannounced
    <3>6. ~For(toWindow, "ready", x) BY <3>1, <3>4 DEF Unannounced
    <3>7. m.id = x => x \in transfers' /\ ~Carries(toHost', {"download"})
      BY <1>6, <3>1, <3>4 DEF Unannounced
    <3>8. For(toHost', "download", x) => ~For(toWindow', "ready", x)
      <4>1. Carries(toHost', {"download"}) \/ ~For(toHost', "download", x) BY DEF For, Carries
      <4> QED BY <4>1, <3>5, <3>6, <3>7
    <3>9. Unannounced(x)'
      BY <3>1, <3>3, <3>4, <3>5, <3>6, <3>7, <3>8 DEF Unannounced, x
    <3> QED BY <2>4, <3>9 DEF x
  <2> QED BY <2>4, <2>5
<1> QED BY <1>4, <1>5, <1>6

(* A slice sent leaves the transfer staged, or is its last. *)
LEMMA PullsHostSends ==
  ASSUME PullsInv, HostHandles, HandleChunk
  PROVE  PullsInv'
<1> DEFINE m == Head(toHost)
<1>1. FilesTyped BY DEF PullsInv
<1>2. /\ toHost # <<>> /\ toHost' = Tail(toHost) /\ UNCHANGED <<window, relay, listing, reading, alone>> /\ m \in Request
      /\ m.type = "chunk"
  BY <1>1, HostTakesFor DEF HostHandles, HandleChunk, Request1
<1>3. m.id \in Ids /\ m.last \in BOOLEAN BY <1>2 DEF Request
<1>4. CASE m.id \notin transfers
  <2>1. UNCHANGED <<transfers, toWindow>> BY <1>4 DEF HandleChunk, Request1
  <2> HIDE DEF m
  <2>2. FilesTyped' BY <1>1, <1>2, <2>1, HostTyped DEF FilesTyped
  <2> QED BY <1>2, <2>1, <2>2, PullsAside
<1>5. CASE m.id \in transfers
  <2>1. PICK a : Answers(a) /\ a \in {m, [type |-> "error", id |-> m.id]}
    BY <1>5 DEF HandleChunk, Request1, Fails
  <2>2. transfers' = IF m.last THEN transfers \ {m.id} ELSE transfers BY <1>5 DEF HandleChunk, Request1
  <2>3. a \in Answer /\ a.id = m.id /\ a.type \in {"chunk", "error"} /\ (m.last => Ends(a, m.id))
    <3>1. CASE a = m
      <4>1. m \in [type : {"chunk"}, id : Ids, last : BOOLEAN] BY <1>2 DEF Request
      <4> QED BY <4>1, <3>1, <1>2 DEF Answer, Ends
    <3>2. CASE a = [type |-> "error", id |-> m.id] BY <3>2, <1>3 DEF Answer, Ends
    <3> QED BY <3>1, <3>2, <2>1
  <2> HIDE DEF m
  <2>4. FilesTyped' BY <1>1, <1>2, <2>1, <2>2, <2>3, HostTyped DEF FilesTyped
  <2> SUFFICES ASSUME download # Nothing
               PROVE  /\ download.total = 0 => Unannounced(download.id)'
                      /\ download.total > 0 => BeingServed(download.id)'
    BY <1>2, <2>4 DEF PullsInv, window
  <2> DEFINE x == download.id
  <2>5. download.id' = x /\ fsDownloads' = fsDownloads BY <1>2 DEF window, relay
  <2> HIDE DEF x
  <2>6. /\ For(toHost', "chunk", x) => For(toHost, "chunk", x)
        /\ For(toHost', "download", x) => For(toHost, "download", x)
        /\ m.id = x => For(toHost, "chunk", x)
        /\ Newest(toHost, "download", x) => Newest(toHost', "download", x)
        /\ Carries(toHost', {"download"}) => Carries(toHost, {"download"})
    BY <1>1, <1>2, HostTakesFor DEF m
  <2>7. /\ For(toWindow', "chunk", x) => For(toWindow, "chunk", x) \/ m.id = x
        /\ For(toWindow', "ready", x) <=> For(toWindow, "ready", x)
        /\ Newest(toWindow, "ready", x) => Newest(toWindow', "ready", x)
        /\ Carries(toWindow', {"ready"}) <=> Carries(toWindow, {"ready"})
        /\ Ending(toWindow', x) <=> Ending(toWindow, x) \/ Ends(a, x)
    BY <1>1, <2>1, <2>3, AnswersFor
  <2>8. x \in transfers => x \in transfers' \/ (x = m.id /\ m.last) BY <2>2
  <2>9. ASSUME Unannounced(x) PROVE Unannounced(x)'
    <3>1. m.id # x BY <2>6, <2>9 DEF Unannounced
    <3> QED BY <2>5, <2>6, <2>7, <2>8, <2>9, <3>1 DEF Unannounced, x
  <2>10. ASSUME BeingServed(x) PROVE BeingServed(x)'
    BY <2>3, <2>5, <2>6, <2>7, <2>8, <2>10 DEF BeingServed, Ends, x
  <2> QED BY <2>5, <2>9, <2>10 DEF PullsInv, x
<1> QED BY <1>4, <1>5

LEMMA HearsTyped ==
  ASSUME FilesTyped, NEW m, Heard(m), toHost' = toHost \/ \E r \in Request : Sends(r),
         lists' \subseteq Ids, fsDownloads' \in Seq(Ids),
         download' # Nothing => download' \in Loading
  PROVE  FilesTyped'
<1>1. toHost' \in Seq(Request) BY SendsFor DEF FilesTyped
<1>2. toWindow' \in Seq(Answer) /\ UNCHANGED <<listing, reading, transfers, alone>> BY WindowTakesFor DEF Heard, host
<1> QED BY <1>1, <1>2 DEF FilesTyped

(* An answer that neither ends nor announces the download under way. *)
LEMMA PullsHears ==
  ASSUME PullsInv, NEW m, Heard(m), FilesTyped',
         download' # Nothing =>
           /\ download # Nothing /\ download'.id = download.id /\ download'.total = download.total
           /\ ~Ends(m, download.id)
           /\ download.id \in ToSet(fsDownloads) => download.id \in ToSet(fsDownloads'),
         toHost' = toHost \/ \E r \in Request : /\ Sends(r) /\ r.type # "download"
                                                /\ r.type = "chunk" => download.total > 0
  PROVE  PullsInv'
<1> SUFFICES ASSUME download' # Nothing
             PROVE  /\ download.total = 0 => Unannounced(download.id)'
                    /\ download.total > 0 => BeingServed(download.id)'
  BY DEF PullsInv
<1> DEFINE x == download.id
<1>1. FilesTyped /\ x' = x /\ UNCHANGED <<transfers, reading, listing>> BY DEF PullsInv, Heard, host
<1> HIDE DEF x
<1>2. /\ For(toHost', "chunk", x) => For(toHost, "chunk", x) \/ download.total > 0
      /\ For(toHost', "download", x) => For(toHost, "download", x)
      /\ Newest(toHost, "download", x) => Newest(toHost', "download", x)
      /\ Carries(toHost', {"download"}) => Carries(toHost, {"download"})
  <2>1. CASE toHost' = toHost BY <2>1
  <2>2. ASSUME NEW r \in Request, Sends(r), r.type # "download", r.type = "chunk" => download.total > 0
        PROVE  <1>2
    BY <1>1, <2>2, SendsFor
  <2> QED BY <2>1, <2>2
<1>3. /\ For(toWindow', "chunk", x) => For(toWindow, "chunk", x)
      /\ For(toWindow', "ready", x) => For(toWindow, "ready", x)
      /\ Newest(toWindow, "ready", x) => Newest(toWindow', "ready", x)
      /\ Carries(toWindow', {"ready"}) => Carries(toWindow, {"ready"})
      /\ Ending(toWindow, x) => Ending(toWindow', x) \/ Ends(m, x)
  BY <1>1, WindowTakesFor DEF Heard
<1>4. ASSUME download.total = 0 PROVE Unannounced(x)'
  <2>1. Unannounced(x) /\ ~(download.total > 0) BY <1>4 DEF PullsInv, x
  <2> QED BY <2>1, <1>1, <1>2, <1>3 DEF Unannounced
<1>5. ASSUME download.total > 0 PROVE BeingServed(x)'
  <2>1. BeingServed(x) BY <1>5 DEF PullsInv, x
  <2>2. x \in ToSet(fsDownloads) => x \in ToSet(fsDownloads)' BY DEF x
  <2>3. ~Ends(m, x) BY DEF x
  <2> QED BY <2>1, <2>2, <2>3, <1>1, <1>2, <1>3 DEF BeingServed
<1> QED BY <1>1, <1>4, <1>5 DEF x

(* The window lists, previews or renames, or everything it waits for is rejected. *)
LEMMA PullsHearsOther ==
  ASSUME PullsInv, NEW m, Heard(m), Listed(m) \/ Previewed(m) \/ Mutated(m) \/ Refused(m)
  PROVE  PullsInv'
<1>1. FilesTyped /\ m \in Answer BY WindowTakesFor DEF PullsInv, Heard
<1>2. m.id \in Ids BY <1>1 DEF Answer
<1>3. fsDownloads' = fsDownloads /\ fsDownloads' \in Seq(Ids)
  BY <1>1 DEF Listed, Previewed, Mutated, Refused, relay, FilesTyped
<1>4. CASE Refused(m)
  <2>1. download' = Nothing /\ lists' = {} /\ toHost' = toHost BY <1>4 DEF Refused, RejectAll
  <2>2. FilesTyped' BY <2>1, <1>1, <1>3, HearsTyped
  <2> QED BY <2>1, <2>2, PullsEnd
<1>5. CASE Listed(m) \/ Previewed(m) \/ Mutated(m)
  <2> DEFINE r == [type |-> "list", id |-> m.id, how |-> "same"]
  <2>1. r \in Request /\ r.type = "list" BY <1>2 DEF Request
  <2>2. toHost' = toHost \/ Sends(r) BY <1>5 DEF Listed, Previewed, Mutated, Navigate, SendsList
  <2> HIDE DEF r
  <2>3. download' = download /\ lists' \subseteq Ids /\ m.type \notin {"error", "chunk"}
    BY <1>1, <1>2, <1>5 DEF Listed, Previewed, Mutated, Navigate, FilesTyped
  <2>4. FilesTyped' BY <2>1, <2>2, <2>3, <1>1, <1>3, HearsTyped DEF FilesTyped
  <2> QED BY <2>1, <2>2, <2>3, <2>4, <1>3, PullsHears DEF Ends
<1> QED BY <1>4, <1>5

(* A pull keeps the queues and the records what they are meant to be. *)
LEMMA PullsTyped ==
  ASSUME FilesTyped, NEW m, Heard(m), NEW d \in Loading, NEW fs \in Seq(Ids), NEW used,
         Pulls(d, fs, used)
  PROVE  /\ FilesTyped' /\ fsDownloads' = fs
         /\ \/ download' = Nothing
            \/ download' = RequestChunk(d) /\ d.id \in ToSet(fs)
         /\ toHost' = toHost \/ \E r \in Request : Sends(r) /\ r.type = "chunk"
<1> DEFINE r == [type |-> "chunk", id |-> d.id, last |-> d.next = d.total - 1]
<1>1. r \in Request /\ r.type = "chunk" BY DEF Request, Loading
<1>2. toHost' = toHost \/ Sends(r) BY DEF Pulls
<1> HIDE DEF r
<1>3. /\ download' = Nothing \/ (download' = RequestChunk(d) /\ d.id \in ToSet(fs))
      /\ lists' \subseteq lists /\ fsDownloads' = fs
  BY DEF Pulls, RejectAll
<1>4. FilesTyped' BY <1>1, <1>2, <1>3, RequestChunkKeeps, HearsTyped DEF FilesTyped
<1> QED BY <1>1, <1>2, <1>3, <1>4

(* The download announced was registered with it, and is staged. *)
LEMMA PullsAnnounced ==
  ASSUME PullsInv, NEW m, Heard(m), Announced(m)
  PROVE  PullsInv'
<1>1. FilesTyped /\ m \in Answer /\ m.type = "ready" /\ Carries(toWindow, {"ready"})
  BY WindowTakesFor DEF PullsInv, Heard, Announced
<1>2. m.id \in Ids /\ m.total \in Nat \ {0} BY <1>1 DEF Answer
<1>3. fsDownloads \in Seq(Ids) BY <1>1 DEF FilesTyped
<1>4. Registered(m.id) \in Seq(Ids) /\ m.id \in ToSet(Registered(m.id)) BY <1>2, <1>3, RegisteredHolds
<1>5. download # Nothing => download.total = 0 /\ Unannounced(download.id)
  <2>1. download # Nothing => download.total \in Nat BY <1>1 DEF FilesTyped, Loading
  <2> QED BY <2>1, <1>1 DEF PullsInv, BeingServed
<1>6. CASE m.id \notin Current
  <2>1. UNCHANGED <<download, lists, toHost>> /\ fsDownloads' = Registered(m.id)
    BY <1>6 DEF Announced, window
  <2>2. FilesTyped' BY <2>1, <1>1, <1>4, HearsTyped DEF FilesTyped
  <2>3. CASE download = Nothing BY <2>1, <2>2, <2>3, PullsEnd
  <2>4. CASE download # Nothing
    <3> DEFINE x == download.id
    <3>1. Unannounced(x) /\ x' = x /\ UNCHANGED <<transfers, toHost>> BY <1>5, <2>1, <2>4 DEF Heard, host
    <3> HIDE DEF x
    <3>2. /\ For(toWindow', "chunk", x) => For(toWindow, "chunk", x)
          /\ For(toWindow', "ready", x) => For(toWindow, "ready", x)
          /\ Newest(toWindow, "ready", x) => Newest(toWindow', "ready", x)
      BY <1>1, WindowTakesFor DEF Heard
    <3>3. Unannounced(x)' BY <3>1, <3>2 DEF Unannounced
    <3>4. download'.total = 0 BY <1>5, <2>1, <2>4
    <3> QED BY <2>2, <3>3, <3>4 DEF PullsInv, x
  <2> QED BY <2>3, <2>4
<1>7. CASE m.id \in Current
  <2> DEFINE d == Sized(download, m.total)
  <2>1. download # Nothing /\ m.id = download.id BY <1>7 DEF Current
  <2>2. d \in Loading /\ d.id = m.id /\ d.total = m.total
    BY <1>1, <1>2, <2>1, ClearsKeep DEF FilesTyped
  <2>3. Pulls(d, Registered(m.id), fsChunkRequests) BY <1>7 DEF Announced, Sized
  <2> HIDE DEF d
  <2>4. /\ FilesTyped' /\ fsDownloads' = Registered(m.id)
        /\ download' = Nothing \/ download' = RequestChunk(d)
        /\ toHost' = toHost \/ \E r \in Request : Sends(r) /\ r.type = "chunk"
    BY <1>1, <1>4, <2>2, <2>3, PullsTyped
  <2>5. CASE download' = Nothing BY <2>4, <2>5, PullsEnd
  <2>6. CASE download' = RequestChunk(d)
    <3> DEFINE x == m.id
    <3>1. Unannounced(x) BY <1>5, <2>1
    <3>2. For(toWindow, "ready", x) /\ (Newest(toWindow, "ready", x) => ~Carries(toWindow', {"ready"}))
      BY <1>1, WindowTakesFor DEF Heard
    <3>3. ~Carries(toHost, {"download"}) /\ x \in transfers BY <3>1, <3>2 DEF Unannounced
    <3>4. ~Carries(toHost', {"download"})
      <4>1. ASSUME NEW r \in Request, Sends(r), r.type = "chunk" PROVE ~Carries(toHost', {"download"})
        BY <4>1, <3>3, <1>1, SendsFor
      <4> QED BY <4>1, <2>4, <3>3
    <3>5. transfers' = transfers BY DEF Heard, host
    <3>6. /\ ~Carries(toHost', {"download"}) /\ ~Carries(toWindow', {"ready"})
          /\ download'.id \in ToSet(fsDownloads') /\ download'.id \in transfers'
          /\ download'.total \in Nat \ {0}
      BY <1>2, <1>4, <2>2, <2>4, <2>6, <3>1, <3>2, <3>3, <3>4, <3>5, RequestChunkKeeps DEF Unannounced
    <3> QED BY <2>4, <3>6 DEF PullsInv, BeingServed
  <2> QED BY <2>4, <2>5, <2>6
<1> QED BY <1>6, <1>7

(* A slice that is not its last leaves the download as it is. *)
LEMMA PullsChunk ==
  ASSUME PullsInv, NEW m, Heard(m), Chunk(m)
  PROVE  PullsInv'
<1>1. FilesTyped /\ m \in Answer /\ m.type = "chunk" BY WindowTakesFor DEF PullsInv, Heard, Chunk
<1>2. m.id \in Ids BY <1>1 DEF Answer
<1>3. fsDownloads \in Seq(Ids) BY <1>1 DEF FilesTyped
<1>4. Forget(m.id) \in Seq(Ids) /\ ToSet(fsDownloads) \ {m.id} \subseteq ToSet(Forget(m.id))
  BY <1>2, <1>3, ForgetKeeps
<1>5. download # Nothing /\ m.id = download.id => download.total > 0 /\ m.id \in ToSet(fsDownloads)
  <2> SUFFICES ASSUME download # Nothing, m.id = download.id
               PROVE  download.total > 0 /\ m.id \in ToSet(fsDownloads)
    OBVIOUS
  <2>1. For(toWindow, "chunk", m.id) BY <1>1, WindowTakesFor DEF Heard
  <2>2. download.total \in Nat BY <1>1 DEF FilesTyped, Loading
  <2> QED BY <2>1, <2>2 DEF PullsInv, Unannounced, BeingServed
<1>6. CASE m.id \notin ToSet(fsDownloads)
  <2>1. UNCHANGED <<download, lists, toHost, fsDownloads>> BY <1>6 DEF Chunk, window, relay
  <2>2. FilesTyped' BY <2>1, <1>1, <1>3, HearsTyped DEF FilesTyped
  <2> QED BY <2>1, <2>2, <1>5, <1>6, PullsHears DEF Ends
<1>7. CASE m.id \in ToSet(fsDownloads) /\ m.id \notin Current
  <2>1. UNCHANGED <<download, lists, toHost>> /\ fsDownloads' \in {fsDownloads, Forget(m.id)}
    BY <1>7 DEF Chunk, window
  <2>2. FilesTyped' BY <2>1, <1>1, <1>3, <1>4, HearsTyped DEF FilesTyped
  <2>3. download # Nothing => download.id # m.id BY <1>7 DEF Current
  <2> QED BY <2>1, <2>2, <2>3, <1>4, PullsHears DEF Ends
<1>8. CASE m.id \in ToSet(fsDownloads) /\ m.id \in Current /\ m.last
  <2>1. UNCHANGED <<lists, toHost>> /\ fsDownloads' = Forget(m.id) /\ download' = Nothing
    BY <1>8 DEF Chunk
  <2>2. FilesTyped' BY <2>1, <1>1, <1>4, HearsTyped DEF FilesTyped
  <2> QED BY <2>1, <2>2, PullsEnd
<1>9. CASE m.id \in ToSet(fsDownloads) /\ m.id \in Current /\ ~m.last
  <2> DEFINE d == Moved(download)
  <2>1. download # Nothing /\ m.id = download.id BY <1>9 DEF Current
  <2>2. d \in Loading /\ d.id = download.id /\ d.total = download.total
    BY <1>1, <2>1, ClearsKeep DEF FilesTyped
  <2>3. Pulls(d, fsDownloads, Shifted) BY <1>9 DEF Chunk, Moved
  <2> HIDE DEF d
  <2>4. /\ FilesTyped' /\ fsDownloads' = fsDownloads
        /\ download' = Nothing \/ download' = RequestChunk(d)
        /\ toHost' = toHost \/ \E r \in Request : Sends(r) /\ r.type = "chunk"
    BY <1>1, <1>3, <2>2, <2>3, PullsTyped
  <2>5. ~Ends(m, download.id) BY <1>1, <1>9 DEF Ends
  <2>6. download.total > 0 BY <1>5, <2>1
  <2>7. RequestChunk(d).id = d.id /\ RequestChunk(d).total = d.total BY <2>2, RequestChunkKeeps
  <2> QED BY <2>1, <2>2, <2>4, <2>5, <2>6, <2>7, PullsHears
<1> QED BY <1>6, <1>7, <1>8, <1>9

LEMMA PullsStep ==
  ASSUME PullsInv, [FilesNext]_filesVars
  PROVE  PullsInv'
<1>1. CASE Dialog BY <1>1, PullsDialog
<1>2. CASE TimesOut \/ ChunkRequestExpires \/ UNCHANGED filesVars BY <1>2, PullsTimesOut
<1>3. CASE HostHandles
  BY <1>3, PullsHostLists, PullsHostPicks, PullsHostStages, PullsHostSends DEF HostHandles
<1>4. CASE WindowHears
  <2> DEFINE m == Head(toWindow)
  <2>1. Heard(m) BY <1>4 DEF WindowHears, Heard
  <2>2. Listed(m) \/ Previewed(m) \/ Mutated(m) \/ Announced(m) \/ Chunk(m) \/ Refused(m)
    BY <1>4 DEF WindowHears
  <2> HIDE DEF m
  <2> QED BY <2>1, <2>2, PullsHearsOther, PullsAnnounced, PullsChunk
<1>5. CASE HostReconnects
  <2>1. /\ reading' = {} /\ toHost' = <<>> /\ toWindow' = <<>> /\ listing' = Nothing /\ lists' = {}
        /\ transfers' = {} /\ download' = Nothing /\ fsDownloads' = fsDownloads /\ alone' = alone
    BY <1>5 DEF HostReconnects, RejectAll, relay
  <2>2. FilesTyped' BY <2>1 DEF PullsInv, FilesTyped
  <2> QED BY <2>1, <2>2, PullsEnd
<1>6. CASE \E id \in Ids : HerdrAnswers(id) BY <1>6, PullsHostLists
<1> QED BY <1>1, <1>2, <1>3, <1>4, <1>5, <1>6 DEF FilesNext

LEMMA PullsAreServed == PullsInv => PullsServed
<1> SUFFICES ASSUME PullsInv, download # Nothing, download.total > 0
             PROVE  /\ download.id \in ToSet(fsDownloads)
                    /\ \/ download.id \in transfers
                       \/ \E i \in DOMAIN toWindow :
                            /\ toWindow[i].id = download.id
                            /\ toWindow[i].type = "error" \/ (toWindow[i].type = "chunk" /\ toWindow[i].last)
  BY DEF PullsServed
<1>1. DOMAIN toWindow = 1 .. Len(toWindow) BY DEF PullsInv, FilesTyped
<1> QED BY <1>1 DEF PullsInv, BeingServed, Ending, Ends

(* A rename, a delete or a download is carried out in the directory the window       *)
(* showed when the entry was picked, if that was listed alone.  The workstation looks *)
(* a name up in the stream's listing (host-files.ts: preview, rename, remove,         *)
(* download), and whatever the dialog asks for afterwards, alone or not, comes after  *)
(* the pick: no listing has replaced that one in between.                             *)
THEOREM ShownIsMeantHolds == FilesSpec => []ShownIsMeant
<1>1. FilesInit => FilesInv BY InitFiles
<1>2. FilesInv /\ [FilesNext]_filesVars => FilesInv' BY StepFiles
<1>3. FilesInv => ShownIsMeant BY RowsAreMeant
<1> QED BY <1>1, <1>2, <1>3, PTL DEF FilesSpec

(* What the window pulls stays registered at the relay (fs-proxy.ts, fsDownloads) and *)
(* staged at the workstation (host-files.ts, transfers and sweep) until its last slice *)
(* or an error is on its way, whatever the dialog is doing meanwhile.                  *)
THEOREM PullsServedHolds == FilesSpec => []PullsServed
<1>1. FilesInit => PullsInv BY InitPulls
<1>2. PullsInv /\ [FilesNext]_filesVars => PullsInv' BY PullsStep
<1>3. PullsInv => PullsServed BY PullsAreServed
<1> QED BY <1>1, <1>2, <1>3, PTL DEF FilesSpec

-----------------------------------------------------------------------------
(* Slices one at a time. The window pulls a slice when the one before it has come,  *)
(* so of the download under way one pull or slice at most is on its way, and it is  *)
(* the last exactly when the slice waited for is.                                   *)
Slice(m, x) == m.type = "chunk" /\ m.id = x
Single(q, x, last) ==
  /\ \A i, j \in 1 .. Len(q) : Slice(q[i], x) /\ Slice(q[j], x) => i = j
  /\ \A i \in 1 .. Len(q) : Slice(q[i], x) => q[i].last = last
OneSlice(out, back, x, last) ==
  /\ Single(out, x, last) /\ Single(back, x, last)
  /\ ~(For(out, "chunk", x) /\ For(back, "chunk", x))

SlicesInTurn ==
  download # Nothing =>
    /\ download.total = 0 => download.next = 0
    /\ download.total > 0 =>
         /\ download.next < download.total
         /\ OneSlice(toHost, toWindow, download.id, download.next = download.total - 1)

LEMMA AppendSingle ==
  ASSUME NEW S, NEW q \in Seq(S), NEW m \in S, NEW x, NEW last, Single(q, x, last),
         Slice(m, x) => ~For(q, "chunk", x) /\ m.last = last
  PROVE  /\ Single(Append(q, m), x, last)
         /\ For(Append(q, m), "chunk", x) <=> For(q, "chunk", x) \/ Slice(m, x)
<1> DEFINE p == Append(q, m)
<1>1. Len(p) = Len(q) + 1 /\ Len(q) \in Nat /\ (\A i \in 1 .. Len(q) : p[i] = q[i]) /\ p[Len(q) + 1] = m
  OBVIOUS
<1> HIDE DEF p
<1>2. \A i \in 1 .. Len(q) : Slice(m, x) => ~Slice(q[i], x) BY DEF For, Slice
<1> HIDE DEF Slice
<1>3. Single(p, x, last) BY <1>1, <1>2 DEF Single
<1>4. For(p, "chunk", x) <=> For(q, "chunk", x) \/ Slice(m, x) BY <1>1 DEF For, Slice
<1> QED BY <1>3, <1>4 DEF p

LEMMA TailSingle ==
  ASSUME NEW S, NEW q \in Seq(S), q # <<>>, NEW x, NEW last, Single(q, x, last)
  PROVE  /\ Single(Tail(q), x, last)
         /\ For(Tail(q), "chunk", x) => For(q, "chunk", x)
         /\ Slice(Head(q), x) => ~For(Tail(q), "chunk", x) /\ For(q, "chunk", x) /\ Head(q).last = last
<1> DEFINE p == Tail(q)
<1>1. /\ Len(q) \in Nat \ {0} /\ Len(p) = Len(q) - 1
      /\ \A i \in 1 .. Len(p) : p[i] = q[i + 1] /\ i + 1 \in 1 .. Len(q)
      /\ Head(q) = q[1] /\ 1 \in 1 .. Len(q)
  OBVIOUS
<1> HIDE DEF p
<1>2. Single(p, x, last)
  <2>1. \A i, j \in 1 .. Len(p) : Slice(p[i], x) /\ Slice(p[j], x) => i + 1 = j + 1
    BY <1>1 DEF Single
  <2>2. \A i \in 1 .. Len(p) : Slice(p[i], x) => p[i].last = last BY <1>1 DEF Single
  <2> QED BY <1>1, <2>1, <2>2 DEF Single
<1>3. For(p, "chunk", x) => For(q, "chunk", x) BY <1>1 DEF For
<1>4. ASSUME Slice(Head(q), x)
      PROVE  ~For(p, "chunk", x) /\ For(q, "chunk", x) /\ Head(q).last = last
  <2>1. \A i \in 1 .. Len(p) : ~Slice(p[i], x)
    <3>1. \A i \in 1 .. Len(p) : Slice(p[i], x) => i + 1 = 1 BY <1>1, <1>4 DEF Single
    <3> QED BY <1>1, <3>1
  <2>2. ~For(p, "chunk", x) BY <2>1 DEF For, Slice
  <2>3. For(q, "chunk", x) /\ Head(q).last = last BY <1>1, <1>4 DEF For, Slice, Single
  <2> QED BY <2>2, <2>3
<1> QED BY <1>2, <1>3, <1>4 DEF p

LEMMA NoneSingle ==
  ASSUME NEW q, NEW x, NEW last, ~For(q, "chunk", x)
  PROVE  Single(q, x, last)
  BY DEF For, Single, Slice

(* A queue in which no slice of x appears that was not there. *)
LEMMA StaysSingle ==
  ASSUME NEW S, NEW q \in Seq(S), NEW p, NEW x, NEW last, Single(q, x, last),
         p = q \/ (q # <<>> /\ p = Tail(q)) \/ \E m \in S : p = Append(q, m) /\ ~Slice(m, x)
  PROVE  Single(p, x, last) /\ (For(p, "chunk", x) => For(q, "chunk", x))
<1>1. CASE p = q BY <1>1
<1>2. CASE q # <<>> /\ p = Tail(q) BY <1>2, TailSingle
<1>3. ASSUME NEW m \in S, p = Append(q, m), ~Slice(m, x) PROVE Single(p, x, last) /\ (For(p, "chunk", x) => For(q, "chunk", x))
  BY <1>3, AppendSingle
<1> QED BY <1>1, <1>2, <1>3

(* A step that has nothing to do with the slices of the download under way. *)
LEMMA TurnAside ==
  ASSUME PullsInv, SlicesInTurn, download' # Nothing => download' = download,
         toHost' = toHost \/ (toHost # <<>> /\ toHost' = Tail(toHost))
           \/ \E m \in Request : toHost' = Append(toHost, m) /\ ~Slice(m, download.id),
         toWindow' = toWindow \/ (toWindow # <<>> /\ toWindow' = Tail(toWindow))
           \/ \E m \in Answer : toWindow' = Append(toWindow, m) /\ ~Slice(m, download.id)
  PROVE  SlicesInTurn'
<1> SUFFICES ASSUME download' # Nothing, download.total > 0
             PROVE  OneSlice(toHost', toWindow', download.id, download.next = download.total - 1)
  BY DEF SlicesInTurn
<1> DEFINE x == download.id
           last == download.next = download.total - 1
<1>1. OneSlice(toHost, toWindow, x, last) BY DEF SlicesInTurn
<1>2. toHost \in Seq(Request) /\ toWindow \in Seq(Answer) BY DEF PullsInv, FilesTyped
<1> HIDE DEF last
<1>3. Single(toHost', x, last) /\ (For(toHost', "chunk", x) => For(toHost, "chunk", x))
  BY <1>1, <1>2, StaysSingle DEF OneSlice
<1>4. Single(toWindow', x, last) /\ (For(toWindow', "chunk", x) => For(toWindow, "chunk", x))
  BY <1>1, <1>2, StaysSingle DEF OneSlice
<1> QED BY <1>1, <1>3, <1>4 DEF OneSlice, last

LEMMA TurnDialog ==
  ASSUME PullsInv, SlicesInTurn, Dialog
  PROVE  SlicesInTurn'
<1>1. ASSUME NEW id \in Ids, NEW how \in {"current", "same", "step"}, Browse(id, how) PROVE SlicesInTurn'
  <2> DEFINE r == [type |-> "list", id |-> id, how |-> how]
  <2>1. r \in Request /\ ~Slice(r, download.id) BY DEF Request, Slice
  <2>2. UNCHANGED <<toWindow, download>> /\ (toHost' = toHost \/ toHost' = Append(toHost, r))
    BY <1>1 DEF Browse, Navigate, SendsList, Sends
  <2> HIDE DEF r
  <2> QED BY <2>1, <2>2, TurnAside
<1>2. ASSUME NEW id \in Ids, Preview(id) \/ Mutate(id) PROVE SlicesInTurn'
  <2>1. PICK type \in {"preview", "mutation"} : Pick(id, type) BY <1>2 DEF Preview, Mutate
  <2> DEFINE r == [type |-> type, id |-> id, shown |-> view, sure |-> alone]
  <2>4. alone \in BOOLEAN BY DEF PullsInv, FilesTyped
  <2>2. r \in Request /\ ~Slice(r, download.id) BY <2>1, <2>4 DEF Request, Pick, Slice
  <2>3. UNCHANGED <<toWindow, download>> /\ toHost' = Append(toHost, r)
    BY <1>2, <2>1 DEF Pick, Preview, Mutate, Sends
  <2> HIDE DEF r
  <2> QED BY <2>2, <2>3, TurnAside
<1>3. ASSUME NEW id \in Ids, StartDownload(id) PROVE SlicesInTurn'
  BY <1>3 DEF StartDownload, SlicesInTurn
<1> QED BY <1>1, <1>2, <1>3 DEF Dialog

(* The workstation sends the slice pulled in the place of the pull, or an error. *)
LEMMA TurnHost ==
  ASSUME PullsInv, SlicesInTurn, HostHandles \/ \E id \in Ids : HerdrAnswers(id)
  PROVE  SlicesInTurn'
<1>0. FilesTyped BY DEF PullsInv
<1>1. ASSUME NEW id \in Ids, HerdrAnswers(id) PROVE SlicesInTurn'
  <2>1. UNCHANGED <<toHost, download>> /\ Lists(id, "current") BY <1>1 DEF HerdrAnswers, window
  <2>2. \E a \in Answer : Answers(a) /\ a.type \in {"error", "listed"} BY <2>1, <1>0, ListsAnswers
  <2>3. \E a \in Answer : toWindow' = Append(toWindow, a) /\ ~Slice(a, download.id)
    BY <2>2 DEF Answers, Slice
  <2> QED BY <2>1, <2>3, TurnAside
<1>2. CASE HostHandles
  <2> DEFINE m == Head(toHost)
  <2>1. toHost # <<>> /\ toHost' = Tail(toHost) /\ download' = download /\ m \in Request /\ m.id \in Ids
    <3>1. toHost # <<>> /\ toHost' = Tail(toHost) /\ download' = download BY <1>2 DEF HostHandles, window
    <3>2. m \in Request BY <3>1, <1>0, HostTakesFor
    <3> QED BY <3>1, <3>2 DEF Request
  <2>2. ASSUME HandleList \/ HandlePick \/ HandleDownload PROVE SlicesInTurn'
    <3>1. /\ \A id \in Ids : [type |-> "error", id |-> id] \in Answer
          /\ \A id \in Ids, type \in {"preview", "mutation"} : [type |-> type, id |-> id] \in Answer
          /\ \A id \in Ids, n \in 1 .. MaxSlices : [type |-> "ready", id |-> id, total |-> n] \in Answer
      BY DEF Answer
    <3>2. toWindow' = toWindow \/ \E a \in Answer : Answers(a) /\ a.type # "chunk"
      <4>1. CASE HandleList
        <5>1. CASE m.how = "current" BY <4>1, <5>1 DEF HandleList, Request1
        <5>2. CASE m.how # "current" /\ listing # Nothing
          <6>1. Lists(m.id, m.how) BY <4>1, <5>2 DEF HandleList, Request1
          <6> HIDE DEF m
          <6>2. \E a \in Answer : Answers(a) /\ a.type \in {"error", "listed"}
            BY <6>1, <5>2, <1>0, <2>1, ListsAnswers
          <6> QED BY <6>2
        <5>3. CASE m.how # "current" /\ listing = Nothing
          <6>1. Fails(m.id) BY <4>1, <5>3 DEF HandleList, Request1
          <6> QED BY <6>1, <2>1, <3>1 DEF Fails
        <5> QED BY <5>1, <5>2, <5>3
      <4>2. CASE HandlePick
        <5>1. Fails(m.id) \/ (m.type \in {"preview", "mutation"} /\ Answers([type |-> m.type, id |-> m.id]))
          BY <4>2 DEF HandlePick, Request1
        <5> HIDE DEF m
        <5> QED BY <5>1, <2>1, <3>1 DEF Fails
      <4>3. CASE HandleDownload
        <5>1. Fails(m.id) \/ \E n \in 1 .. MaxSlices : Answers([type |-> "ready", id |-> m.id, total |-> n])
          BY <4>3 DEF HandleDownload, Request1
        <5> HIDE DEF m
        <5> QED BY <5>1, <2>1, <3>1 DEF Fails
      <4> QED BY <2>2, <4>1, <4>2, <4>3
    <3>3. toWindow' = toWindow \/ \E a \in Answer : toWindow' = Append(toWindow, a) /\ ~Slice(a, download.id)
      BY <3>2 DEF Answers, Slice
    <3> HIDE DEF m
    <3> QED BY <2>1, <3>3, TurnAside
  <2>3. ASSUME HandleChunk PROVE SlicesInTurn'
    <3>0. m.type = "chunk" BY <2>3 DEF HandleChunk, Request1
    <3>1. toWindow' = toWindow \/ Answers(m) \/ Answers([type |-> "error", id |-> m.id])
      BY <2>3 DEF HandleChunk, Request1, Fails
    <3>2. m \in Answer
      <4>1. m \in [type : {"chunk"}, id : Ids, last : BOOLEAN] BY <2>1, <3>0 DEF Request
      <4> QED BY <4>1 DEF Answer
    <3>3. [type |-> "error", id |-> m.id] \in Answer /\ ~Slice([type |-> "error", id |-> m.id], download.id)
      BY <2>1 DEF Answer, Slice
    <3>4. CASE toWindow' = toWindow BY <2>1, <3>4, TurnAside
    <3>5. CASE Answers([type |-> "error", id |-> m.id])
      <4> DEFINE a == [type |-> "error", id |-> m.id]
      <4>1. a \in Answer /\ ~Slice(a, download.id) /\ toWindow' = Append(toWindow, a) BY <3>3, <3>5 DEF Answers
      <4> HIDE DEF a, m
      <4> QED BY <2>1, <4>1, TurnAside
    <3>6. CASE Answers(m) /\ ~Slice(m, download.id)
      <4>1. toWindow' = Append(toWindow, m) BY <3>6 DEF Answers
      <4> HIDE DEF m
      <4> QED BY <2>1, <3>2, <3>6, <4>1, TurnAside
    <3>7. CASE Answers(m) /\ Slice(m, download.id)
      <4> SUFFICES ASSUME download # Nothing, download.total > 0
                   PROVE  OneSlice(toHost', toWindow', download.id, download.next = download.total - 1)
        BY <2>1 DEF SlicesInTurn
      <4> DEFINE x == download.id
                 last == download.next = download.total - 1
      <4>1. OneSlice(toHost, toWindow, x, last) BY DEF SlicesInTurn
      <4>2. toHost \in Seq(Request) /\ toWindow \in Seq(Answer) BY <1>0 DEF FilesTyped
      <4> HIDE DEF last, x
      <4>3. Slice(m, x) BY <3>7 DEF x
      <4>4. Single(toHost', x, last) /\ ~For(toHost', "chunk", x) /\ For(toHost, "chunk", x) /\ m.last = last
        BY <2>1, <4>1, <4>2, <4>3, TailSingle DEF OneSlice
      <4>5. ~For(toWindow, "chunk", x) BY <4>1, <4>4 DEF OneSlice
      <4>6. toWindow' = Append(toWindow, m) BY <3>7 DEF Answers
      <4> HIDE DEF m
      <4>7. Single(toWindow', x, last)
        BY <3>2, <4>1, <4>2, <4>4, <4>5, <4>6, AppendSingle DEF OneSlice
      <4> QED BY <4>4, <4>7 DEF OneSlice, x, last
    <3> QED BY <3>1, <3>4, <3>5, <3>6, <3>7
  <2> QED BY <1>2, <2>2, <2>3 DEF HostHandles
<1> QED BY <1>1, <1>2

(* The next pull is sent, or not, when no other pull or slice is on its way. *)
LEMMA TurnPulls ==
  ASSUME FilesTyped, NEW d \in Loading, NEW fs, NEW used,
         Pulls(d, fs, used), d.next < d.total,
         ~For(toHost, "chunk", d.id), ~For(toWindow', "chunk", d.id)
  PROVE  SlicesInTurn'
<1> SUFFICES ASSUME download' # Nothing PROVE SlicesInTurn' BY DEF SlicesInTurn
<1> DEFINE last == d.next = d.total - 1
           r == [type |-> "chunk", id |-> d.id, last |-> last]
<1>1. download' = RequestChunk(d) /\ (toHost' = toHost \/ toHost' = Append(toHost, r)) BY DEF Pulls, RejectAll, Sends
<1>2. r \in Request /\ r.type = "chunk" /\ r.last = last BY DEF Request, Loading
<1> HIDE DEF last, r
<1>3. toHost \in Seq(Request) BY DEF FilesTyped
<1>4. Single(toHost, d.id, last) /\ Single(toWindow', d.id, last) BY NoneSingle
<1>5. Single(toHost', d.id, last) BY <1>1, <1>2, <1>3, <1>4, AppendSingle
<1>6. OneSlice(toHost', toWindow', d.id, last) BY <1>4, <1>5 DEF OneSlice
<1>7. d.total \in Nat /\ d.next \in Nat /\ ~(d.total = 0) BY DEF Loading
<1>8. download'.id = d.id /\ download'.total = d.total /\ download'.next = d.next BY <1>1, RequestChunkKeeps
<1> QED BY <1>6, <1>7, <1>8 DEF SlicesInTurn, last

LEMMA TurnAnnounced ==
  ASSUME PullsInv, SlicesInTurn, NEW m, Heard(m), Announced(m)
  PROVE  SlicesInTurn'
<1>1. FilesTyped /\ m \in Answer /\ m.type = "ready" /\ Carries(toWindow, {"ready"})
  BY WindowTakesFor DEF PullsInv, Heard, Announced
<1>2. m.total \in Nat \ {0} BY <1>1 DEF Answer
<1>3. CASE m.id \notin Current
  BY <1>3, TurnAside DEF Announced, Heard, window
<1>4. CASE m.id \in Current
  <2> DEFINE d == Sized(download, m.total)
  <2>1. download # Nothing /\ m.id = download.id BY <1>4 DEF Current
  <2>2. download \in Loading BY <1>1, <2>1 DEF FilesTyped
  <2>3. download.total = 0 /\ Unannounced(m.id) /\ download.next = 0
    BY <2>1, <2>2, <1>1 DEF PullsInv, BeingServed, SlicesInTurn, Loading
  <2>4. d \in Loading /\ d.id = m.id /\ d.next < d.total
    BY <1>2, <2>1, <2>2, <2>3, ClearsKeep
  <2>5. Pulls(d, Registered(m.id), fsChunkRequests) BY <1>4 DEF Announced, Sized
  <2> HIDE DEF d
  <2>6. ~For(toHost, "chunk", m.id) /\ ~For(toWindow', "chunk", m.id)
    BY <2>3, <1>1, WindowTakesFor DEF Unannounced, Heard
  <2> QED BY <1>1, <2>4, <2>5, <2>6, TurnPulls
<1> QED BY <1>3, <1>4

(* A slice heard leaves none behind it, so that the next can be pulled. *)
LEMMA TurnChunk ==
  ASSUME PullsInv, SlicesInTurn, NEW m, Heard(m), Chunk(m)
  PROVE  SlicesInTurn'
<1>1. FilesTyped /\ m \in Answer /\ m.type = "chunk" BY WindowTakesFor DEF PullsInv, Heard, Chunk
<1>2. CASE m.id \notin ToSet(fsDownloads) \/ m.id \notin Current
  <2>1. download' = download /\ toHost' = toHost BY <1>2 DEF Chunk, window
  <2> QED BY <2>1, TurnAside DEF Heard
<1>3. CASE m.id \in ToSet(fsDownloads) /\ m.id \in Current /\ m.last
  BY <1>3 DEF Chunk, SlicesInTurn
<1>4. CASE m.id \in ToSet(fsDownloads) /\ m.id \in Current /\ ~m.last
  <2> DEFINE d == Moved(download)
             x == download.id
             last == download.next = download.total - 1
  <2>1. download # Nothing /\ m.id = x BY <1>4 DEF Current
  <2>2. download \in Loading BY <1>1, <2>1 DEF FilesTyped
  <2>3. For(toWindow, "chunk", x) BY <1>1, <2>1, WindowTakesFor DEF Heard
  <2>4. download.total > 0 BY <2>1, <2>2, <2>3 DEF PullsInv, Unannounced, Loading
  <2>5. download.next < download.total /\ OneSlice(toHost, toWindow, x, last)
    BY <2>1, <2>4 DEF SlicesInTurn
  <2>6. d \in Loading /\ d.id = x /\ d.total = download.total
        /\ d.next = download.next + 1
    BY <2>2, ClearsKeep
  <2>7. Pulls(d, fsDownloads, Shifted) BY <1>4 DEF Chunk, Moved
  <2> HIDE DEF d
  <2>8. toWindow \in Seq(Answer) BY <1>1 DEF FilesTyped
  <2>9. Slice(m, x) BY <1>1, <2>1 DEF Slice
  <2> HIDE DEF x
  <2>10. m.last = last /\ ~For(toWindow', "chunk", x)
    <3> HIDE DEF last
    <3> QED BY <2>5, <2>8, <2>9, TailSingle DEF Heard, OneSlice
  <2>11. ~For(toHost, "chunk", x) BY <2>3, <2>5 DEF OneSlice
  <2>12. ~last BY <1>4, <2>10
  <2>13. d.next < d.total BY <2>2, <2>5, <2>6, <2>12 DEF Loading
  <2> QED BY <1>1, <2>6, <2>7, <2>10, <2>11, <2>13, TurnPulls
<1> QED BY <1>2, <1>3, <1>4

LEMMA TurnHears ==
  ASSUME PullsInv, SlicesInTurn, WindowHears
  PROVE  SlicesInTurn'
<1> DEFINE m == Head(toWindow)
<1>1. Heard(m) BY DEF WindowHears, Heard
<1>2. Listed(m) \/ Previewed(m) \/ Mutated(m) \/ Announced(m) \/ Chunk(m) \/ Refused(m) BY DEF WindowHears
<1> HIDE DEF m
<1>3. CASE Refused(m) BY <1>3 DEF Refused, RejectAll, SlicesInTurn
<1>4. CASE Listed(m) \/ Previewed(m) \/ Mutated(m)
  <2> DEFINE r == [type |-> "list", id |-> m.id, how |-> "same"]
  <2>1. m \in Answer BY <1>1, WindowTakesFor DEF PullsInv, Heard
  <2>2. r \in Request /\ ~Slice(r, download.id) BY <2>1 DEF Answer, Request, Slice
  <2>3. toHost' = toHost \/ toHost' = Append(toHost, r)
    BY <1>4 DEF Listed, Previewed, Mutated, Navigate, SendsList, Sends
  <2>4. download' = download BY <1>4 DEF Listed, Previewed, Mutated
  <2> HIDE DEF r
  <2> QED BY <1>1, <2>2, <2>3, <2>4, TurnAside DEF Heard
<1> QED BY <1>1, <1>2, <1>3, <1>4, TurnAnnounced, TurnChunk

LEMMA TurnStep ==
  ASSUME PullsInv, SlicesInTurn, [FilesNext]_filesVars
  PROVE  SlicesInTurn'
<1>1. CASE TimesOut \/ ChunkRequestExpires \/ UNCHANGED filesVars
  <2>1. UNCHANGED <<toHost, toWindow>> /\ (download' # Nothing => download' = download)
    BY <1>1 DEF TimesOut, ChunkRequestExpires, filesVars, ListTimesOut, PreviewTimesOut, MutationTimesOut,
                ReadyTimesOut, SliceTimesOut, RejectDownload, window
  <2> QED BY <2>1, TurnAside
<1>2. CASE HostReconnects BY <1>2 DEF HostReconnects, RejectAll, SlicesInTurn
<1> QED BY <1>1, <1>2, TurnDialog, TurnHost, TurnHears DEF FilesNext

(* A window pulls a slice only when the one before it has come (useHostFiles.ts,      *)
(* the loop that awaits each requestChunk): no two pulls or slices of a download are  *)
(* ever on their way, and it asks for none past the last.                            *)
THEOREM PullsInTurn == FilesSpec => []SlicesInTurn
<1>1. FilesInit => PullsInv /\ SlicesInTurn BY InitPulls DEF FilesInit, SlicesInTurn
<1>2. PullsInv /\ SlicesInTurn /\ [FilesNext]_filesVars => (PullsInv /\ SlicesInTurn)'
  BY PullsStep, TurnStep
<1> QED BY <1>1, <1>2, PTL DEF FilesSpec

(* What the types say beyond FilesTyped: the relay's cap on the transfers and the   *)
(* pulls of a window, and the total announced.                                      *)
FilesBounded ==
  /\ view \in Dirs \cup {"loading", "error"} /\ previews \subseteq Ids /\ mutation \in Ids \cup {Nothing}
  /\ Len(fsDownloads) <= MaxTransfers /\ fsChunkRequests \in 0 .. MaxChunks
  /\ download # Nothing => download.total <= MaxSlices

LEMMA ForgetShrinks ==
  ASSUME fsDownloads \in Seq(Ids), NEW id \in Ids
  PROVE  Len(Forget(id)) <= Len(fsDownloads)
<1> DEFINE q == fsDownloads
           k == CHOOSE i \in DOMAIN q : q[i] = id
<1>1. CASE id \notin ToSet(q) BY <1>1 DEF Forget
<1>2. CASE id \in ToSet(q)
  <2>1. k \in 1 .. Len(q) /\ q \in Seq(Ids)
    <3> \E i \in DOMAIN q : q[i] = id BY <1>2 DEF ToSet
    <3> QED OBVIOUS
  <2>2. Forget(id) = SubSeq(q, 1, k - 1) \o SubSeq(q, k + 1, Len(q))
    BY <1>2 DEF Forget, RemoveAt
  <2> HIDE DEF k, q
  <2> DEFINE p == SubSeq(q, 1, k - 1)
             r == SubSeq(q, k + 1, Len(q))
  <2>3. p \in Seq(Ids) /\ Len(p) = k - 1 /\ r \in Seq(Ids) /\ Len(r) = Len(q) - k
    BY <2>1
  <2> HIDE DEF p, r
  <2>4. Len(p \o r) = Len(p) + Len(r) BY <2>3
  <2>5. Len(q) \in Nat BY <2>1
  <2>6. Forget(id) = p \o r BY <2>2 DEF p, r
  <2>7. Len(p) + Len(r) <= Len(q) BY <2>1, <2>3, <2>5
  <2>8. Len(Forget(id)) <= Len(q) BY <2>4, <2>6, <2>7
  <2> QED BY <2>8 DEF q
<1> QED BY <1>1, <1>2

LEMMA RegisteredFits ==
  ASSUME fsDownloads \in Seq(Ids), NEW id \in Ids, Len(fsDownloads) <= MaxTransfers
  PROVE  Len(Registered(id)) <= MaxTransfers
<1> DEFINE f == Forget(id)
           all == Append(f, id)
<1>1. f \in Seq(Ids) /\ Len(f) <= Len(fsDownloads) BY ForgetKeeps, ForgetShrinks
<1> HIDE DEF f
<1>2. all \in Seq(Ids) /\ Len(all) = Len(f) + 1 /\ Len(f) \in Nat /\ Len(fsDownloads) \in Nat BY <1>1
<1>3. MaxTransfers \in Nat \ {0} BY FilesAssumption
<1> HIDE DEF all
<1>4. CASE Len(all) > MaxTransfers
  <2>1. all # <<>> BY <1>2, <1>3, <1>4
  <2>2. Len(Tail(all)) = Len(all) - 1 BY <2>1, <1>2
  <2>3. Registered(id) = Tail(all) BY <1>4 DEF Registered, all, f
  <2> QED BY <2>2, <2>3, <1>1, <1>2, <1>3
<1>5. CASE ~(Len(all) > MaxTransfers)
  <2>1. Registered(id) = all BY <1>5 DEF Registered, all, f
  <2> QED BY <2>1, <1>2, <1>3, <1>5
<1> QED BY <1>4, <1>5

(* Steps that leave the relay's records alone, but for a pull it forgets. *)
LEMMA BoundedAside ==
  ASSUME FilesBounded, fsDownloads' = fsDownloads,
         fsChunkRequests' = fsChunkRequests \/ (fsChunkRequests > 0 /\ fsChunkRequests' = fsChunkRequests - 1),
         view' \in Dirs \cup {"loading", "error"}, previews' \subseteq Ids, mutation' \in Ids \cup {Nothing},
         download' # Nothing => download'.total = 0 \/ download' = download
  PROVE  FilesBounded'
<1>1. MaxChunks \in Nat /\ MaxSlices \in Nat BY FilesAssumption
<1>2. fsChunkRequests' \in 0 .. MaxChunks BY <1>1 DEF FilesBounded
<1>3. download' # Nothing => download'.total <= MaxSlices BY <1>1 DEF FilesBounded
<1> QED BY <1>2, <1>3 DEF FilesBounded

LEMMA BoundedDialog ==
  ASSUME FilesBounded, Dialog
  PROVE  FilesBounded'
<1>1. ASSUME NEW id \in Ids, NEW how \in {"current", "same", "step"}, Browse(id, how) PROVE FilesBounded'
  <2>1. view' = "loading" /\ UNCHANGED <<previews, mutation, download, fsDownloads, fsChunkRequests>>
    BY <1>1 DEF Browse, Navigate, relay
  <2> QED BY <2>1, BoundedAside DEF FilesBounded
<1>2. ASSUME NEW id \in Ids, Preview(id) \/ Mutate(id) PROVE FilesBounded'
  <2>1. /\ UNCHANGED <<view, download, fsDownloads, fsChunkRequests>>
        /\ previews' \in {previews, previews \cup {id}} /\ mutation' \in {mutation, id}
    BY <1>2 DEF Preview, Mutate, Pick, relay
  <2>2. previews' \subseteq Ids /\ mutation' \in Ids \cup {Nothing} BY <2>1 DEF FilesBounded
  <2> QED BY <2>1, <2>2, BoundedAside DEF FilesBounded
<1>3. ASSUME NEW id \in Ids, StartDownload(id) PROVE FilesBounded'
  <2>1. /\ UNCHANGED <<view, previews, mutation, fsDownloads, fsChunkRequests>>
        /\ download' = [id |-> id, total |-> 0, next |-> 0, timer |-> "ready"]
    BY <1>3 DEF StartDownload, Pick, relay
  <2>2. download'.total = 0 BY <2>1
  <2> QED BY <2>1, <2>2, BoundedAside DEF FilesBounded
<1> QED BY <1>1, <1>2, <1>3 DEF Dialog

LEMMA RejectBounded ==
  ASSUME FilesBounded, RejectAll
  PROVE  /\ view' \in Dirs \cup {"loading", "error"} /\ previews' \subseteq Ids /\ mutation' \in Ids \cup {Nothing}
         /\ download' = Nothing
  BY DEF FilesBounded, RejectAll

(* A pull keeps its download's total, and has a slot of the relay's or is dropped. *)
LEMMA BoundedPulls ==
  ASSUME FilesBounded, NEW d \in Loading, NEW fs, NEW used \in 0 .. MaxChunks, Pulls(d, fs, used),
         Len(fs) <= MaxTransfers, d.total <= MaxSlices
  PROVE  FilesBounded'
<1>1. MaxChunks \in Nat BY FilesAssumption
<1>2. CASE d.id \notin ToSet(fs)
  <2>1. RejectAll /\ fsDownloads' = fs /\ fsChunkRequests' = used BY <1>2 DEF Pulls
  <2> QED BY <2>1, RejectBounded DEF FilesBounded
<1>3. CASE d.id \in ToSet(fs)
  <2>1. fsDownloads' = fs /\ download' = RequestChunk(d) /\ UNCHANGED <<view, previews, mutation>>
        /\ fsChunkRequests' = IF used < MaxChunks THEN used + 1 ELSE used
    BY <1>3 DEF Pulls
  <2>2. fsChunkRequests' \in 0 .. MaxChunks BY <2>1, <1>1
  <2> QED BY <2>1, <2>2, RequestChunkKeeps DEF FilesBounded
<1> QED BY <1>2, <1>3

LEMMA BoundedHears ==
  ASSUME FilesTyped, FilesBounded, WindowHears
  PROVE  FilesBounded'
<1> DEFINE m == Head(toWindow)
<1>1. Heard(m) BY DEF WindowHears, Heard
<1>2. Listed(m) \/ Previewed(m) \/ Mutated(m) \/ Announced(m) \/ Chunk(m) \/ Refused(m) BY DEF WindowHears
<1> HIDE DEF m
<1>3. m \in Answer /\ m.id \in Ids
  <2>1. m \in Answer BY <1>1, WindowTakesFor DEF Heard
  <2> QED BY <2>1 DEF Answer
<1>4. fsDownloads \in Seq(Ids) /\ Len(fsDownloads) <= MaxTransfers /\ fsChunkRequests \in 0 .. MaxChunks
      /\ MaxChunks \in Nat /\ MaxSlices \in Nat /\ MaxTransfers \in Nat /\ Len(fsDownloads) \in Nat
  BY FilesAssumption DEF FilesTyped, FilesBounded
<1>5. CASE Refused(m)
  <2>1. RejectAll /\ UNCHANGED <<fsDownloads, fsChunkRequests>> BY <1>5 DEF Refused, relay
  <2> QED BY <2>1, RejectBounded, BoundedAside
<1>6. CASE Listed(m)
  <2>1. /\ view' = view \/ view' = m.dir
        /\ UNCHANGED <<previews, mutation, download, fsDownloads, fsChunkRequests>>
    BY <1>6 DEF Listed, relay
  <2>2. m.dir \in Dirs
    <3>1. m \in [type : {"listed"}, id : Ids, dir : Dirs] BY <1>3, <1>6 DEF Listed, Answer
    <3> QED BY <3>1
  <2> QED BY <2>1, <2>2, BoundedAside DEF FilesBounded
<1>7. CASE Previewed(m)
  <2>1. previews' = previews \ {m.id} /\ UNCHANGED <<view, mutation, download, fsDownloads, fsChunkRequests>>
    BY <1>7 DEF Previewed, relay
  <2> QED BY <2>1, BoundedAside DEF FilesBounded
<1>8. CASE Mutated(m)
  <2>1. /\ view' \in {view, "loading"} /\ mutation' \in {mutation, Nothing}
        /\ UNCHANGED <<previews, download, fsDownloads, fsChunkRequests>>
    BY <1>8 DEF Mutated, Navigate, relay
  <2> QED BY <2>1, BoundedAside DEF FilesBounded
<1>9. CASE Announced(m)
  <2>1. m.total \in 1 .. MaxSlices
    <3>1. m \in [type : {"ready"}, id : Ids, total : 1 .. MaxSlices] BY <1>3, <1>9 DEF Announced, Answer
    <3> QED BY <3>1
  <2>2. Len(Registered(m.id)) <= MaxTransfers BY <1>3, <1>4, RegisteredFits
  <2>3. CASE m.id \in Current
    <3> DEFINE d == Sized(download, m.total)
    <3>1. Pulls(d, Registered(m.id), fsChunkRequests) BY <1>9, <2>3 DEF Announced, Sized
    <3>2. download \in Loading BY <2>3 DEF Current, FilesTyped
    <3>3. m.total \in Nat /\ m.total <= MaxSlices BY <2>1, <1>4
    <3>5. d \in Loading /\ d.total <= MaxSlices BY <3>2, <3>3, ClearsKeep
    <3> HIDE DEF d
    <3> QED BY <3>1, <3>5, <2>2, <1>4, BoundedPulls
  <2>4. CASE m.id \notin Current
    BY <1>9, <2>2, <2>4 DEF Announced, window, FilesBounded
  <2> QED BY <2>3, <2>4
<1>10. CASE Chunk(m)
  <2>1. Len(Forget(m.id)) <= Len(fsDownloads) /\ Forget(m.id) \in Seq(Ids) BY <1>3, <1>4, ForgetShrinks, ForgetKeeps
  <2>2. Len(Forget(m.id)) <= MaxTransfers BY <2>1, <1>4
  <2>3. Shifted \in 0 .. MaxChunks BY <1>4 DEF Shifted
  <2>4. CASE m.id \notin ToSet(fsDownloads)
    BY <1>10, <2>4 DEF Chunk, window, relay, FilesBounded
  <2>5. CASE m.id \in ToSet(fsDownloads) /\ m.id \notin Current
    BY <1>10, <1>4, <2>2, <2>3, <2>5 DEF Chunk, window, FilesBounded
  <2>6. CASE m.id \in ToSet(fsDownloads) /\ m.id \in Current /\ m.last
    BY <1>10, <1>4, <2>2, <2>3, <2>6 DEF Chunk, FilesBounded
  <2>7. CASE m.id \in ToSet(fsDownloads) /\ m.id \in Current /\ ~m.last
    <3> DEFINE d == Moved(download)
    <3>1. Pulls(d, fsDownloads, Shifted) BY <1>10, <2>7 DEF Chunk, Moved
    <3>2. download # Nothing BY <2>7 DEF Current
    <3>3. download \in Loading BY <3>2 DEF FilesTyped
    <3>4. d \in Loading /\ d.total <= MaxSlices BY <3>2, <3>3, ClearsKeep DEF FilesBounded
    <3> HIDE DEF d
    <3> QED BY <3>1, <3>4, <2>3, <1>4, BoundedPulls
  <2> QED BY <2>4, <2>5, <2>6, <2>7
<1> QED BY <1>2, <1>5, <1>6, <1>7, <1>8, <1>9, <1>10

LEMMA BoundedStep ==
  ASSUME FilesTyped, FilesBounded, [FilesNext]_filesVars
  PROVE  FilesBounded'
<1>1. CASE TimesOut
  <2>1. /\ UNCHANGED <<fsDownloads, fsChunkRequests>> /\ view' \in {view, "error"}
        /\ previews' \subseteq previews /\ mutation' \in {mutation, Nothing} /\ download' \in {download, Nothing}
    BY <1>1 DEF TimesOut, ListTimesOut, PreviewTimesOut, MutationTimesOut, ReadyTimesOut, SliceTimesOut, RejectDownload, relay
  <2> QED BY <2>1, BoundedAside DEF FilesBounded
<1>2. CASE ChunkRequestExpires BY <1>2, BoundedAside DEF ChunkRequestExpires, window, FilesBounded
<1>3. CASE HostHandles \/ UNCHANGED filesVars \/ \E id \in Ids : HerdrAnswers(id)
  BY <1>3 DEF HostHandles, HerdrAnswers, filesVars, window, relay, FilesBounded
<1>4. CASE HostReconnects
  <2>1. RejectAll /\ UNCHANGED <<fsDownloads, fsChunkRequests>> BY <1>4 DEF HostReconnects, relay
  <2> QED BY <2>1, RejectBounded, BoundedAside
<1> QED BY <1>1, <1>2, <1>3, <1>4, BoundedDialog, BoundedHears DEF FilesNext

LEMMA FilesTypesFollow == PullsInv /\ SlicesInTurn /\ FilesBounded => FilesTypeOK
<1> SUFFICES ASSUME PullsInv, SlicesInTurn, FilesBounded PROVE FilesTypeOK OBVIOUS
<1>1. FilesTyped /\ MaxSlices \in Nat BY FilesAssumption DEF PullsInv
<1>2. ASSUME download # Nothing PROVE download \in Download
  <2>1. download \in Loading BY <1>1, <1>2 DEF FilesTyped
  <2>2. download.total <= MaxSlices /\ download.next <= download.total
    BY <1>1, <1>2, <2>1 DEF FilesBounded, SlicesInTurn, Loading
  <2>3. download.total \in 0 .. MaxSlices /\ download.next \in 0 .. MaxSlices BY <1>1, <2>1, <2>2 DEF Loading
  <2> QED BY <2>1, <2>3 DEF Download, Loading
<1> QED BY <1>1, <1>2 DEF FilesTyped, FilesBounded, FilesTypeOK

(* The window's, the relay's and the workstation's records stay well typed; the     *)
(* relay's caps hold (fs-proxy.ts, forwardFsReady and requestFsChunk), and so does the  *)
(* total as the bound of the slice asked for.                                       *)
THEOREM FilesTypes == FilesSpec => []FilesTypeOK
<1> DEFINE I == PullsInv /\ SlicesInTurn /\ FilesBounded
<1>1. FilesInit => I
  <2>1. MaxTransfers \in Nat /\ MaxChunks \in Nat BY FilesAssumption
  <2>2. FilesInit => FilesBounded BY <2>1 DEF FilesInit, FilesBounded
  <2> QED BY <2>2, InitPulls DEF FilesInit, SlicesInTurn
<1>2. I /\ [FilesNext]_filesVars => I'
  <2>1. PullsInv => FilesTyped BY DEF PullsInv
  <2> QED BY <2>1, PullsStep, TurnStep, BoundedStep
<1>3. I => FilesTypeOK BY FilesTypesFollow
<1> QED BY <1>1, <1>2, <1>3, PTL DEF FilesSpec
=============================================================================
