---------------------------- MODULE HostLinkProofs ----------------------------
(* A workstation's link to the relay, for any number of sockets, windows, messages *)
(* and summaries: there is one link, beside it runs what the present one asks for, *)
(* and a watch at rest has told the relay what Herdr would answer.                 *)
EXTENDS HostLink, HostLock, FiniteSetTheorems, TLAPS

Busy == In({"connecting", "open", "closing"})

(* What is on its way on a socket r, from its dial on.  A message the relay has sent *)
(* before the hello's answer was read is that answer; and a relay that counts windows *)
(* is known to, or its answer waits.                                                  *)
AnswerWaits(r) == r.inbox # <<>> /\ r.inbox[1].type = "host_ready"
Counting(r) ==
  \/ keepaliveTimer /\ ~legacyHeartbeat
  \/ AnswerWaits(r) /\ r.inbox[1].count # Old

Fits(r) ==
  /\ r.state = "connecting" => r.peer \in {"taken", "gone"}
  /\ r.state = "connecting" \/ r.peer \in {"taken", "hello"} => r.inbox = <<>> /\ ~keepaliveTimer
  /\ \A i \in 1 .. Len(r.inbox) :
       /\ r.inbox[i].type = "host_ready" => i = 1 /\ ~keepaliveTimer
       /\ r.inbox[i].type = "client_count" => Counting(r)
  /\ r.peer = "host" => Counting(r)

(* A socket in use is the present one; a dial to come is without any. *)
Present ==
  /\ \A s \in Busy : ws = s
  /\ ws # None => ws \in Busy
  /\ reconnectTimer => ws = None
  /\ ~Runs => ws = None

(* The watch, between a change at Herdr and the report of it: something is still to *)
(* happen that reads Herdr again, or what was read is what Herdr would answer now.  *)
Reported ==
  /\ ~pollTimer => ~event
  /\ pollTimer => subscription # "off"
  /\ snapshot # None => pending
  /\ pollTimer =>
       \/ event \/ debounceTimer \/ unseen \/ subscription = "wait" \/ (stale /\ pending)
       \/ snapshot \in {None, herdr} /\ (pending \/ lastSummary = herdr)
  /\ pollTimer /\ Delivered /\ lastSummary # None => agentStatus = lastSummary

LinkInv ==
  /\ TypeOK /\ Present /\ OnlyWhileWatched /\ Reported
  /\ \A s \in Busy : Fits(sockets[s])

(* --- types --- *)

Socket == [state : {"free", "connecting", "open", "closing"}, isAlive : BOOLEAN,
           pinged : BOOLEAN, peer : Peers, inbox : Seq(Message)]

(* What the two ends put into a connection is typed. *)
LEMMA SocketTypes ==
  /\ Free \in Socket /\ Dialled \in Socket
  /\ \A c \in Counts : Ready(c) \in Message /\ ClientCount(c) \in Message
  /\ Ready(Old) \in Message
  /\ Close("other") \in Message /\ Close("host_replaced") \in Message
  /\ \A auth \in BOOLEAN : [type |-> "error", auth |-> auth] \in Message
  <1>1. Free \in Socket /\ Dialled \in Socket
    <2>1. <<>> \in Seq(Message) OBVIOUS
    <2> QED BY <2>1 DEF Socket, Free, Dialled, Peers
  <1>2. \A c \in Counts : Ready(c) \in Message /\ ClientCount(c) \in Message
    BY DEF Ready, ClientCount, Message
  <1>3. Ready(Old) \in Message BY DEF Ready, Message
  <1>4. Close("other") \in Message /\ Close("host_replaced") \in Message BY DEF Close, Message
  <1>5. \A auth \in BOOLEAN : [type |-> "error", auth |-> auth] \in Message BY DEF Message
  <1> QED BY <1>1, <1>2, <1>3, <1>4, <1>5

(* A message taken from an inbox, and one put into it. *)
LEMMA Taken ==
  ASSUME NEW q \in Seq(Message), q # <<>>
  PROVE  /\ Head(q) = q[1] /\ q[1] \in Message /\ Tail(q) \in Seq(Message)
         /\ \A i \in 1 .. Len(Tail(q)) : i + 1 \in 1 .. Len(q) /\ Tail(q)[i] = q[i + 1]
  OBVIOUS

(* A message put at the end of a queue leaves the ones before it in place. *)
LEMMA Put ==
  ASSUME NEW q \in Seq(Message), NEW m \in Message
  PROVE  /\ q \o <<m>> \in Seq(Message) /\ q \o <<m>> # <<>>
         /\ Len(q \o <<m>>) = Len(q) + 1
         /\ \A i \in 1 .. Len(q) : (q \o <<m>>)[i] = q[i]
         /\ (q \o <<m>>)[Len(q) + 1] = m
         /\ q # <<>> => (q \o <<m>>)[1] = q[1]
  OBVIOUS

(* --- steps --- *)

(* The watch and Herdr do not touch the link. *)
LEMMA WatchTyped ==
  ASSUME TypeOK, WatchStep \/ HerdrStep
  PROVE  TypeOK'
  <1>1. UNCHANGED link BY DEF WatchStep, HerdrStep
  <1>2. WatchTypeOK'
    BY DEF TypeOK, WatchTypeOK, WatchStep, HerdrStep, PollTick, DebounceFires, ReadEnds, ReadFails,
         SubscriptionStarts, EventArrives, Read, Settle, News, ScheduleRead, HerdrAnswers, SubscriptionLost,
         FocusChanges, StatusChanges, HerdrOnly, agents
  <1> QED BY <1>1, <1>2 DEF TypeOK, link, timers

(* A watch whose link says nothing new reports what it reads, or reads again. *)
LEMMA WatchHolds ==
  ASSUME LinkInv, WatchStep \/ HerdrStep
  PROVE  LinkInv'
  <1>1. TypeOK /\ Present /\ OnlyWhileWatched /\ Reported /\ \A s \in Busy : Fits(sockets[s])
    BY DEF LinkInv
  <1>2. TypeOK' BY <1>1, WatchTyped
  <1>3. UNCHANGED link BY DEF WatchStep, HerdrStep
  <1>4. Present' BY <1>1, <1>3 DEF Present, Busy, In, link, timers, Runs
  <1>5. \A s \in Busy' : Fits(sockets[s])'
    BY <1>1, <1>3 DEF Busy, In, Fits, Counting, AnswerWaits, link, timers
  <1>6. Delivered' = Delivered BY <1>3 DEF Delivered, link
  <1>7. WatchTypeOK /\ None \notin Summaries BY <1>1, SummaryAssumption DEF TypeOK
  <1>8. UNCHANGED <<clientCount, heartbeatTimer, keepaliveTimer, legacyHeartbeat, ws, sockets>>
    BY <1>3 DEF link, timers
  <1>9. ASSUME PollTick \/ DebounceFires
        PROVE  OnlyWhileWatched' /\ Reported'
    BY <1>1, <1>6, <1>7, <1>8, <1>9
       DEF WatchTypeOK, OnlyWhileWatched, Reported, PollTick, DebounceFires, Read, agents
  <1>10. ASSUME ReadEnds(Delivered) \/ ReadFails
        PROVE  OnlyWhileWatched' /\ Reported'
    BY <1>1, <1>6, <1>7, <1>8, <1>10
       DEF WatchTypeOK, OnlyWhileWatched, Reported, ReadEnds, ReadFails, Settle, News
  <1>11. ASSUME SubscriptionStarts \/ EventArrives
        PROVE  OnlyWhileWatched' /\ Reported'
    BY <1>1, <1>6, <1>7, <1>8, <1>11
       DEF WatchTypeOK, OnlyWhileWatched, Reported, SubscriptionStarts, EventArrives, ScheduleRead
  <1>12. ASSUME HerdrAnswers \/ SubscriptionLost \/ \E s \in Summaries : FocusChanges(s) \/ StatusChanges(s)
        PROVE  OnlyWhileWatched' /\ Reported'
    BY <1>1, <1>6, <1>7, <1>8, <1>12
       DEF WatchTypeOK, OnlyWhileWatched, Reported, HerdrAnswers, SubscriptionLost, FocusChanges, StatusChanges,
         HerdrOnly
  <1>13. OnlyWhileWatched' /\ Reported' BY <1>9, <1>10, <1>11, <1>12 DEF WatchStep, HerdrStep
  <1> QED BY <1>2, <1>4, <1>5, <1>13 DEF LinkInv

(* The socket in use changes and nothing else, but for the record of the workstation *)
(* at the relay, which is new for a connection that was not used yet.               *)
LEMMA SocketStep ==
  ASSUME LinkInv, NEW s \in Busy,
         sockets' \in [Sockets -> Socket], \A t \in Sockets \ {s} : sockets'[t] = sockets[t],
         sockets'[s].state \in {"connecting", "open", "closing"},
         Fits(sockets[s])',
         keepaliveTimer => sockets'[s].peer # "taken",
         keepaliveTimer /\ Delivered' => Delivered,
         UNCHANGED <<ws, timers, clientCount, legacyHeartbeat, exit, watch, agents>>,
         authFailure' \in BOOLEAN,
         agentStatus' = agentStatus \/ (~keepaliveTimer /\ agentStatus' = None)
  PROVE  LinkInv'
  <1>1. TypeOK /\ Present /\ OnlyWhileWatched /\ Reported /\ \A t \in Busy : Fits(sockets[t])
    BY DEF LinkInv
  <1>2. UNCHANGED <<reconnectTimer, heartbeatTimer, keepaliveTimer>> BY DEF timers
  <1>3. UNCHANGED <<pollTimer, debounceTimer, subscription, pending, stale, lastSummary,
                    herdr, snapshot, event, unseen>>
    BY DEF watch, agents
  <1>4. WatchTypeOK' BY <1>1, <1>3 DEF TypeOK, WatchTypeOK
  <1>5. TypeOK' BY <1>1, <1>2, <1>4 DEF TypeOK, Socket
  <1>6. Busy' = Busy /\ ws = s BY <1>1 DEF Busy, In, Present
  <1>7. Present' BY <1>1, <1>2, <1>6 DEF Present, Runs
  <1>8. OnlyWhileWatched' BY <1>1, <1>2, <1>3, <1>6 DEF OnlyWhileWatched
  <1>9. pollTimer => keepaliveTimer BY <1>1 DEF OnlyWhileWatched
  <1>10. Reported' BY <1>1, <1>3, <1>9 DEF Reported
  <1>11. \A t \in Busy' : t = s BY <1>1, <1>6 DEF Present
  <1> QED BY <1>5, <1>7, <1>8, <1>10, <1>11 DEF LinkInv

(* Nothing of a connection outlives it. *)
LEMMA LinkGone ==
  ASSUME LinkInv, Disconnected, sockets' \in [Sockets -> Socket],
         \A t \in Sockets : sockets'[t].state = "free",
         ws' = None, reconnectTimer' \in BOOLEAN, authFailure' = authFailure,
         exit' \in {"runs", "stopped", "EXIT_REPLACED", "EXIT_AUTH_FAILED"}
  PROVE  LinkInv'
  <1>1. TypeOK /\ Reported BY DEF LinkInv
  <1>2. /\ heartbeatTimer' = FALSE /\ keepaliveTimer' = FALSE /\ clientCount' = 0 /\ legacyHeartbeat' = FALSE
        /\ pollTimer' = FALSE /\ debounceTimer' = FALSE /\ stale' = FALSE
        /\ subscription' = "off" /\ lastSummary' = None /\ event' = FALSE
        /\ UNCHANGED <<pending, herdr, snapshot, unseen, agentStatus>>
    BY DEF Disconnected, StopWatch
  <1>3. Busy' = {} BY DEF Busy, In
  <1>4. WatchTypeOK' BY <1>1, <1>2 DEF TypeOK, WatchTypeOK
  <1>5. TypeOK'
    <2>1. 0 \in Counts BY LinkAssumption DEF Counts
    <2>2. authFailure' \in BOOLEAN BY <1>1 DEF TypeOK
    <2>3. {reconnectTimer, heartbeatTimer, keepaliveTimer, legacyHeartbeat, authFailure}' \subseteq BOOLEAN
      BY <1>2, <2>2
    <2> QED BY <1>2, <1>4, <2>1, <2>3 DEF TypeOK, Socket
  <1>6. Present' BY <1>3 DEF Present
  <1>7. OnlyWhileWatched' BY <1>2 DEF OnlyWhileWatched
  <1>8. Reported' BY <1>1, <1>2 DEF Reported
  <1> QED BY <1>3, <1>5, <1>6, <1>7, <1>8 DEF LinkInv

(* The process ends, or the socket in use closes. *)
LEMMA EndsHold ==
  ASSUME LinkInv, NEW why \in {"stopped", "EXIT_REPLACED", "EXIT_AUTH_FAILED"}, Ends(why)
  PROVE  LinkInv'
  <1>1. /\ sockets' = [s \in Sockets |-> Free] /\ ws' = None /\ reconnectTimer' = FALSE
        /\ Disconnected /\ authFailure' = authFailure /\ exit' = why
    BY DEF Ends
  <1>2. sockets' \in [Sockets -> Socket] /\ \A t \in Sockets : sockets'[t].state = "free"
    BY <1>1, SocketTypes DEF Free
  <1> HIDE DEF Disconnected
  <1> QED BY <1>1, <1>2, LinkGone

(* A close event frees the socket and, unless the process ends, sets the reconnect timer. *)
LEMMA CloseHolds ==
  ASSUME LinkInv, NEW s \in Busy, NEW reason, CloseEvent(s, reason)
  PROVE  LinkInv'
  <1>1. TypeOK /\ Present BY DEF LinkInv
  <1>2. ws = s BY <1>1 DEF Present
  <1>3. CASE Ends("EXIT_REPLACED") \/ Ends("EXIT_AUTH_FAILED") BY <1>3, EndsHold
  <1>4. CASE /\ sockets' = [sockets EXCEPT ![s] = Free] /\ ws' = None /\ Disconnected
             /\ ScheduleReconnect /\ UNCHANGED <<authFailure, exit>>
    <2>1. sockets' \in [Sockets -> Socket] BY <1>1, <1>4, SocketTypes DEF TypeOK, Socket
    <2>2. ASSUME NEW t \in Sockets PROVE sockets'[t].state = "free"
      <3>1. t = s \/ t \notin Busy BY <1>1, <1>2 DEF Present
      <3>2. t = s \/ sockets[t].state = "free" BY <1>1, <3>1 DEF TypeOK, Busy, In
      <3> QED BY <1>1, <1>4, <3>2 DEF TypeOK, Free
    <2>3. reconnectTimer' = TRUE BY <1>4 DEF ScheduleReconnect
    <2>4. exit' \in {"runs", "stopped", "EXIT_REPLACED", "EXIT_AUTH_FAILED"} BY <1>1, <1>4 DEF TypeOK
    <2> QED BY <1>4, <2>1, <2>2, <2>3, <2>4, LinkGone
  <1> QED BY <1>2, <1>3, <1>4 DEF CloseEvent

(* What the socket in use is, and what each step on one means for it. *)
LEMMA InUse ==
  ASSUME LinkInv, NEW s \in Sockets, sockets[s].state # "free"
  PROVE  s \in Busy /\ ws = s /\ Fits(sockets[s])
  <1>1. s \in Busy BY DEF LinkInv, TypeOK, Busy, In
  <1> QED BY <1>1 DEF LinkInv, Present

(* An opened connection has said its hello and nothing is on its way to the connector yet. *)
LEMMA OpensHolds ==
  ASSUME LinkInv, NEW s \in Sockets, Opens(s)
  PROVE  LinkInv'
  <1>1. TypeOK BY DEF LinkInv
  <1>2. s \in Busy /\ ws = s /\ Fits(sockets[s]) BY InUse DEF Opens
  <1>3. /\ sockets[s].state = "connecting"
        /\ sockets' = [sockets EXCEPT ![s].state = "open", ![s].isAlive = TRUE, ![s].peer = "hello"]
        /\ authFailure' = FALSE /\ agentStatus' = agentStatus
        /\ UNCHANGED <<ws, timers, clientCount, legacyHeartbeat, exit, watch, agents>>
    BY DEF Opens
  <1>4. sockets' \in [Sockets -> Socket] /\ \A t \in Sockets \ {s} : sockets'[t] = sockets[t]
    <2>1. sockets \in [Sockets -> Socket] BY <1>1 DEF TypeOK, Socket
    <2>2. sockets' = [sockets EXCEPT ![s] =
                       [sockets[s] EXCEPT !.state = "open", !.isAlive = TRUE, !.peer = "hello"]]
      BY <1>3, <2>1
    <2>3. [sockets[s] EXCEPT !.state = "open", !.isAlive = TRUE, !.peer = "hello"] \in Socket
      BY <2>1 DEF Socket, Peers
    <2> QED BY <2>1, <2>2, <2>3
  <1>5. sockets'[s].state = "open" /\ sockets'[s].peer = "hello" /\ sockets'[s].inbox = sockets[s].inbox
    BY <1>1, <1>3 DEF TypeOK
  <1>6. sockets[s].inbox = <<>> /\ ~keepaliveTimer BY <1>2, <1>3 DEF Fits
  <1>7. keepaliveTimer' = keepaliveTimer BY <1>3 DEF timers
  <1>8. Fits(sockets[s])' BY <1>5, <1>6, <1>7 DEF Fits
  <1> QED BY <1>2, <1>3, <1>4, <1>5, <1>6, <1>8, SocketStep

(* The keepalive: the socket is asked, given up, or answers, or its peer is gone. *)
LEMMA KeepaliveHolds ==
  ASSUME LinkInv, KeepaliveTick \/ \E s \in Sockets : Pong(s) \/ PeerGone(s)
  PROVE  LinkInv'
  <1>1. TypeOK /\ OnlyWhileWatched BY DEF LinkInv
  <1>2. PICK s \in Sockets :
          /\ sockets[s].state \in {"connecting", "open"}
          /\ \/ sockets' = [sockets EXCEPT ![s].isAlive = FALSE, ![s].pinged = TRUE]
             \/ /\ sockets[s].state = "open"
                /\ sockets' = [sockets EXCEPT ![s].state = "closing", ![s].inbox = <<>>]
                /\ keepaliveTimer
             \/ sockets' = [sockets EXCEPT ![s].isAlive = TRUE, ![s].pinged = FALSE]
             \/ sockets' = [sockets EXCEPT ![s].peer = "gone"]
    BY <1>1 DEF KeepaliveTick, Pong, PeerGone, TypeOK, In
  <1>3. /\ UNCHANGED <<ws, timers, clientCount, legacyHeartbeat, exit, watch, agents>>
        /\ authFailure' = authFailure /\ agentStatus' = agentStatus
    BY DEF KeepaliveTick, Pong, PeerGone
  <1>4. s \in Busy /\ ws = s /\ Fits(sockets[s]) BY <1>2, InUse
  <1>5. sockets' \in [Sockets -> Socket] /\ \A t \in Sockets \ {s} : sockets'[t] = sockets[t]
    <2>1. <<>> \in Seq(Message) OBVIOUS
    <2>2. sockets \in [Sockets -> Socket] BY <1>1 DEF TypeOK, Socket
    <2>3. /\ [sockets[s] EXCEPT !.isAlive = FALSE, !.pinged = TRUE] \in Socket
          /\ [sockets[s] EXCEPT !.state = "closing", !.inbox = <<>>] \in Socket
      BY <2>1, <2>2 DEF Socket
    <2>4. [sockets[s] EXCEPT !.isAlive = TRUE, !.pinged = FALSE] \in Socket BY <2>2 DEF Socket
    <2>5. [sockets[s] EXCEPT !.peer = "gone"] \in Socket BY <2>2 DEF Socket, Peers
    <2>6. PICK r \in Socket : sockets' = [sockets EXCEPT ![s] = r]
      BY <1>2, <2>2, <2>3, <2>4, <2>5
    <2> QED BY <2>2, <2>6
  <1>6. /\ sockets'[s].state \in {sockets[s].state, "closing"}
        /\ sockets'[s].peer \in {sockets[s].peer, "gone"}
        /\ sockets'[s].inbox = sockets[s].inbox \/ (sockets'[s].inbox = <<>> /\ keepaliveTimer)
    BY <1>1, <1>2 DEF TypeOK
  <1>7. sockets'[s].state \in {"connecting", "open", "closing"} BY <1>2, <1>6
  <1>8. UNCHANGED <<keepaliveTimer, legacyHeartbeat>> BY <1>3 DEF timers
  <1>9. ~keepaliveTimer \/ sockets'[s].inbox = sockets[s].inbox \/ sockets'[s].inbox = <<>>
    BY <1>6
  <1>10. Fits(sockets[s])'
    <2>1. CASE sockets'[s].inbox = sockets[s].inbox
      BY <1>2, <1>4, <1>6, <1>8, <2>1 DEF Fits, Counting, AnswerWaits
    <2>2. CASE sockets'[s].inbox = <<>> /\ keepaliveTimer
      <3>1. sockets[s].inbox = <<>> \/ sockets[s].inbox # <<>> OBVIOUS
      <3>2. ~AnswerWaits(sockets[s])
        <4>1. ASSUME AnswerWaits(sockets[s]) PROVE FALSE
          <5>1. 1 \in 1 .. Len(sockets[s].inbox) BY <1>1, <4>1 DEF TypeOK, AnswerWaits
          <5> QED BY <1>4, <2>2, <4>1, <5>1 DEF Fits, AnswerWaits
        <4> QED BY <4>1
      <3> QED BY <1>2, <1>4, <1>6, <1>8, <2>2, <3>2 DEF Fits, Counting
    <2> QED BY <1>6, <2>1, <2>2
  <1>11. keepaliveTimer => sockets'[s].peer # "taken" BY <1>1, <1>4, <1>6 DEF OnlyWhileWatched
  <1>12. Delivered' => Delivered BY <1>1, <1>3, <1>4, <1>5, <1>6, <1>2 DEF Delivered, Registered
  <1>13. authFailure' \in BOOLEAN BY <1>1, <1>3 DEF TypeOK
  <1> QED BY <1>3, <1>4, <1>5, <1>7, <1>10, <1>11, <1>12, <1>13, SocketStep

(* --- what the relay sends --- *)

(* What a send of the relay leaves of the sockets: the open one gets the messages at its end. *)
LEMMA Sent ==
  ASSUME LinkInv, NEW s \in Sockets, NEW peer \in Peers, NEW messages \in Seq(Message),
         RelaySends(s, peer, messages)
  PROVE  /\ sockets' \in [Sockets -> Socket] /\ \A t \in Sockets \ {s} : sockets'[t] = sockets[t]
         /\ sockets[s].state = "open" /\ sockets'[s].state = "open"
         /\ sockets'[s].peer = peer /\ sockets'[s].inbox = sockets[s].inbox \o messages
         /\ s \in Busy /\ ws = s /\ Fits(sockets[s])
         /\ UNCHANGED <<ws, timers, clientCount, legacyHeartbeat, exit, watch, agents, authFailure>>
         /\ UNCHANGED <<keepaliveTimer, legacyHeartbeat>>
         /\ authFailure' \in BOOLEAN
  <1>1. /\ sockets[s].state = "open"
        /\ sockets' = [sockets EXCEPT ![s].peer = peer, ![s].inbox = @ \o messages]
        /\ UNCHANGED <<ws, timers, clientCount, legacyHeartbeat, exit, watch, agents, authFailure>>
    BY DEF RelaySends
  <1>2. sockets \in [Sockets -> Socket] /\ authFailure \in BOOLEAN BY DEF LinkInv, TypeOK, Socket
  <1>3. sockets[s].inbox \o messages \in Seq(Message) BY <1>2 DEF Socket
  <1>4. [sockets[s] EXCEPT !.peer = peer, !.inbox = sockets[s].inbox \o messages] \in Socket
    BY <1>2, <1>3 DEF Socket
  <1>5. sockets' = [sockets EXCEPT ![s] =
                     [sockets[s] EXCEPT !.peer = peer, !.inbox = sockets[s].inbox \o messages]]
    BY <1>1, <1>2
  <1>6. /\ sockets' \in [Sockets -> Socket] /\ \A t \in Sockets \ {s} : sockets'[t] = sockets[t]
        /\ sockets'[s] = [sockets[s] EXCEPT !.peer = peer, !.inbox = sockets[s].inbox \o messages]
    BY <1>2, <1>4, <1>5
  <1>7. /\ sockets'[s].state = "open" /\ sockets'[s].peer = peer
        /\ sockets'[s].inbox = sockets[s].inbox \o messages
    BY <1>1, <1>2, <1>6 DEF Socket
  <1>8. s \in Busy /\ ws = s /\ Fits(sockets[s]) BY <1>1, InUse
  <1>9. UNCHANGED <<keepaliveTimer, legacyHeartbeat>> BY <1>1 DEF timers
  <1> QED BY <1>1, <1>2, <1>6, <1>7, <1>8, <1>9

(* The answer to a hello is the first message of a socket. *)
LEMMA RegistersHolds ==
  ASSUME LinkInv, NEW s \in Sockets, NEW c \in Counts \cup {Old}, RelayRegisters(s, c)
  PROVE  LinkInv'
  <1> DEFINE messages == IF c = Old THEN <<Ready(Old)>> ELSE <<Ready(c), ClientCount(c)>>
             peer == IF c = Old THEN "old" ELSE "host"
  <1>1. sockets[s].peer = "hello" /\ RelaySends(s, peer, messages) /\ agentStatus' = None
    BY DEF RelayRegisters
  <1>2. messages \in Seq(Message) /\ peer \in Peers /\ peer \notin {"taken", "hello"}
    BY SocketTypes DEF Peers, Registered
  <1>3. /\ messages # <<>> /\ messages[1].type = "host_ready"
        /\ peer = "host" => messages[1].count # Old
        /\ \A i \in 1 .. Len(messages) :
             /\ messages[i].type = "host_ready" => i = 1
             /\ messages[i].type = "client_count" => messages[1].count # Old
    <2>1. CASE c = Old
      <3>1. messages = <<Ready(Old)>> BY <2>1
      <3>2. Len(messages) = 1 /\ messages[1] = Ready(Old) /\ messages # <<>> BY <3>1
      <3> QED BY <2>1, <3>2 DEF Ready
    <2>2. CASE c # Old
      <3>1. messages = <<Ready(c), ClientCount(c)>> BY <2>2
      <3>2. Len(messages) = 2 /\ messages[1] = Ready(c) /\ messages[2] = ClientCount(c) /\ messages # <<>>
        BY <3>1
      <3> QED BY <2>2, <3>2 DEF Ready, ClientCount
    <2> QED BY <2>1, <2>2
  <1> HIDE DEF messages, peer
  <1>4. /\ sockets' \in [Sockets -> Socket] /\ \A t \in Sockets \ {s} : sockets'[t] = sockets[t]
        /\ sockets'[s].state = "open"
        /\ sockets'[s].peer = peer /\ sockets'[s].inbox = sockets[s].inbox \o messages
        /\ s \in Busy /\ ws = s /\ Fits(sockets[s])
        /\ UNCHANGED <<ws, timers, clientCount, legacyHeartbeat, exit, watch, agents, authFailure>>
        /\ UNCHANGED <<keepaliveTimer, legacyHeartbeat>>
        /\ authFailure' \in BOOLEAN
    BY <1>1, <1>2, Sent
  <1>5. sockets[s].inbox = <<>> /\ ~keepaliveTimer BY <1>1, <1>4 DEF Fits
  <1>6. sockets'[s].inbox = messages BY <1>2, <1>4, <1>5
  <1>7. Fits(sockets[s])' BY <1>2, <1>3, <1>4, <1>5, <1>6 DEF Fits, Counting, AnswerWaits
  <1> QED BY <1>1, <1>4, <1>5, <1>7, SocketStep

(* A rejection comes instead of it. *)
LEMMA RejectsHolds ==
  ASSUME LinkInv, NEW s \in Sockets, NEW auth \in BOOLEAN, RelayRejects(s, auth)
  PROVE  LinkInv'
  <1> DEFINE messages == <<[type |-> "error", auth |-> auth], Close("other")>>
  <1>1. sockets[s].peer = "hello" /\ RelaySends(s, "left", messages) /\ agentStatus' = agentStatus
    BY DEF RelayRejects
  <1>2. messages \in Seq(Message) /\ "left" \in Peers BY SocketTypes DEF Peers
  <1>3. \A i \in 1 .. Len(messages) : messages[i].type \notin {"host_ready", "client_count"}
    <2>1. /\ Len(messages) = 2 /\ messages[1] = [type |-> "error", auth |-> auth]
          /\ messages[2] = Close("other")
      OBVIOUS
    <2> QED BY <2>1 DEF Close
  <1> HIDE DEF messages
  <1>4. /\ sockets' \in [Sockets -> Socket] /\ \A t \in Sockets \ {s} : sockets'[t] = sockets[t]
        /\ sockets'[s].state = "open"
        /\ sockets'[s].peer = "left" /\ sockets'[s].inbox = sockets[s].inbox \o messages
        /\ s \in Busy /\ ws = s /\ Fits(sockets[s])
        /\ UNCHANGED <<ws, timers, clientCount, legacyHeartbeat, exit, watch, agents, authFailure>>
        /\ UNCHANGED <<keepaliveTimer, legacyHeartbeat>>
        /\ authFailure' \in BOOLEAN
    BY <1>1, <1>2, Sent
  <1>5. sockets[s].inbox = <<>> /\ ~keepaliveTimer BY <1>1, <1>4 DEF Fits
  <1>6. sockets'[s].inbox = messages BY <1>2, <1>4, <1>5
  <1>7. Fits(sockets[s])' BY <1>3, <1>4, <1>6 DEF Fits
  <1> QED BY <1>1, <1>4, <1>5, <1>7, SocketStep

(* A count from a relay that counts, or a close, comes after all that was sent. *)
LEMMA LaterHolds ==
  ASSUME LinkInv, NEW s \in Sockets, NEW m \in Message, m.type \in {"client_count", "close"},
         NEW peer \in {"host", "left"}, peer = "host" => sockets[s].peer = "host",
         m.type = "client_count" => sockets[s].peer = "host",
         RelaySends(s, peer, <<m>>), agentStatus' = agentStatus
  PROVE  LinkInv'
  <1> DEFINE q == sockets[s].inbox
  <1>1. <<m>> \in Seq(Message) /\ peer \in Peers BY DEF Peers, Registered
  <1>2. /\ sockets' \in [Sockets -> Socket] /\ \A t \in Sockets \ {s} : sockets'[t] = sockets[t]
        /\ sockets[s].state = "open" /\ sockets'[s].state = "open"
        /\ sockets'[s].peer = peer /\ sockets'[s].inbox = q \o <<m>>
        /\ s \in Busy /\ ws = s /\ Fits(sockets[s])
        /\ UNCHANGED <<ws, timers, clientCount, legacyHeartbeat, exit, watch, agents, authFailure>>
        /\ UNCHANGED <<keepaliveTimer, legacyHeartbeat>>
        /\ authFailure' \in BOOLEAN
    BY <1>1, Sent
  <1>3. q \in Seq(Message) BY DEF LinkInv, TypeOK
  <1>4. /\ q \o <<m>> # <<>> /\ Len(q \o <<m>>) = Len(q) + 1 /\ Len(q) \in Nat
        /\ \A i \in 1 .. Len(q) : (q \o <<m>>)[i] = q[i]
        /\ (q \o <<m>>)[Len(q) + 1] = m
        /\ q # <<>> => (q \o <<m>>)[1] = q[1]
    BY <1>3, Put
  <1>5. Counting(sockets[s]) => Counting(sockets[s])' BY <1>2, <1>4 DEF Counting, AnswerWaits
  <1>6. Fits(sockets[s])'
    <2>1. ASSUME NEW i \in 1 .. Len(q \o <<m>>)
          PROVE  /\ (q \o <<m>>)[i].type = "host_ready" => i = 1 /\ ~keepaliveTimer
                 /\ (q \o <<m>>)[i].type = "client_count" => Counting(sockets[s])
      <3>1. CASE i \in 1 .. Len(q) BY <1>2, <1>4, <3>1 DEF Fits
      <3>2. CASE i = Len(q) + 1 BY <1>2, <1>4, <3>2 DEF Fits
      <3> QED BY <1>4, <3>1, <3>2
    <2>2. peer = "host" => Counting(sockets[s]) BY <1>2 DEF Fits
    <2> QED BY <1>2, <1>5, <2>1, <2>2 DEF Fits
  <1>7. Delivered' => Delivered BY <1>2 DEF Delivered, Registered
  <1> QED BY <1>2, <1>6, <1>7, SocketStep

(* Every step of the relay's end keeps the invariant. *)
LEMMA RelayHolds ==
  ASSUME LinkInv, RelayStep
  PROVE  LinkInv'
  <1>1. PICK s \in Sockets :
          \/ \E c \in Counts \cup {Old} : RelayRegisters(s, c)
          \/ \E auth \in BOOLEAN : RelayRejects(s, auth)
          \/ \E c \in Counts : RelayCounts(s, c)
          \/ \E reason \in {"host_replaced", "other"} : RelayCloses(s, reason)
          \/ PeerGone(s)
    BY DEF RelayStep
  <1>2. ASSUME NEW c \in Counts, RelayCounts(s, c) PROVE LinkInv'
    <2>1. /\ sockets[s].peer = "host" /\ RelaySends(s, "host", <<ClientCount(c)>>)
          /\ agentStatus' = agentStatus
      BY <1>2 DEF RelayCounts
    <2>2. ClientCount(c) \in Message /\ ClientCount(c).type = "client_count"
      BY SocketTypes DEF ClientCount
    <2> QED BY <2>1, <2>2, LaterHolds
  <1>3. ASSUME NEW reason \in {"host_replaced", "other"}, RelayCloses(s, reason) PROVE LinkInv'
    <2>1. RelaySends(s, "left", <<Close(reason)>>) /\ agentStatus' = agentStatus
      BY <1>3 DEF RelayCloses
    <2>2. Close(reason) \in Message /\ Close(reason).type = "close" BY SocketTypes DEF Close
    <2> QED BY <2>1, <2>2, LaterHolds
  <1> QED BY <1>1, <1>2, <1>3, RegistersHolds, RejectsHolds, KeepaliveHolds

(* --- what the connector hears --- *)

(* A message taken from the socket in use leaves what is behind it as it was. *)
LEMMA Heard ==
  ASSUME LinkInv, NEW s \in Sockets, sockets[s].state = "open", sockets[s].inbox # <<>>
  PROVE  /\ Head(sockets[s].inbox) = sockets[s].inbox[1] /\ sockets[s].inbox[1] \in Message
         /\ 1 \in 1 .. Len(sockets[s].inbox)
         /\ Received(s) \in [Sockets -> Socket]
         /\ \A t \in Sockets \ {s} : Received(s)[t] = sockets[t]
         /\ Received(s)[s].state = "open" /\ Received(s)[s].peer = sockets[s].peer
         /\ sockets[s].peer \notin {"taken", "hello"}
         /\ \A i \in 1 .. Len(Received(s)[s].inbox) :
              /\ Received(s)[s].inbox[i].type # "host_ready"
              /\ Received(s)[s].inbox[i].type = "client_count" => Counting(sockets[s])
         /\ s \in Busy /\ ws = s /\ Fits(sockets[s])
  <1> DEFINE q == sockets[s].inbox
  <1>1. s \in Busy /\ ws = s /\ Fits(sockets[s]) BY InUse
  <1>2. sockets \in [Sockets -> Socket] /\ q \in Seq(Message) BY DEF LinkInv, TypeOK, Socket
  <1>3. /\ Head(q) = q[1] /\ q[1] \in Message /\ Tail(q) \in Seq(Message)
        /\ \A i \in 1 .. Len(Tail(q)) : i + 1 \in 1 .. Len(q) /\ Tail(q)[i] = q[i + 1]
    BY <1>2, Taken
  <1>4. 1 \in 1 .. Len(q) BY <1>2
  <1>5. [sockets[s] EXCEPT !.inbox = Tail(q)] \in Socket BY <1>2, <1>3 DEF Socket
  <1>6. Received(s) = [sockets EXCEPT ![s] = [sockets[s] EXCEPT !.inbox = Tail(q)]]
    BY <1>2 DEF Received
  <1>7. Received(s) \in [Sockets -> Socket] /\ \A t \in Sockets \ {s} : Received(s)[t] = sockets[t]
    BY <1>2, <1>5, <1>6
  <1>8. Received(s)[s] = [sockets[s] EXCEPT !.inbox = Tail(q)] BY <1>2, <1>6
  <1>9. /\ Received(s)[s].inbox = Tail(q) /\ Received(s)[s].state = "open"
        /\ Received(s)[s].peer = sockets[s].peer
    BY <1>2, <1>8 DEF Socket
  <1>10. ASSUME NEW i \in 1 .. Len(Tail(q))
         PROVE  Tail(q)[i].type # "host_ready" /\ (Tail(q)[i].type = "client_count" => Counting(sockets[s]))
    <2>1. i + 1 \in 1 .. Len(q) /\ Tail(q)[i] = q[i + 1] /\ i + 1 # 1 BY <1>3
    <2> QED BY <1>1, <2>1 DEF Fits
  <1>11. sockets[s].peer \notin {"taken", "hello"} BY <1>1 DEF Fits
  <1> QED BY <1>1, <1>3, <1>4, <1>7, <1>9, <1>10, <1>11

(* The watch runs while the windows counted are some. *)
LEMMA CountsHold ==
  ASSUME LinkInv, NEW n \in Counts, SetClientCount(n), ~legacyHeartbeat,
         UNCHANGED <<herdr, snapshot, unseen, agentStatus>>,
         keepaliveTimer \/ ~pollTimer, Delivered' => Delivered \/ ~pollTimer
  PROVE  /\ WatchTypeOK' /\ Reported' /\ clientCount' \in Counts /\ heartbeatTimer' \in BOOLEAN
         /\ pollTimer' <=> clientCount' > 0
         /\ heartbeatTimer' <=> clientCount' > 0
         /\ ~pollTimer' => ~debounceTimer' /\ subscription' = "off" /\ lastSummary' = None
  <1>1. TypeOK /\ WatchTypeOK /\ OnlyWhileWatched /\ Reported BY DEF LinkInv, TypeOK
  <1>2. clientCount \in Counts /\ heartbeatTimer \in BOOLEAN /\ n \in Nat /\ clientCount \in Nat
    BY <1>1, LinkAssumption DEF TypeOK, Counts
  <1>3. CASE UNCHANGED <<clientCount, heartbeatTimer, watch, event>>
    <2>1. UNCHANGED <<pollTimer, debounceTimer, subscription, pending, stale, lastSummary, event>>
      BY <1>3 DEF watch
    <2>2. WatchTypeOK' BY <1>1, <2>1 DEF WatchTypeOK
    <2>3. Reported' BY <1>1, <2>1 DEF Reported
    <2> QED BY <1>1, <1>2, <1>3, <2>1, <2>2, <2>3 DEF OnlyWhileWatched
  <1>4. CASE n > 0 /\ clientCount' = n /\ heartbeatTimer' = (n > 0) /\ StartWatch
    <2>1. CASE pollTimer
      <3>1. UNCHANGED <<pollTimer, debounceTimer, subscription, pending, stale, lastSummary, event>>
        BY <1>4, <2>1 DEF StartWatch, watch
      <3>2. WatchTypeOK' BY <1>1, <3>1 DEF WatchTypeOK
      <3>3. Reported' BY <1>1, <3>1 DEF Reported
      <3> QED BY <1>1, <1>2, <1>4, <2>1, <3>1, <3>2, <3>3
    <2>2. CASE ~pollTimer
      <3>1. /\ pollTimer' = TRUE /\ subscription' = "wait" /\ pending' = TRUE /\ stale' = pending
            /\ UNCHANGED <<debounceTimer, lastSummary, event>>
        BY <1>4, <2>2 DEF StartWatch, Read
      <3>2. WatchTypeOK' BY <1>1, <3>1 DEF WatchTypeOK
      <3>3. lastSummary = None BY <1>1, <2>2 DEF OnlyWhileWatched
      <3>4. Reported' BY <3>1, <3>3 DEF Reported
      <3> QED BY <1>2, <1>4, <3>1, <3>2, <3>4
    <2> QED BY <2>1, <2>2
  <1>5. CASE ~(n > 0) /\ clientCount' = n /\ heartbeatTimer' = (n > 0) /\ StopWatch
    <2>1. /\ pollTimer' = FALSE /\ debounceTimer' = FALSE /\ stale' = FALSE
          /\ subscription' = "off" /\ lastSummary' = None /\ event' = FALSE /\ pending' = pending
      BY <1>5 DEF StopWatch
    <2>2. WatchTypeOK' BY <1>1, <2>1 DEF WatchTypeOK
    <2>3. Reported' BY <1>1, <2>1 DEF Reported
    <2>4. n = 0 /\ (n > 0) = FALSE BY <1>2, <1>5
    <2>5. clientCount' = 0 /\ heartbeatTimer' = FALSE /\ clientCount' \in Counts BY <1>5, <2>4
    <2>6. ~(clientCount' > 0) BY <2>5
    <2> QED BY <2>1, <2>2, <2>3, <2>5, <2>6
  <1> QED BY <1>3, <1>4, <1>5 DEF SetClientCount

(* The same socket stays in use, and the windows or the answer are news. *)
LEMMA NewsHolds ==
  ASSUME LinkInv, NEW s \in Busy, WatchTypeOK', Reported', OnlyWhileWatched',
         sockets' \in [Sockets -> Socket], \A t \in Sockets \ {s} : sockets'[t] = sockets[t],
         sockets'[s].state = "open", Fits(sockets[s])',
         UNCHANGED <<ws, reconnectTimer, authFailure, exit>>,
         clientCount' \in Counts,
         heartbeatTimer' \in BOOLEAN, keepaliveTimer' \in BOOLEAN, legacyHeartbeat' \in BOOLEAN
  PROVE  LinkInv'
  <1>1. TypeOK /\ Present /\ \A t \in Busy : Fits(sockets[t]) BY DEF LinkInv
  <1>2. TypeOK'
    <2>1. reconnectTimer' \in BOOLEAN /\ authFailure' \in BOOLEAN BY <1>1 DEF TypeOK
    <2> QED BY <1>1, <2>1 DEF TypeOK, Socket
  <1>3. Busy' = Busy /\ ws = s BY <1>1 DEF Busy, In, Present
  <1>4. Present' BY <1>1, <1>3 DEF Present, Runs
  <1>5. \A t \in Busy' : t = s BY <1>1, <1>3 DEF Present
  <1> QED BY <1>2, <1>4, <1>5 DEF LinkInv

(* host_ready, the first message of a connection, starts or stops the watch as its count says. *)
LEMMA ReadyHolds ==
  ASSUME LinkInv, NEW s \in Sockets, sockets[s].state = "open", sockets[s].inbox # <<>>,
         NEW count \in Counts \cup {Old},
         sockets[s].inbox[1].type = "host_ready", sockets[s].inbox[1].count = count,
         sockets' = [Received(s) EXCEPT ![ws].isAlive = TRUE], HostReady(count),
         UNCHANGED <<ws, reconnectTimer, authFailure, exit, herdr, snapshot, unseen, agentStatus>>
  PROVE  LinkInv'
  <1>1. /\ TypeOK /\ OnlyWhileWatched /\ Reported BY DEF LinkInv
  <1>2. /\ Received(s) \in [Sockets -> Socket] /\ \A t \in Sockets \ {s} : Received(s)[t] = sockets[t]
        /\ Received(s)[s].state = "open" /\ Received(s)[s].peer = sockets[s].peer
        /\ sockets[s].peer \notin {"taken", "hello"}
        /\ \A i \in 1 .. Len(Received(s)[s].inbox) :
              /\ Received(s)[s].inbox[i].type # "host_ready"
              /\ Received(s)[s].inbox[i].type = "client_count" => Counting(sockets[s])
        /\ s \in Busy /\ ws = s /\ Fits(sockets[s]) /\ 1 \in 1 .. Len(sockets[s].inbox)
    BY Heard
  <1>3. /\ sockets' \in [Sockets -> Socket] /\ \A t \in Sockets \ {s} : sockets'[t] = sockets[t]
        /\ sockets'[s].state = "open" /\ sockets'[s].peer = sockets[s].peer
        /\ sockets'[s].inbox = Received(s)[s].inbox
    <2>1. [Received(s)[s] EXCEPT !.isAlive = TRUE] \in Socket BY <1>2 DEF Socket
    <2>2. sockets' = [Received(s) EXCEPT ![s] = [Received(s)[s] EXCEPT !.isAlive = TRUE]] BY <1>2
    <2>3. sockets'[s] = [Received(s)[s] EXCEPT !.isAlive = TRUE] BY <1>2, <2>2
    <2> QED BY <1>2, <2>1, <2>2, <2>3 DEF Socket
  <1>4. ~keepaliveTimer /\ ~heartbeatTimer /\ ~legacyHeartbeat /\ ~pollTimer /\ ~(clientCount > 0)
    BY <1>1, <1>2 DEF Fits, OnlyWhileWatched
  <1>5. keepaliveTimer' = TRUE /\ legacyHeartbeat' = (count = Old)
    BY <1>2, LinkAssumption DEF HostReady
  <1>6. Fits(sockets[s])'
    <2>1. Counting(sockets[s]) => count # Old BY <1>4 DEF Counting, AnswerWaits
    <2>2. Counting(sockets[s]) => Counting(sockets[s])' BY <1>5, <2>1 DEF Counting
    <2> QED BY <1>2, <1>3, <2>2 DEF Fits
  <1>7. /\ WatchTypeOK' /\ Reported' /\ OnlyWhileWatched' /\ clientCount' \in Counts
        /\ heartbeatTimer' \in BOOLEAN
    <2>1. CASE count = Old
      <3>1. heartbeatTimer' = TRUE /\ UNCHANGED <<clientCount, watch, event>> BY <2>1 DEF HostReady
      <3>2. UNCHANGED <<pollTimer, debounceTimer, subscription, pending, stale, lastSummary, event>>
        BY <3>1 DEF watch
      <3>3. WatchTypeOK' BY <1>1, <3>2 DEF TypeOK, WatchTypeOK
      <3>4. Reported' BY <1>1, <1>4, <3>2 DEF Reported
      <3>5. OnlyWhileWatched'
        BY <1>1, <1>2, <1>3, <1>4, <1>5, <2>1, <3>1, <3>2, LinkAssumption DEF OnlyWhileWatched
      <3> QED BY <1>1, <3>1, <3>3, <3>4, <3>5 DEF TypeOK
    <2>2. CASE count # Old
      <3>1. SetClientCount(count) /\ count \in Counts BY <2>2 DEF HostReady
      <3>2. /\ WatchTypeOK' /\ Reported' /\ clientCount' \in Counts /\ heartbeatTimer' \in BOOLEAN
            /\ pollTimer' <=> clientCount' > 0
            /\ heartbeatTimer' <=> clientCount' > 0
            /\ ~pollTimer' => ~debounceTimer' /\ subscription' = "off" /\ lastSummary' = None
        BY <1>4, <3>1, CountsHold
      <3>3. OnlyWhileWatched'
        BY <1>2, <1>3, <1>5, <2>2, <3>2, LinkAssumption DEF OnlyWhileWatched
      <3> QED BY <3>2, <3>3
    <2> QED BY <2>1, <2>2
  <1>8. legacyHeartbeat' \in BOOLEAN /\ keepaliveTimer' \in BOOLEAN BY <1>5
  <1> QED BY <1>2, <1>3, <1>6, <1>7, <1>8, NewsHolds

(* A later client_count starts or stops the watch and leaves the telemetry to it. *)
LEMMA CountHolds ==
  ASSUME LinkInv, NEW s \in Sockets, sockets[s].state = "open", sockets[s].inbox # <<>>,
         NEW n \in Counts, sockets[s].inbox[1].type = "client_count",
         sockets' = Received(s), SetClientCount(n),
         UNCHANGED <<ws, reconnectTimer, keepaliveTimer, legacyHeartbeat, authFailure,
                     exit, herdr, snapshot, unseen, agentStatus>>
  PROVE  LinkInv'
  <1>1. /\ TypeOK /\ OnlyWhileWatched /\ Reported BY DEF LinkInv
  <1>2. /\ Received(s) \in [Sockets -> Socket] /\ \A t \in Sockets \ {s} : Received(s)[t] = sockets[t]
        /\ Received(s)[s].state = "open" /\ Received(s)[s].peer = sockets[s].peer
        /\ sockets[s].peer \notin {"taken", "hello"}
        /\ \A i \in 1 .. Len(Received(s)[s].inbox) :
              /\ Received(s)[s].inbox[i].type # "host_ready"
              /\ Received(s)[s].inbox[i].type = "client_count" => Counting(sockets[s])
        /\ s \in Busy /\ ws = s /\ Fits(sockets[s]) /\ 1 \in 1 .. Len(sockets[s].inbox)
    BY Heard
  <1>3. keepaliveTimer /\ ~legacyHeartbeat
    BY <1>2 DEF Fits, Counting, AnswerWaits
  <1>4. Fits(sockets[s])' BY <1>2, <1>3 DEF Fits, Counting
  <1>5. Delivered' => Delivered BY <1>2 DEF Delivered
  <1>6. /\ WatchTypeOK' /\ Reported' /\ clientCount' \in Counts /\ heartbeatTimer' \in BOOLEAN
        /\ pollTimer' <=> clientCount' > 0
        /\ heartbeatTimer' <=> clientCount' > 0
        /\ ~pollTimer' => ~debounceTimer' /\ subscription' = "off" /\ lastSummary' = None
    BY <1>3, <1>5, CountsHold
  <1>7. OnlyWhileWatched' BY <1>2, <1>3, <1>6, LinkAssumption DEF OnlyWhileWatched
  <1>8. legacyHeartbeat' \in BOOLEAN /\ keepaliveTimer' \in BOOLEAN BY <1>1 DEF TypeOK
  <1> QED BY <1>2, <1>4, <1>6, <1>7, <1>8, NewsHolds

(* An error is only noted for the close that follows it. *)
LEMMA ErrorHolds ==
  ASSUME LinkInv, NEW s \in Sockets, sockets[s].state = "open", sockets[s].inbox # <<>>,
         sockets[s].inbox[1].type = "error",
         sockets' = Received(s), authFailure' = sockets[s].inbox[1].auth,
         UNCHANGED <<ws, timers, clientCount, legacyHeartbeat, exit, watch, agents, agentStatus>>
  PROVE  LinkInv'
  <1>1. /\ Received(s) \in [Sockets -> Socket] /\ \A t \in Sockets \ {s} : Received(s)[t] = sockets[t]
        /\ Received(s)[s].state = "open" /\ Received(s)[s].peer = sockets[s].peer
        /\ sockets[s].peer \notin {"taken", "hello"} /\ sockets[s].inbox[1] \in Message
        /\ \A i \in 1 .. Len(Received(s)[s].inbox) :
              /\ Received(s)[s].inbox[i].type # "host_ready"
              /\ Received(s)[s].inbox[i].type = "client_count" => Counting(sockets[s])
        /\ s \in Busy /\ ws = s /\ Fits(sockets[s])
    BY Heard
  <1>2. authFailure' \in BOOLEAN BY <1>1 DEF Message
  <1>3. UNCHANGED <<keepaliveTimer, legacyHeartbeat>> BY DEF timers
  <1>4. Counting(sockets[s]) => Counting(sockets[s])' BY <1>3 DEF Counting, AnswerWaits
  <1>5. Fits(sockets[s])' BY <1>1, <1>3, <1>4 DEF Fits
  <1>6. Delivered' => Delivered BY <1>1 DEF Delivered
  <1> QED BY <1>1, <1>2, <1>5, <1>6, SocketStep

(* Every message the connector may receive keeps the invariant. *)
LEMMA ReceiveHolds ==
  ASSUME LinkInv, NEW s \in Sockets, Receive(s)
  PROVE  LinkInv'
  <1>1. sockets[s].state = "open" /\ sockets[s].inbox # <<>> BY DEF Receive
  <1> DEFINE m == sockets[s].inbox[1]
  <1>2. Head(sockets[s].inbox) = m /\ m \in Message /\ s \in Busy BY <1>1, Heard
  <1>3. CASE /\ m.type = "host_ready"
             /\ sockets' = [Received(s) EXCEPT ![ws].isAlive = TRUE] /\ HostReady(m.count)
             /\ UNCHANGED <<ws, reconnectTimer, authFailure, exit, herdr, snapshot, unseen, agentStatus>>
    <2>1. m.count \in Counts \cup {Old} BY <1>2, <1>3 DEF Message
    <2> QED BY <1>1, <1>3, <2>1, ReadyHolds
  <1>4. CASE /\ m.type = "client_count" /\ sockets' = Received(s) /\ SetClientCount(m.count)
             /\ UNCHANGED <<ws, reconnectTimer, keepaliveTimer, legacyHeartbeat, authFailure,
                            exit, herdr, snapshot, unseen, agentStatus>>
    <2>1. m.count \in Counts BY <1>2, <1>4 DEF Message
    <2> QED BY <1>1, <1>4, <2>1, CountHolds
  <1>5. CASE /\ m.type = "error" /\ sockets' = Received(s) /\ authFailure' = m.auth
             /\ UNCHANGED <<ws, timers, clientCount, legacyHeartbeat, exit, watch, agents, agentStatus>>
    BY <1>1, <1>5, ErrorHolds
  <1>6. CASE CloseEvent(s, m.reason) BY <1>2, <1>6, CloseHolds
  <1> QED BY <1>2, <1>3, <1>4, <1>5, <1>6 DEF Receive

(* A dial that is due finds no socket in use. *)
LEMMA ReconnectHolds ==
  ASSUME LinkInv, NEW throws \in BOOLEAN, ReconnectFires(throws)
  PROVE  LinkInv'
  <1>1. TypeOK /\ Present /\ OnlyWhileWatched /\ Reported BY DEF LinkInv
  <1>2. ws = None /\ Busy = {} BY <1>1, LinkAssumption DEF ReconnectFires, Present, Busy, In
  <1>3. ~keepaliveTimer /\ ~heartbeatTimer /\ ~pollTimer BY <1>1, <1>2 DEF OnlyWhileWatched
  <1>4. /\ UNCHANGED <<heartbeatTimer, clientCount, legacyHeartbeat, authFailure, exit,
                       pollTimer, debounceTimer, subscription, pending, stale, lastSummary,
                       herdr, snapshot, event, unseen, agentStatus>>
        /\ keepaliveTimer' = FALSE /\ exit = "runs"
        /\ \/ reconnectTimer' = TRUE /\ UNCHANGED <<sockets, ws>>
           \/ reconnectTimer' = FALSE /\ \E s \in Sockets : Dial(s)
    BY <1>2 DEF ReconnectFires, Connect, load, watch, agents, Runs
  <1>5. WatchTypeOK' BY <1>1, <1>4 DEF TypeOK, WatchTypeOK
  <1>6. Reported' BY <1>1, <1>3, <1>4 DEF Reported
  <1>7. OnlyWhileWatched' BY <1>1, <1>3, <1>4 DEF OnlyWhileWatched
  <1>8. {reconnectTimer, heartbeatTimer, keepaliveTimer, legacyHeartbeat, authFailure}' \subseteq BOOLEAN
    <2>1. {heartbeatTimer, legacyHeartbeat, authFailure} \subseteq BOOLEAN BY <1>1 DEF TypeOK
    <2> QED BY <1>4, <2>1
  <1>9. CASE UNCHANGED <<sockets, ws>>
    <2>1. TypeOK' BY <1>1, <1>4, <1>5, <1>8, <1>9 DEF TypeOK
    <2>2. Busy' = {} BY <1>2, <1>9 DEF Busy, In
    <2>3. Present' BY <1>2, <1>9, <2>2 DEF Present
    <2> QED BY <1>6, <1>7, <2>1, <2>2, <2>3 DEF LinkInv
  <1>10. CASE reconnectTimer' = FALSE /\ \E s \in Sockets : Dial(s)
    <2>1. PICK s \in Sockets : sockets' = [sockets EXCEPT ![s] = Dialled] /\ ws' = s BY <1>10 DEF Dial
    <2>2. sockets \in [Sockets -> Socket] BY <1>1 DEF TypeOK, Socket
    <2>3. /\ sockets' \in [Sockets -> Socket] /\ sockets'[s] = Dialled
          /\ \A t \in Sockets \ {s} : sockets'[t] = sockets[t]
      BY <2>1, <2>2, SocketTypes
    <2>4. TypeOK' BY <1>1, <1>4, <1>5, <1>8, <2>1, <2>3 DEF TypeOK, Socket
    <2>5. Dialled.state = "connecting" /\ Dialled.peer = "taken" /\ Dialled.inbox = <<>>
      BY DEF Dialled, Free
    <2>6. Busy' = {s} BY <1>2, <2>3, <2>5 DEF Busy, In
    <2>7. Present' BY <1>4, <1>10, <2>1, <2>6 DEF Present, Runs
    <2>8. Fits(sockets[s])' BY <1>4, <2>3, <2>5 DEF Fits
    <2> QED BY <1>6, <1>7, <2>4, <2>6, <2>7, <2>8 DEF LinkInv
  <1> QED BY <1>4, <1>9, <1>10

(* --- the theorems --- *)

(* The first dial. *)
LEMMA LinkInit == Init => LinkInv
  <1> SUFFICES ASSUME Init PROVE LinkInv
    OBVIOUS
  <1>1. PICK s \in Sockets :
          sockets = [t \in Sockets |-> IF t = s THEN Dialled ELSE Free] /\ ws = s
    BY DEF Init
  <1>2. sockets \in [Sockets -> Socket] BY <1>1, SocketTypes
  <1>3. /\ Dialled.state = "connecting" /\ Dialled.peer = "taken" /\ Dialled.inbox = <<>>
        /\ Free.state = "free"
    BY DEF Dialled, Free
  <1>4. Busy = {s} BY <1>1, <1>3 DEF Busy, In
  <1>5. /\ WatchTypeOK /\ ~pollTimer /\ ~debounceTimer /\ subscription = "off" /\ lastSummary = None
        /\ ~event /\ snapshot = None
    BY DEF Init, WatchInit, WatchTypeOK
  <1>6. /\ reconnectTimer = FALSE /\ heartbeatTimer = FALSE /\ keepaliveTimer = FALSE
        /\ clientCount = 0 /\ legacyHeartbeat = FALSE /\ authFailure = FALSE /\ exit = "runs"
    BY DEF Init
  <1>7. 0 \in Counts BY LinkAssumption DEF Counts
  <1>8. TypeOK BY <1>1, <1>2, <1>5, <1>6, <1>7 DEF TypeOK, Socket
  <1>9. Present BY <1>1, <1>4, <1>6 DEF Present, Runs
  <1>10. OnlyWhileWatched /\ Reported BY <1>5, <1>6 DEF OnlyWhileWatched, Reported
  <1>11. Fits(sockets[s]) BY <1>1, <1>3, <1>6 DEF Fits
  <1> QED BY <1>4, <1>8, <1>9, <1>10, <1>11 DEF LinkInv

(* Every step of the connector, the watch, Herdr and the relay keeps the invariant. *)
LEMMA LinkNext == LinkInv /\ [Next]_vars => LinkInv'
  <1> SUFFICES ASSUME LinkInv, [Next]_vars PROVE LinkInv'
    OBVIOUS
  <1>1. CASE UNCHANGED vars
    BY <1>1 DEF vars, link, timers, watch, agents, LinkInv, TypeOK, WatchTypeOK, Present, OnlyWhileWatched,
         Reported, Delivered, Busy, In, Fits, Counting, AnswerWaits, Runs
  <1>2. CASE ConnectorStep
    <2>1. ASSUME Stop PROVE LinkInv' BY <2>1, EndsHold DEF Stop
    <2>2. ASSUME NEW s \in Sockets, Drops(s) PROVE LinkInv'
      <3>1. CloseEvent(s, "other") /\ sockets[s].state # "free" BY <2>2 DEF Drops, In
      <3>2. s \in Busy BY <3>1, InUse
      <3> QED BY <3>1, <3>2, CloseHolds
    <2> QED BY <1>2, <2>1, <2>2, ReconnectHolds, KeepaliveHolds, OpensHolds, ReceiveHolds DEF ConnectorStep
  <1> QED BY <1>1, <1>2, RelayHolds, WatchHolds DEF Next

(* The inductive invariant of the link holds in every reachable state. *)
THEOREM LinkHolds == Spec => []LinkInv
  BY LinkInit, LinkNext, PTL DEF Spec

(* A connector never has two sockets towards the relay, nor a dial to come beside   *)
(* one, and reports load and agents only while a window looks, as the relay of the *)
(* present connection has said (host-connector.ts).                               *)
THEOREM LinkIsOne == Spec => []OneLink
  <1>1. LinkInv => OneLink
    <2> SUFFICES ASSUME LinkInv PROVE OneSocket
      BY DEF OneLink, LinkInv
    <2>1. Present BY DEF LinkInv
    <2>2. Busy = {} \/ Busy = {ws} BY <2>1 DEF Present
    <2>3. Cardinality({}) = 0 /\ Cardinality({ws}) = 1 BY FS_EmptySet, FS_Singleton
    <2>4. Cardinality(Busy) <= 1 BY <2>2, <2>3
    <2>5. reconnectTimer => Busy = {} BY <2>1, LinkAssumption DEF Present, Busy, In
    <2> QED BY <2>1, <2>4, <2>5 DEF OneSocket, Present, Busy
  <1> QED BY <1>1, LinkHolds, PTL

(* A watch at rest has last reported what Herdr would answer now, and the relay     *)
(* holds it: no event is lost to a read in flight, nor to a watch begun during one *)
(* (agent-watch.ts).                                                              *)
THEOREM RestIsFresh == Spec => []QuietMeansFresh
  <1>1. LinkInv => QuietMeansFresh
    <2> SUFFICES ASSUME LinkInv, pollTimer, subscription = "up", ~event, ~debounceTimer, ~pending, ~unseen
                 PROVE  lastSummary = herdr /\ (Delivered => agentStatus = herdr)
      BY DEF QuietMeansFresh
    <2>1. Reported /\ herdr \in Summaries BY DEF LinkInv, TypeOK, WatchTypeOK
    <2>2. lastSummary = herdr BY <2>1 DEF Reported
    <2>3. herdr # None BY <2>1, SummaryAssumption
    <2> QED BY <2>1, <2>2, <2>3 DEF Reported
  <1> QED BY <1>1, LinkHolds, PTL

-----------------------------------------------------------------------------
(* The lock file (packages/cli/src/connector/lock.ts), for any number of connector  *)
(* processes that contend for it: HostLock.                                         *)

LEMMA InitLockTyped == LockInit => LockTypeOK
  BY DEF LockInit, LockTypeOK

LEMMA NextLockTyped == LockTypeOK /\ [LockNext]_lockVars => LockTypeOK'
<1> SUFFICES ASSUME LockTypeOK, [LockNext]_lockVars PROVE LockTypeOK'
  OBVIOUS
<1> USE DEF LockTypeOK, Goto, Taking, Releasing, Over
<1>1. ASSUME NEW p \in Procs, Start(p) \/ Release(p) \/ Die(p) PROVE LockTypeOK'
  BY <1>1 DEF Start, Release, Die
<1>2. ASSUME NEW p \in Procs, Open(p) \/ Write(p) \/ ReadOwner(p) PROVE LockTypeOK'
  BY <1>2 DEF Open, Write, ReadOwner
<1>3. ASSUME NEW p \in Procs, Remove(p) \/ ReadBeforeUnlink(p) \/ Unlink(p) PROVE LockTypeOK'
  BY <1>3 DEF Remove, ReadBeforeUnlink, Unlink
<1>4. CASE UNCHANGED lockVars
  BY <1>4 DEF lockVars
<1> QED
  BY <1>1, <1>2, <1>3, <1>4 DEF LockNext, Step

(* A step of another process leaves a settled holder settled: a contender finds *)
(* the holder's file and that it runs, one that gives up finds it is not its own. *)
LEMMA RivalLeavesSettled ==
  ASSUME LockTypeOK, NEW p \in Procs, Settled(p), NEW q \in Procs, q # p,
         Start(q) \/ Step(q) \/ Release(q) \/ Die(q)
  PROVE  Settled(p)'
<1>1. /\ pc[p] = "held" /\ pc[q] # "held" /\ ~Midway(q)
      /\ file = p /\ p \in written /\ Owner = p /\ p # Nobody
  BY LockAssumption DEF Settled, Holders, Owner
<1>2. /\ file' = file /\ written' = written
      /\ pc' = [pc EXCEPT ![q] = pc'[q]]
      /\ pc'[q] \notin {"held", "writing", "remove", "unlinking"}
  <2>1. CASE Start(q) \/ Release(q) \/ Die(q)
    BY <1>1, <2>1 DEF Start, Release, Die, Goto, LockTypeOK
  <2>2. CASE Open(q)
    BY <1>1, <2>2 DEF Open, Goto, LockTypeOK
  <2>3. CASE ReadOwner(q)
    BY <1>1, <2>3 DEF ReadOwner, Goto, LockTypeOK, Alive, Over
  <2>4. CASE ReadBeforeUnlink(q)
    BY <1>1, <2>4 DEF ReadBeforeUnlink, Goto, LockTypeOK
  <2>5. CASE Write(q) \/ Remove(q) \/ Unlink(q)
    BY <1>1, <2>5 DEF Write, Remove, Unlink, Midway
  <2> QED
    BY <2>1, <2>2, <2>3, <2>4, <2>5 DEF Step
<1>3. pc' \in [Procs -> {"new", "held"} \cup Taking \cup Releasing \cup Over]
      /\ \A r \in Procs \ {q} : pc'[r] = pc[r]
  <2>1. pc \in [Procs -> {"new", "held"} \cup Taking \cup Releasing \cup Over]
    BY DEF LockTypeOK
  <2>2. pc'[q] \in {"new", "held"} \cup Taking \cup Releasing \cup Over
    BY NextLockTyped DEF LockNext, LockTypeOK
  <2> QED
    BY <1>2, <2>1, <2>2
<1>4. \A r \in Procs : (r \in Holders)' <=> r \in Holders
  BY <1>1, <1>2, <1>3 DEF Holders
<1>5. \A r \in Procs : ~Midway(r)'
  BY <1>2, <1>3 DEF Midway, Settled
<1>6. Holders' = Holders
  BY <1>4 DEF Holders
<1> QED
  BY <1>1, <1>2, <1>5, <1>6 DEF Settled, Owner

(* A connector that holds the lock while no rival is midway keeps it alone, with *)
(* its file in place, however many others contend for it, until it gives it up   *)
(* or dies.                                                                      *)
THEOREM HeldLockKept == LockSpec => HeldLockIsKept
<1>1. LockTypeOK /\ [LockNext]_lockVars =>
        [\A p \in Procs : Settled(p) /\ pc'[p] = "held" => Settled(p)']_lockVars
  <2> SUFFICES ASSUME LockTypeOK, LockNext, NEW p \in Procs, Settled(p), pc'[p] = "held"
               PROVE  Settled(p)'
    BY DEF lockVars
  <2>1. PICK q \in Procs : Start(q) \/ Step(q) \/ Release(q) \/ Die(q)
    BY DEF LockNext
  <2>2. q # p
    <3>1. pc[p] = "held"
      BY DEF Settled, Holders
    <3>2. ASSUME q = p
          PROVE  pc'[p] # "held"
      BY <2>1, <3>1, <3>2 DEF LockTypeOK, Goto, Start, Step, Open, Write, ReadOwner, Remove,
         ReadBeforeUnlink, Unlink, Release, Die
    <3> QED
      BY <3>2
  <2> QED
    BY <2>1, <2>2, RivalLeavesSettled
<1> QED
  BY <1>1, InitLockTyped, NextLockTyped, PTL DEF LockSpec, HeldLockIsKept
=============================================================================
