------------------------------ MODULE HostLink ------------------------------
(***************************************************************************)
(* A workstation's link to the relay: connect and reconnect, the hello and   *)
(* its answer, the keepalive, what the relay says of the windows attached,   *)
(* and the telemetry and the agent watch that follow it                      *)
(* (packages/cli/src/connector/{host-connector,main}.ts, with the relay's    *)
(* side of the handshake in packages/relay/src/server/host-channel.ts).      *)
(*                                                                         *)
(* The sessions, files and pastes that disconnected() also ends are in       *)
(* HostSessions and PasteUpload.  A socket has two ends: the connector's      *)
(* state, and how far its peer is.  A peer that has "gone" answers nothing    *)
(* and the connector is not told: the half-open link of a lost network.       *)
(***************************************************************************)
EXTENDS AgentWatch, Sequences, FiniteSets

CONSTANTS
  MaxClients,   \* bound: windows the relay counts
  MaxInbox,     \* bound: messages on their way to the connector
  Sockets       \* names of sockets; a closed one is used again

ASSUME LinkAssumption ==
  /\ MaxClients \in Nat \ {0} /\ MaxInbox \in Nat
  /\ Sockets \subseteq Nat /\ Sockets # {} /\ None \notin Sockets

VARIABLES
  sockets,        \* every socket of the connector and its peer
  ws,
  reconnectTimer, heartbeatTimer, keepaliveTimer,   \* whether each is set
  clientCount, legacyHeartbeat, authFailure,
  exit            \* why the process has ended, or "runs"

timers == <<reconnectTimer, heartbeatTimer, keepaliveTimer>>
load == <<heartbeatTimer, clientCount, legacyHeartbeat>>
link == <<sockets, ws, timers, clientCount, legacyHeartbeat, authFailure, exit>>
vars == <<link, watch, agents, agentStatus>>

\* The peer has taken the connection, has been sent the hello, has registered
\* the host (as an old relay does, that counts no windows), has closed its end,
\* or is gone.
Registered == {"host", "old"}
Peers == {"taken", "hello", "left", "gone"} \cup Registered
Counts == 0 .. MaxClients
Old == None    \* the clientCount of a relay that does not know the field

Message ==
  [type : {"host_ready"}, count : Counts \cup {Old}]
    \cup [type : {"client_count"}, count : Counts]
    \cup [type : {"error"}, auth : BOOLEAN]
    \cup [type : {"close"}, reason : {"host_replaced", "other"}]

Free == [state |-> "free", isAlive |-> FALSE, pinged |-> FALSE, peer |-> "left", inbox |-> <<>>]
Dialled == [Free EXCEPT !.state = "connecting", !.isAlive = TRUE, !.peer = "taken"]

In(states) == {s \in Sockets : sockets[s].state \in states}
Runs == exit = "runs"

TypeOK ==
  /\ WatchTypeOK
  /\ sockets \in [Sockets ->
       [state : {"free", "connecting", "open", "closing"}, isAlive : BOOLEAN,
        pinged : BOOLEAN, peer : Peers, inbox : Seq(Message)]]
  /\ ws \in Sockets \cup {None}
  /\ {reconnectTimer, heartbeatTimer, keepaliveTimer, legacyHeartbeat, authFailure}
       \subseteq BOOLEAN
  /\ clientCount \in Counts
  /\ exit \in {"runs", "stopped", "EXIT_REPLACED", "EXIT_AUTH_FAILED"}

(* --- connect and reconnect --- *)

\* The socket of a dial; there is always one while at most one is in use.
Dial(s) ==
  /\ s \in In({"free"}) /\ \A t \in In({"free"}) : s <= t
  /\ sockets' = [sockets EXCEPT ![s] = Dialled]
  /\ ws' = s

\* connect() with the reconnect timer as the caller leaves it; WebSocket may throw.
Connect(timer, throws) ==
  IF ws # None /\ sockets[ws].state \in {"connecting", "open"}
  THEN /\ reconnectTimer' = timer
       /\ UNCHANGED <<sockets, ws, keepaliveTimer>>
  ELSE /\ keepaliveTimer' = FALSE
       /\ IF throws
          THEN reconnectTimer' = TRUE /\ UNCHANGED <<sockets, ws>>
          ELSE reconnectTimer' = timer /\ \E s \in Sockets : Dial(s)

\* start() leaves the first socket dialled: the first state.
Init ==
  /\ WatchInit
  /\ \E s \in Sockets :
       /\ \A t \in Sockets : s <= t
       /\ sockets = [t \in Sockets |-> IF t = s THEN Dialled ELSE Free]
       /\ ws = s
  /\ reconnectTimer = FALSE /\ heartbeatTimer = FALSE /\ keepaliveTimer = FALSE
  /\ clientCount = 0 /\ legacyHeartbeat = FALSE /\ authFailure = FALSE
  /\ exit = "runs"

ReconnectFires(throws) ==
  /\ Runs /\ reconnectTimer
  /\ Connect(FALSE, throws)
  /\ UNCHANGED <<load, authFailure, exit, watch, agents, agentStatus>>

\* The relay, or a proxy before it, takes the connection: the open event.
Opens(s) ==
  /\ Runs /\ sockets[s].state = "connecting" /\ sockets[s].peer = "taken"
  /\ sockets' = [sockets EXCEPT ![s].state = "open", ![s].isAlive = TRUE, ![s].peer = "hello"]
  /\ authFailure' = FALSE
  /\ UNCHANGED <<ws, timers, clientCount, legacyHeartbeat, exit, watch, agents, agentStatus>>

\* disconnected(): nothing that lived on the connection goes on.
Disconnected ==
  /\ heartbeatTimer' = FALSE /\ keepaliveTimer' = FALSE
  /\ clientCount' = 0 /\ legacyHeartbeat' = FALSE
  /\ StopWatch
  /\ UNCHANGED <<herdr, snapshot, unseen, agentStatus>>

\* The process ends, by stop() and main.ts or by onFatal, and its sockets with it.
Ends(why) ==
  /\ exit' = why
  /\ sockets' = [s \in Sockets |-> Free]
  /\ ws' = None
  /\ reconnectTimer' = FALSE
  /\ Disconnected
  /\ UNCHANGED authFailure

Stop == Runs /\ Ends("stopped")

\* scheduleReconnect(): one timer at a time.
ScheduleReconnect == reconnectTimer' = TRUE

\* The close event of socket s; a stale socket's changes nothing else.
CloseEvent(s, reason) ==
  IF ws # s
  THEN /\ sockets' = [sockets EXCEPT ![s] = Free]
       /\ UNCHANGED <<ws, timers, clientCount, legacyHeartbeat, authFailure, exit,
                      watch, agents, agentStatus>>
  ELSE \/ reason = "host_replaced" /\ Ends("EXIT_REPLACED")
       \/ reason # "host_replaced" /\ authFailure /\ Ends("EXIT_AUTH_FAILED")
       \/ /\ reason # "host_replaced" /\ ~authFailure
          /\ sockets' = [sockets EXCEPT ![s] = Free]
          /\ ws' = None
          /\ Disconnected
          /\ ScheduleReconnect
          /\ UNCHANGED <<authFailure, exit>>

\* The network ends a socket, or the end the connector asked for is complete.
Drops(s) ==
  /\ Runs /\ s \notin In({"free"})
  /\ CloseEvent(s, "other")

(* --- messages --- *)

\* setClientCount(n); the load is sent, and the watch runs, while someone looks.
SetClientCount(n) ==
  IF n = clientCount /\ (n = 0 \/ heartbeatTimer)
  THEN UNCHANGED <<clientCount, heartbeatTimer, watch, event>>
  ELSE /\ clientCount' = n
       /\ heartbeatTimer' = (n > 0)
       /\ IF n > 0 THEN StartWatch ELSE StopWatch

HostReady(count) ==
  /\ keepaliveTimer' = (ws # None)
  /\ legacyHeartbeat' = (count = Old)
  /\ IF count = Old
     THEN heartbeatTimer' = TRUE /\ UNCHANGED <<clientCount, watch, event>>
     ELSE SetClientCount(count)

Received(s) == [sockets EXCEPT ![s].inbox = Tail(@)]

Receive(s) ==
  /\ Runs /\ sockets[s].state = "open" /\ sockets[s].inbox # <<>>
  /\ LET m == Head(sockets[s].inbox) IN
     \/ /\ m.type = "host_ready"
        /\ sockets' = [Received(s) EXCEPT ![ws].isAlive = TRUE]
        /\ HostReady(m.count)
        /\ UNCHANGED <<ws, reconnectTimer, authFailure, exit,
                       herdr, snapshot, unseen, agentStatus>>
     \/ /\ m.type = "client_count"
        /\ sockets' = Received(s)
        /\ SetClientCount(m.count)
        /\ UNCHANGED <<ws, reconnectTimer, keepaliveTimer, legacyHeartbeat, authFailure,
                       exit, herdr, snapshot, unseen, agentStatus>>
     \/ /\ m.type = "error"
        /\ sockets' = Received(s)
        /\ authFailure' = m.auth
        /\ UNCHANGED <<ws, timers, clientCount, legacyHeartbeat, exit, watch, agents,
                       agentStatus>>
     \/ m.type = "close" /\ CloseEvent(s, m.reason)

(* --- keepalive --- *)

\* Mutant: the next dial does not wait for the close event.
KeepaliveTick_Redials ==
  /\ Runs /\ keepaliveTimer /\ ws # None /\ sockets[ws].state = "open"
  /\ IF sockets[ws].isAlive
     THEN /\ sockets' = [sockets EXCEPT ![ws].isAlive = FALSE, ![ws].pinged = TRUE]
          /\ UNCHANGED <<ws, reconnectTimer>>
     ELSE /\ sockets' = [sockets EXCEPT ![ws].state = "closing", ![ws].inbox = <<>>]
          /\ ws' = None /\ reconnectTimer' = TRUE
  /\ UNCHANGED <<heartbeatTimer, keepaliveTimer, clientCount, legacyHeartbeat, authFailure, exit,
                 watch, agents, agentStatus>>

\* Mutant: the pong is not looked for.
KeepaliveTick_Trusts ==
  /\ Runs /\ keepaliveTimer /\ ws # None /\ sockets[ws].state = "open"
  /\ sockets' = [sockets EXCEPT ![ws].isAlive = FALSE, ![ws].pinged = TRUE]
  /\ UNCHANGED <<ws, timers, clientCount, legacyHeartbeat, authFailure, exit, watch, agents,
                 agentStatus>>

\* A socket that missed a whole interval is terminated, the others are asked.
KeepaliveTick ==
  /\ Runs /\ keepaliveTimer /\ ws # None /\ sockets[ws].state = "open"
  /\ sockets' = IF sockets[ws].isAlive
                THEN [sockets EXCEPT ![ws].isAlive = FALSE, ![ws].pinged = TRUE]
                ELSE [sockets EXCEPT ![ws].state = "closing", ![ws].inbox = <<>>]
  /\ UNCHANGED <<ws, timers, clientCount, legacyHeartbeat, authFailure, exit, watch, agents,
                 agentStatus>>

Pong(s) ==
  /\ Runs /\ sockets[s].state = "open" /\ sockets[s].pinged
  /\ sockets[s].peer \in Registered
  /\ sockets' = [sockets EXCEPT ![s].isAlive = TRUE, ![s].pinged = FALSE]
  /\ UNCHANGED <<ws, timers, clientCount, legacyHeartbeat, authFailure, exit, watch, agents,
                 agentStatus>>

(* --- the relay and the network --- *)

RelaySends(s, peer, messages) ==
  /\ Runs /\ sockets[s].state = "open"
  /\ sockets' = [sockets EXCEPT ![s].peer = peer, ![s].inbox = @ \o messages]
  /\ UNCHANGED <<ws, timers, clientCount, legacyHeartbeat, authFailure, exit, watch, agents>>

Ready(c) == [type |-> "host_ready", count |-> c]
ClientCount(c) == [type |-> "client_count", count |-> c]
Close(reason) == [type |-> "close", reason |-> reason]

\* The hello is accepted: a new host record, with no agent status yet.
RelayRegisters(s, c) ==
  /\ sockets[s].peer = "hello"
  /\ IF c = Old
     THEN RelaySends(s, "old", <<Ready(Old)>>)
     ELSE RelaySends(s, "host", <<Ready(c), ClientCount(c)>>)
  /\ agentStatus' = None

\* rejectHandshake(): some codes say that no reconnect can help.
RelayRejects(s, auth) ==
  /\ sockets[s].peer = "hello"
  /\ RelaySends(s, "left", <<[type |-> "error", auth |-> auth], Close("other")>>)
  /\ UNCHANGED agentStatus

RelayCounts(s, c) ==
  /\ sockets[s].peer = "host" /\ Len(sockets[s].inbox) < MaxInbox
  /\ RelaySends(s, "host", <<ClientCount(c)>>)
  /\ UNCHANGED agentStatus

\* A later hello for the same host, or any other close.
RelayCloses(s, reason) ==
  /\ sockets[s].peer \in {"hello"} \cup Registered
  /\ reason = "host_replaced" => sockets[s].peer \in Registered
  /\ RelaySends(s, "left", <<Close(reason)>>)
  /\ UNCHANGED agentStatus

PeerGone(s) ==
  /\ Runs /\ s \in In({"connecting", "open"}) /\ sockets[s].peer \notin {"left", "gone"}
  /\ sockets' = [sockets EXCEPT ![s].peer = "gone"]
  /\ UNCHANGED <<ws, timers, clientCount, legacyHeartbeat, authFailure, exit, watch, agents,
                 agentStatus>>

(* --- the agent watch on this link --- *)

Delivered == ws # None /\ sockets[ws].state = "open" /\ sockets[ws].peer \in Registered

WatchStep ==
  /\ Runs
  /\ \/ PollTick \/ DebounceFires \/ ReadEnds(Delivered) \/ ReadFails
     \/ SubscriptionStarts \/ EventArrives
  /\ UNCHANGED link

HerdrStep ==
  /\ Runs
  /\ \/ HerdrAnswers \/ SubscriptionLost
     \/ \E s \in Summaries : FocusChanges(s) \/ StatusChanges(s)
  /\ UNCHANGED link

(* --- the specification --- *)

ConnectorStep ==
  \/ Stop
  \/ \E throws \in BOOLEAN : ReconnectFires(throws)
  \/ KeepaliveTick
  \/ \E s \in Sockets : Opens(s) \/ Receive(s) \/ Pong(s) \/ Drops(s)

RelayStep ==
  \E s \in Sockets :
    \/ \E c \in Counts \cup {Old} : RelayRegisters(s, c)
    \/ \E auth \in BOOLEAN : RelayRejects(s, auth)
    \/ \E c \in Counts : RelayCounts(s, c)
    \/ \E reason \in {"host_replaced", "other"} : RelayCloses(s, reason)
    \/ PeerGone(s)

Next == ConnectorStep \/ RelayStep \/ WatchStep \/ HerdrStep

Spec == Init /\ [][Next]_vars

\* TCP gives up a socket whose peer has left, or went before it was registered:
\* the upgrade request or the hello is never acknowledged.
TcpGivesUp(s) ==
  /\ \/ sockets[s].state = "closing"
     \/ sockets[s].peer \in {"left", "gone"} /\ sockets[s].inbox = <<>> /\ ~keepaliveTimer
  /\ Drops(s)

ReceiveReady(s) ==
  /\ sockets[s].inbox # <<>> /\ Head(sockets[s].inbox).type = "host_ready"
  /\ Receive(s)

\* Timers fire and messages that arrived are handled; now and then a dial is
\* taken, the relay accepts a hello and its answer arrives.
Fairness ==
  /\ SF_vars(ReconnectFires(FALSE)) /\ WF_vars(KeepaliveTick)
  /\ SF_vars(\E s \in Sockets : Opens(s))
  /\ SF_vars(\E s \in Sockets, c \in Counts \cup {Old} : RelayRegisters(s, c))
  /\ SF_vars(\E s \in Sockets : ReceiveReady(s))
  /\ WF_vars(\E s \in Sockets : Receive(s))
  /\ WF_vars(\E s \in Sockets : Pong(s) \/ TcpGivesUp(s))

LiveSpec == Spec /\ Fairness

(* --- properties --- *)

\* The connector never has two sockets towards the relay, nor a dial to come
\* beside one: each would have the relay replace the other.
OneSocket ==
  /\ Cardinality(In({"connecting", "open", "closing"})) <= 1
  /\ reconnectTimer => In({"connecting", "open", "closing"}) = {}
  /\ \A s \in In({"connecting", "open", "closing"}) : ws = s

\* Load and agents are reported only while a window looks, as the relay of the
\* present connection has said; nothing of a connection outlives it.
OnlyWhileWatched ==
  /\ pollTimer <=> clientCount > 0
  /\ heartbeatTimer <=> (clientCount > 0 \/ legacyHeartbeat)
  /\ heartbeatTimer => keepaliveTimer
  /\ keepaliveTimer => ws # None /\ sockets[ws].peer # "taken"
  /\ ~pollTimer => ~debounceTimer /\ subscription = "off" /\ lastSummary = None

\* Both: one link (host-connector.ts), and beside it what the present one asks for.
OneLink == OneSocket /\ OnlyWhileWatched

\* When the watch is at rest, with its subscription up and nothing that only a
\* poll could find, what it reported last is what Herdr would answer now, and the
\* relay holds it: no event is lost to a read that was in flight or to a watch
\* begun during one, and a new host record gets the summary the old one had.
QuietMeansFresh ==
  pollTimer /\ subscription = "up" /\ ~event /\ ~debounceTimer /\ ~pending /\ ~unseen
    => lastSummary = herdr /\ (Delivered => agentStatus = herdr)

\* A connector that runs is time and again registered at the relay, after a
\* rejection that is not final or a failed dial too; and it gives up a link on
\* which the relay has gone silent.
LinkReturns ==
  /\ []<>(keepaliveTimer \/ ~Runs)
  /\ (keepaliveTimer /\ ~Delivered) ~> ~keepaliveTimer
=============================================================================
