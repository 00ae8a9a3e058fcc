------------------------------- MODULE Relay -------------------------------
(***************************************************************************)
(* The relay's registry of workstations ("hosts") and browser windows      *)
(* ("clients"), the PTY session each window has on its host, and how both   *)
(* come and go: hello, hand-off to a newer connection of the same host,     *)
(* reconnect grace period, detaching, sweeping, revoking, shutting down.    *)
(* Source: packages/relay/src/server/{sessions,host-channel,client-channel, *)
(* maintenance}.ts and relay-server.ts.                                     *)
(*                                                                         *)
(* The relay is one Node process: each handler runs to its end before the   *)
(* next event, so a handler is one action.  A connection is used once, and  *)
(* a record is named by its connection: the RelayHost made by connection h  *)
(* is host[h].  Stream ids are random in the code; a window starts at most  *)
(* one session on each host connection, so <<h, c>> names the stream that   *)
(* window c was given on connection h.                                      *)
(***************************************************************************)
EXTENDS Naturals, FiniteSets

CONSTANTS
  HostIds,              \* identities of workstations
  HostConns,            \* WebSockets on the host path
  WindowConns,          \* WebSockets on the client path
  Devices,              \* paired devices
  HostOf,               \* the workstation each device is paired with
  MaxHosts, MaxClientsPerHost, MaxPendingHandshakes,   \* relay.config.relay
  IndexCount,           \* v2 stream indices of one host (65536 in the code)
  SendMayThrow,         \* whether ws.send on an open socket may throw
  None

ASSUME NoneAssumption ==
  None \notin HostIds \cup HostConns \cup WindowConns \cup Devices \cup Nat
ASSUME DeviceAssumption == HostOf \in [Devices -> HostIds]
ASSUME LimitAssumption ==
  /\ MaxHosts \in Nat /\ MaxClientsPerHost \in Nat /\ MaxPendingHandshakes \in Nat
  /\ IndexCount \in Nat \ {0}
  /\ SendMayThrow \in BOOLEAN
ASSUME FiniteAssumption ==
  IsFiniteSet(HostIds) /\ IsFiniteSet(HostConns) /\ IsFiniteSet(WindowConns)

VARIABLES
  hosts,       \* relay.hosts: host id -> the connection whose record is registered
  clients,     \* relay.clients: the registered windows
  streams,     \* relay.streams: the live stream ids
  host,        \* the fixed part of the RelayHost record each host connection made
  wired,       \* the records with host.ws set
  reconnecting, timers,   \* the records waiting for a reconnect, those with a timer
  indexTable, nextIndex,  \* host.streamIndices, host.nextStreamIndex
  members,     \* the Set objects behind host.clients; a hand-off shares one
  client,      \* device and capability of each authenticated window
  session,     \* client.session
  hostSock, windowSock,   \* readyState of each WebSocket
  running,     \* the windows whose session the connector on h was told to run;
               \* a connector ends them all when its connection closes
  toldCount,   \* the last client_count sent on h
  told,        \* the last lifecycle message sent to each window
  revoked,     \* devices the operator revoked
  down         \* relay.close() was called

records == <<host, wired, reconnecting, timers, indexTable, nextIndex>>
registry == <<hosts, clients, streams, records, members, session>>
sockets == <<hostSock, windowSock>>
wire == <<running, toldCount, told>>
vars == <<registry, client, sockets, wire, revoked, down>>

Indices == 0 .. IndexCount - 1
SockStates == {"none", "open", "closing", "closed"}
NoSession == [on |-> None, index |-> None]
NoClient == [device |-> None, handoff |-> FALSE]
NoHost == [id |-> None, handoff |-> FALSE, v2 |-> FALSE, set |-> None]
EmptyTable == [i \in Indices |-> None]

Known(h) == host[h].id # None                \* pending.authenticated, host path
Current(h) == Known(h) /\ hosts[host[h].id] = h
WsOpen(h) == h \in wired /\ hostSock[h] = "open"         \* isOpen(host.ws)
Windows(h) == IF host[h].set = None THEN {} ELSE members[host[h].set]
Admitted(c) == client[c].device # None       \* pending.authenticated, client path
HostIdOf(c) == HostOf[client[c].device]      \* client.hostId
RecordOf(c) == hosts[HostIdOf(c)]            \* relay.hosts.get(client.hostId)
StreamOf(c) == <<session[c].on, c>>
Registered == {h \in HostConns : Current(h)}

TypeOK ==
  /\ hosts \in [HostIds -> HostConns \cup {None}]
  /\ clients \in SUBSET WindowConns
  /\ streams \in SUBSET (HostConns \X WindowConns)
  /\ host \in [HostConns ->
       [id : HostIds \cup {None}, handoff : BOOLEAN, v2 : BOOLEAN,
        set : HostConns \cup {None}]]
  /\ wired \in SUBSET HostConns
  /\ reconnecting \in SUBSET HostConns /\ timers \in SUBSET HostConns
  /\ indexTable \in [HostConns -> [Indices -> WindowConns \cup {None}]]
  /\ nextIndex \in [HostConns -> Indices]
  /\ members \in [HostConns -> SUBSET WindowConns]
  /\ client \in [WindowConns -> [device : Devices \cup {None}, handoff : BOOLEAN]]
  /\ session \in [WindowConns ->
       [on : HostConns \cup {None}, index : Indices \cup {None}]]
  /\ hostSock \in [HostConns -> SockStates]
  /\ windowSock \in [WindowConns -> SockStates]
  /\ running \in [HostConns -> SUBSET WindowConns]
  /\ toldCount \in [HostConns -> Nat]
  /\ told \in [WindowConns -> {"nothing", "ready", "host_reconnecting",
                               "session_restarted", "gone"}]
  /\ revoked \in SUBSET Devices
  /\ down \in BOOLEAN

Init ==
  /\ hosts = [i \in HostIds |-> None]
  /\ clients = {} /\ streams = {}
  /\ host = [h \in HostConns |-> NoHost]
  /\ wired = {} /\ reconnecting = {} /\ timers = {}
  /\ indexTable = [h \in HostConns |-> EmptyTable]
  /\ nextIndex = [h \in HostConns |-> 0]
  /\ members = [h \in HostConns |-> {}]
  /\ client = [c \in WindowConns |-> NoClient]
  /\ session = [c \in WindowConns |-> NoSession]
  /\ hostSock = [h \in HostConns |-> "none"]
  /\ windowSock = [c \in WindowConns |-> "none"]
  /\ running = [h \in HostConns |-> {}]
  /\ toldCount = [h \in HostConns |-> 0]
  /\ told = [c \in WindowConns |-> "nothing"]
  /\ revoked = {} /\ down = FALSE

-----------------------------------------------------------------------------
(* Mutants: the faults the runs are shown to catch, each a changed form of the *)
(* definition below that it is named after.                                    *)

StreamsKept(W) == streams            \* relay.streams.delete forgotten
IndicesKept(h, W) == indexTable[h]   \* host.streamIndices.delete forgotten
DroppedOnlyAsked(W, H) == H          \* detachClient leaves a waiting host empty
GoneOnlyAsked(W, H) == W \cap clients  \* detachHost leaves its windows registered
HostSocksKept(D) == hostSock         \* the old connection is not closed
SessionsNotStarted(h, f) ==          \* hand-off without startSession
  [c \in WindowConns |-> IF c \in DOMAIN f THEN NoSession ELSE session[c]]
NoTimer(h) == timers                 \* the grace timer is not armed
RevokeLater(d) ==                    \* the windows stay until they reconnect
  /\ ~down /\ d \notin revoked
  /\ revoked' = revoked \cup {d}
  /\ UNCHANGED <<registry, client, sockets, wire, down>>
-----------------------------------------------------------------------------
(* Effects shared by the handlers. *)

Closing(s) == IF s = "open" THEN "closing" ELSE s    \* closeSocket, terminateSocket

(* releaseSession for every window of W: client.session, relay.streams, and  *)
(* the v2 index on the record h it is given.                                 *)
Released(W) == [c \in WindowConns |-> IF c \in W THEN NoSession ELSE session[c]]
StreamsWithout(W) == streams \ {StreamOf(c) : c \in W}
IndicesWithout(h, W) ==
  [i \in Indices |-> IF \E c \in W : session[c].index = i
                     THEN None ELSE indexTable[h][i]]

CanHandoff(h) ==
  /\ host[h].handoff /\ Windows(h) # {}
  /\ \A c \in Windows(h) : c \in clients /\ client[c].handoff

(* detachClient on each registered window of W, then detachHost on each      *)
(* record of H.  A window that leaves a waiting host without windows takes   *)
(* the host with it.                                                         *)
Leaving(W) == W \cap clients
LeavingFrom(W, h) == {c \in Leaving(W) : RecordOf(c) = h}
Dropped(W, H) ==
  H \cup {h \in Registered : /\ h \in reconnecting /\ LeavingFrom(W, h) # {}
                             /\ Windows(h) \subseteq LeavingFrom(W, h)}
Gone(W, H) == Leaving(W) \cup UNION {Windows(h) \cap clients : h \in Dropped(W, H)}

Detach(W, H) ==
  LET G == Gone(W, H)
      D == Dropped(W, H)
  IN /\ hosts' = [i \in HostIds |-> IF hosts[i] \in D THEN None ELSE hosts[i]]
     /\ clients' = clients \ G
     /\ streams' = StreamsWithout(G)
     /\ session' = Released(G)
     /\ members' = [s \in HostConns |->
          IF \E h \in D : host[h].set = s THEN {}
          ELSE members[s] \ {c \in Leaving(W) : RecordOf(c) # None
                                                /\ host[RecordOf(c)].set = s}]
     /\ wired' = wired \ D
     /\ timers' = timers \ D
     /\ indexTable' = [h \in HostConns |->
          IndicesWithout(h, LeavingFrom(W, h) \cup (IF h \in D THEN Windows(h) ELSE {}))]
     /\ UNCHANGED <<host, reconnecting, nextIndex>>
     /\ running' = [h \in HostConns |->
          IF WsOpen(h) THEN running[h] \ {c \in LeavingFrom(W, h) : session[c].on = h}
          ELSE running[h]]
     /\ toldCount' = [h \in HostConns |->
          IF WsOpen(h) /\ LeavingFrom(W, h) # {}
          THEN Cardinality(Windows(h) \ LeavingFrom(W, h)) ELSE toldCount[h]]
     /\ told' = [c \in WindowConns |-> IF c \in G THEN "gone" ELSE told[c]]

WindowSocks(G) == [c \in WindowConns |->
                     IF c \in G THEN Closing(windowSock[c]) ELSE windowSock[c]]
HostSocks(D) == [h \in HostConns |->
                   IF h \in D \cap wired THEN Closing(hostSock[h]) ELSE hostSock[h]]

DetachAndClose(W, H) ==
  /\ Detach(W, H)
  /\ windowSock' = WindowSocks(Gone(W, H))
  /\ hostSock' = HostSocks(Dropped(W, H))

(* beginHostReconnect on a registered record that still has its socket (so    *)
(* is not reconnecting) and can hand its windows over.                       *)
ArmTimer(h) == timers \cup {h}

BeginReconnect(h) ==
  LET W == Windows(h)
  IN /\ wired' = wired \ {h}
     /\ reconnecting' = reconnecting \cup {h}
     /\ timers' = ArmTimer(h)
     /\ indexTable' = [indexTable EXCEPT ![h] = IndicesWithout(h, W)]
     /\ session' = Released(W)
     /\ streams' = StreamsWithout(W)
     /\ told' = [c \in WindowConns |->
          IF c \in W /\ windowSock[c] = "open" THEN "host_reconnecting" ELSE told[c]]
     /\ UNCHANGED <<hosts, clients, host, nextIndex, members, running, toldCount>>

(* allocateStreamIndex: the next free index, round robin, or none. *)
FreeSteps(h) == {k \in Indices : indexTable[h][(nextIndex[h] + k) % IndexCount] = None}
NextIndex(h) ==
  IF host[h].v2 /\ FreeSteps(h) # {}
  THEN (nextIndex[h] + CHOOSE k \in FreeSteps(h) : \A j \in FreeSteps(h) : k <= j)
       % IndexCount
  ELSE None

(* The indices the windows of a hand-off get, in the Set's own order, from a  *)
(* record that has handed out none.                                           *)
FirstIndices(W, v2) ==
  {f \in [W -> Indices \cup {None}] :
     IF v2
     THEN /\ \A c, d \in W : f[c] = f[d] /\ f[c] # None => c = d
          /\ \A i \in Indices : (\E c \in W : f[c] = i) <=> i < Cardinality(W)
     ELSE \A c \in W : f[c] = None}

TableOf(f) ==
  [i \in Indices |-> IF \E c \in DOMAIN f : f[c] = i
                     THEN CHOOSE c \in DOMAIN f : f[c] = i ELSE None]
-----------------------------------------------------------------------------
(* Host connections. *)

PendingHandshakes ==
  {h \in HostConns : hostSock[h] \in {"open", "closing"} /\ ~Known(h)}
  \cup {c \in WindowConns : windowSock[c] \in {"open", "closing"} /\ ~Admitted(c)}

HostUpgrade(h) ==
  /\ ~down /\ hostSock[h] = "none"
  /\ Cardinality(PendingHandshakes) < MaxPendingHandshakes
  /\ hostSock' = [hostSock EXCEPT ![h] = "open"]
  /\ UNCHANGED <<registry, client, windowSock, wire, revoked, down>>

(* The hello deadline passed, or the hello was refused. *)
HostRefused(h) ==
  /\ hostSock[h] = "open" /\ ~Known(h)
  /\ hostSock' = [hostSock EXCEPT ![h] = "closing"]
  /\ UNCHANGED <<registry, client, windowSock, wire, revoked, down>>

(* ws still delivers what the peer sent before a close the relay started, so  *)
(* a hello may be handled on a closing socket.                                *)
HelloAllowed(h, id) ==
  /\ hostSock[h] \in {"open", "closing"} /\ ~Known(h)
  /\ hosts[id] = None => Cardinality(Registered) < MaxHosts

NewRecord(id, handoff, v2, set) == [id |-> id, handoff |-> handoff, v2 |-> v2, set |-> set]

TellCount(h, n) == IF hostSock[h] = "open" THEN [toldCount EXCEPT ![h] = n] ELSE toldCount

HostHelloNew(h, id, handoff, v2) ==
  /\ HelloAllowed(h, id) /\ hosts[id] = None
  /\ hosts' = [hosts EXCEPT ![id] = h]
  /\ host' = [host EXCEPT ![h] = NewRecord(id, handoff, v2, h)]
  /\ wired' = wired \cup {h}
  /\ toldCount' = TellCount(h, 0)
  /\ UNCHANGED <<reconnecting, timers, indexTable, nextIndex, clients, streams, members, session, client, sockets,
                 running, told, revoked, down>>

(* The record already registered for id cannot hand its windows over:        *)
(* detachHost(host_replaced), then the new record.                           *)
HostHelloReplace(h, id, handoff, v2) ==
  /\ HelloAllowed(h, id) /\ hosts[id] # None /\ ~CanHandoff(hosts[id])
  /\ LET old == hosts[id]
         G == Windows(old) \cap clients
     IN /\ hosts' = [hosts EXCEPT ![id] = h]
        /\ clients' = clients \ G
        /\ streams' = StreamsWithout(G)
        /\ session' = Released(G)
        /\ members' = [members EXCEPT ![host[old].set] = {}]
        /\ host' = [host EXCEPT ![h] = NewRecord(id, handoff, v2, h)]
        /\ wired' = (wired \ {old}) \cup {h}
        /\ timers' = timers \ {old}
        /\ indexTable' = [indexTable EXCEPT ![old] = IndicesWithout(old, G)]
        /\ windowSock' = WindowSocks(G)
        /\ hostSock' = HostSocks({old})
        /\ toldCount' = TellCount(h, 0)
        /\ told' = [c \in WindowConns |-> IF c \in G THEN "gone" ELSE told[c]]
  /\ UNCHANGED <<reconnecting, nextIndex, client, running, revoked, down>>

(* startSession(restarted) for every window in the domain of f. *)
StartedSessions(h, f) ==
  [c \in WindowConns |-> IF c \in DOMAIN f THEN [on |-> h, index |-> f[c]] ELSE session[c]]

(* The new record takes over the old record's Set of windows; every window   *)
(* loses its session on the old connection and gets one on the new.          *)
HostHelloHandoff(h, id, handoff, v2) ==
  /\ HelloAllowed(h, id) /\ hosts[id] # None /\ CanHandoff(hosts[id])
  /\ \E f \in FirstIndices(Windows(hosts[id]), v2) :
     LET old == hosts[id]
         W == Windows(old)
         started == hostSock[h] = "open"        \* startSession's isOpen(host.ws)
     IN /\ hosts' = [hosts EXCEPT ![id] = h]
        /\ host' = [host EXCEPT ![h] = NewRecord(id, handoff, v2, host[old].set)]
        /\ wired' = wired \cup {h}
        /\ timers' = timers \ {old}
        /\ indexTable' = [indexTable EXCEPT
             ![old] = IndicesWithout(old, W),
             ![h] = IF started THEN TableOf(f) ELSE @]
        /\ nextIndex' = [nextIndex EXCEPT
             ![h] = IF started /\ v2 /\ Cardinality(W) < IndexCount
                    THEN Cardinality(W) ELSE @]
        /\ session' = IF started THEN StartedSessions(h, f) ELSE Released(W)
        /\ streams' = StreamsWithout(W) \cup (IF started THEN {h} \X W ELSE {})
        /\ running' = [running EXCEPT
             ![old] = IF WsOpen(old) THEN @ \ {c \in W : session[c].on = old} ELSE @,
             ![h] = IF started THEN W ELSE {}]
        /\ hostSock' = HostSocks({old})
        /\ toldCount' = TellCount(h, Cardinality(W))
        /\ told' = [c \in WindowConns |->
             IF c \notin W \/ windowSock[c] # "open" THEN told[c]
             ELSE IF started THEN "session_restarted" ELSE "host_reconnecting"]
  /\ UNCHANGED <<reconnecting, clients, members, client, windowSock, revoked, down>>

(* The socket's readyState leaves OPEN while its close event is still to     *)
(* come: the peer closes, the heartbeat terminates it, or it sent a frame    *)
(* that does not parse.                                                      *)
HostClosing(h) ==
  /\ hostSock[h] = "open"
  /\ hostSock' = [hostSock EXCEPT ![h] = "closing"]
  /\ UNCHANGED <<registry, client, windowSock, wire, revoked, down>>

(* Mutant: the close event is not checked against host.ws. *)
AnyCloseDetaches(h, shutdown) ==
  /\ hostSock[h] \in {"open", "closing"}
  /\ IF Known(h)
     THEN Detach({}, {h}) /\ windowSock' = WindowSocks(Gone({}, {h}))
     ELSE UNCHANGED <<registry, wire, windowSock>>
  /\ hostSock' = [hostSock EXCEPT ![h] = "closed"]
  /\ UNCHANGED <<client, revoked, down>>

(* The close event.  shutdown: the close reason was host_shutdown.            *)
HostClosed(h, shutdown) ==
  /\ hostSock[h] \in {"open", "closing"}
  /\ IF ~(Current(h) /\ h \in wired)
     THEN /\ hostSock' = [hostSock EXCEPT ![h] = "closed"]
          /\ UNCHANGED <<registry, wire, windowSock>>
     ELSE IF shutdown \/ ~CanHandoff(h)
     THEN /\ Detach({}, {h})
          /\ windowSock' = WindowSocks(Gone({}, {h}))
          /\ hostSock' = [hostSock EXCEPT ![h] = "closed"]
     ELSE /\ BeginReconnect(h)
          /\ hostSock' = [hostSock EXCEPT ![h] = "closed"]
          /\ UNCHANGED windowSock
  /\ UNCHANGED <<client, revoked, down>>

GraceTimeout(h) ==
  /\ h \in timers
  /\ IF Current(h) /\ h \in reconnecting
     THEN DetachAndClose({}, {h})
     ELSE /\ timers' = timers \ {h}
          /\ UNCHANGED <<hosts, clients, streams, host, wired, reconnecting, indexTable,
                         nextIndex, members, session, sockets, wire>>
  /\ UNCHANGED <<client, revoked, down>>

(* host_shutdown from the connector. *)
HostShutdown(h) ==
  /\ hostSock[h] \in {"open", "closing"} /\ Current(h)
  /\ DetachAndClose({}, {h})
  /\ UNCHANGED <<client, revoked, down>>

(* session_exit for a stream the connector ran: the window is told and goes. *)
SessionExit(h, c) ==
  /\ hostSock[h] \in {"open", "closing"} /\ Known(h)
  /\ c \in running[h] /\ <<h, c>> \in streams
  /\ DetachAndClose({c}, {})
  /\ UNCHANGED <<client, revoked, down>>
-----------------------------------------------------------------------------
(* Windows. *)

WindowUpgrade(c) ==
  /\ ~down /\ windowSock[c] = "none"
  /\ Cardinality(PendingHandshakes) < MaxPendingHandshakes
  /\ windowSock' = [windowSock EXCEPT ![c] = "open"]
  /\ UNCHANGED <<registry, client, hostSock, wire, revoked, down>>

WindowRefused(c) ==
  /\ windowSock[c] = "open" /\ ~Admitted(c)
  /\ windowSock' = [windowSock EXCEPT ![c] = "closing"]
  /\ UNCHANGED <<registry, client, hostSock, wire, revoked, down>>

HelloExpected(c) == windowSock[c] \in {"open", "closing"} /\ ~Admitted(c)

WindowHello(c, d, handoff) ==
  /\ HelloExpected(c)
  /\ d \notin revoked
  /\ hosts[HostOf[d]] # None
  /\ LET h == hosts[HostOf[d]]
         i == NextIndex(h)
     IN /\ h \notin reconnecting /\ WsOpen(h)
        /\ Cardinality(Windows(h)) < MaxClientsPerHost
        /\ client' = [client EXCEPT ![c] = [device |-> d, handoff |-> handoff]]
        /\ clients' = clients \cup {c}
        /\ members' = [members EXCEPT ![host[h].set] = @ \cup {c}]
        /\ IF i = None THEN UNCHANGED <<indexTable, nextIndex>>
           ELSE /\ indexTable' = [indexTable EXCEPT ![h][i] = c]
                /\ nextIndex' = [nextIndex EXCEPT ![h] = (i + 1) % IndexCount]
        /\ session' = [session EXCEPT ![c] = [on |-> h, index |-> i]]
        /\ streams' = streams \cup {<<h, c>>}
        /\ running' = [running EXCEPT ![h] = @ \cup {c}]
        /\ toldCount' = [toldCount EXCEPT ![h] = Cardinality(Windows(h) \cup {c})]
        /\ told' = IF windowSock[c] = "open" THEN [told EXCEPT ![c] = "ready"] ELSE told
  /\ UNCHANGED <<hosts, host, wired, reconnecting, timers, sockets, revoked, down>>

WindowClosing(c) ==
  /\ windowSock[c] = "open"
  /\ windowSock' = [windowSock EXCEPT ![c] = "closing"]
  /\ UNCHANGED <<registry, client, hostSock, wire, revoked, down>>

WindowClosed(c) ==
  /\ windowSock[c] \in {"open", "closing"}
  /\ Detach({c}, {})
  /\ windowSock' = [WindowSocks(Gone({c}, {})) EXCEPT ![c] = "closed"]
  /\ hostSock' = HostSocks(Dropped({c}, {}))
  /\ UNCHANGED <<client, revoked, down>>

(* Terminal output for c finds its socket's buffer full, or fails to send. *)
SlowWindow(c) ==
  /\ c \in clients /\ session[c] # NoSession /\ windowSock[c] = "open"
  /\ DetachAndClose({c}, {})
  /\ UNCHANGED <<client, revoked, down>>

(* Input from c, and host.ws.send throws: beginHostReconnect. *)
SendFailed(c) ==
  /\ SendMayThrow
  /\ c \in clients /\ windowSock[c] \in {"open", "closing"} /\ session[c] # NoSession
  /\ RecordOf(c) # None /\ WsOpen(RecordOf(c))
  /\ LET h == RecordOf(c)
     IN IF CanHandoff(h)
        THEN BeginReconnect(h) /\ UNCHANGED sockets
        ELSE DetachAndClose({}, {h})
  /\ UNCHANGED <<client, revoked, down>>
-----------------------------------------------------------------------------
(* The operator, the timers, the process. *)

RevokeDevice(d) ==
  /\ ~down /\ d \notin revoked
  /\ revoked' = revoked \cup {d}
  /\ DetachAndClose({c \in clients : client[c].device = d}, {})
  /\ UNCHANGED <<client, down>>

(* sweep: the windows, then the hosts, that have been silent too long. *)
Sweep(W, H) ==
  /\ ~down
  /\ W \subseteq clients /\ H \subseteq Registered \ reconnecting
  /\ DetachAndClose(W, H)
  /\ UNCHANGED <<client, revoked, down>>

(* relay.close(); the streams it clears are those of the windows it detaches. *)
Close ==
  /\ ~down /\ down' = TRUE
  /\ DetachAndClose(clients, Registered)
  /\ UNCHANGED <<client, revoked>>

HostStep(h) ==
  \/ HostUpgrade(h) \/ HostRefused(h) \/ HostClosing(h)
  \/ \E id \in HostIds, handoff, v2 \in BOOLEAN :
       \/ HostHelloNew(h, id, handoff, v2)
       \/ HostHelloReplace(h, id, handoff, v2)
       \/ HostHelloHandoff(h, id, handoff, v2)
  \/ \E shutdown \in BOOLEAN : HostClosed(h, shutdown)
  \/ GraceTimeout(h) \/ HostShutdown(h)
  \/ \E c \in WindowConns : SessionExit(h, c)

WindowStep(c) ==
  \/ WindowUpgrade(c) \/ WindowRefused(c) \/ WindowClosing(c) \/ WindowClosed(c)
  \/ \E d \in Devices, handoff \in BOOLEAN : WindowHello(c, d, handoff)
  \/ SlowWindow(c) \/ SendFailed(c)

OperatorStep ==
  \/ \E d \in Devices : RevokeDevice(d)
  \/ \E W \in SUBSET clients, H \in SUBSET Registered : Sweep(W, H)
  \/ Close

Next ==
  \/ \E h \in HostConns : HostStep(h)
  \/ \E c \in WindowConns : WindowStep(c)
  \/ OperatorStep

Spec == Init /\ [][Next]_vars

(* A socket that began to close does close (ws gives up waiting for the peer  *)
(* after 30 seconds), and a timer that is set fires.                          *)
Fairness ==
  /\ \A h \in HostConns :
       /\ WF_vars(hostSock[h] = "closing" /\ \E s \in BOOLEAN : HostClosed(h, s))
       /\ WF_vars(GraceTimeout(h))
  /\ \A c \in WindowConns : WF_vars(windowSock[c] = "closing" /\ WindowClosed(c))

LiveSpec == Spec /\ Fairness
-----------------------------------------------------------------------------
(* Safety. *)

(* A registered window always has its host registered, and the host lists it; *)
(* a registered host lists registered windows of its own only.  No order of   *)
(* closes, hand-offs, sweeps and late hellos leaves a window without a host:  *)
(* the host_offline path of handleClientMessage is never taken.               *)
RegistryConsistent ==
  /\ \A c \in clients : Admitted(c) /\ RecordOf(c) # None /\ c \in Windows(RecordOf(c))
  /\ \A i \in HostIds : hosts[i] # None =>
       /\ host[hosts[i]].id = i
       /\ \A c \in Windows(hosts[i]) : c \in clients /\ HostIdOf(c) = i

(* relay.streams holds exactly the sessions of registered windows, and each   *)
(* session runs on the connection its host is registered with, never on one   *)
(* that was replaced.                                                         *)
StreamsConsistent ==
  /\ streams = {StreamOf(c) : c \in {w \in WindowConns : session[w] # NoSession}}
  /\ \A c \in WindowConns : session[c] # NoSession =>
       c \in clients /\ session[c].on = RecordOf(c)

(* A v2 index leads to the one window whose session carries it, on a          *)
(* registered record only: output cannot reach another window, and frames     *)
(* still coming from a replaced connection reach nobody.                      *)
IndexRouting ==
  /\ \A h \in HostConns, i \in Indices : indexTable[h][i] # None =>
       session[indexTable[h][i]] = [on |-> h, index |-> i]
  /\ \A c \in WindowConns : session[c].index # None =>
       indexTable[session[c].on][session[c].index] = c

(* A host in its grace period has its timer set, no socket, at least one       *)
(* window, and only windows that can wait and hold no session; the timer is    *)
(* set at no other time, so it can never detach a connection that came back.   *)
GracePeriod ==
  \A h \in HostConns :
    /\ h \in timers <=> Current(h) /\ h \in reconnecting
    /\ h \in timers =>
         /\ h \notin wired /\ CanHandoff(h)
         /\ \A c \in Windows(h) : session[c] = NoSession

(* While a host's socket is open the connector has been told to run exactly    *)
(* the sessions of the windows attached to it, none missing after a hand-off   *)
(* and none left for a window that went away, and has been told how many they  *)
(* are: its telemetry stops on zero.                                           *)
NoOrphanSessions ==
  \A h \in HostConns : Known(h) /\ hostSock[h] = "open" =>
    /\ Current(h)
    /\ running[h] = Windows(h)
    /\ toldCount[h] = Cardinality(Windows(h))
    /\ \A c \in Windows(h) : session[c].on = h

(* Who is let in stays within what the relay allows.  maxHosts holds although a *)
(* workstation that is registered may always come back: the place of one that  *)
(* returns is its own, also while it is away.  And revoking takes effect now:   *)
(* no registered window, attached, waiting or handed over, belongs to a revoked *)
(* device.                                                                     *)
AdmissionHolds ==
  /\ Cardinality(Registered) <= MaxHosts
  /\ \A c \in clients : client[c].device \notin revoked

(* What the properties above rest on: which record owns which Set of windows,  *)
(* and what a record that is no longer registered still holds.  Not of         *)
(* interest in itself; with them it is inductive.                              *)
RecordsSound ==
  /\ \A h \in HostConns :
       IF Known(h)
       THEN /\ host[h].set \in HostConns /\ Known(host[h].set)
            /\ hostSock[h] # "none"
            /\ h \in reconnecting => h \notin wired
       ELSE /\ host[h] = NoHost /\ members[h] = {} /\ indexTable[h] = EmptyTable
            /\ h \notin wired \cup reconnecting \cup timers
            /\ nextIndex[h] = 0 /\ running[h] = {}
  /\ \A g, h \in Registered : host[g].set = host[h].set => g = h
  /\ \A h \in Registered : h \in wired <=> h \notin reconnecting
  /\ \A h \in Registered \cap wired : hostSock[h] # "closed"
  /\ \A h \in wired : hostSock[h] = "open" => Current(h)
-----------------------------------------------------------------------------
(* What a step may never do. *)

(* When a newer connection replaces one whose windows can all wait, no window   *)
(* leaves the relay, and each has a session on the new connection if that one   *)
(* is still open.                                                               *)
HandoffKeepsWindows ==
  [][\A i \in HostIds :
       /\ hosts[i] # None /\ hosts'[i] \notin {None, hosts[i]}
       /\ CanHandoff(hosts[i])
       => /\ clients' = clients
          /\ hostSock[hosts'[i]] = "open" =>
               \A c \in Windows(hosts[i]) : session'[c].on = hosts'[i]]_vars

(* What happens on one host connection stays there.  The close, the messages and  *)
(* the timer of a connection, however late they come, take no window, session or   *)
(* grace period away from the record of another one, although a hand-off made the  *)
(* two share one Set of windows; only the hello that takes the workstation over     *)
(* does.  And a close event that comes after a failed send, when the record had     *)
(* already let go of that socket, leaves the grace period as it is.                 *)
OthersEvent(g, c) ==
  \/ /\ RecordOf(c) # g /\ hosts'[HostIdOf(c)] # g
     /\ HostStep(g)
  \/ /\ RecordOf(c) = g /\ g \notin wired
     /\ hostSock[g] # "closed" /\ hostSock'[g] = "closed"

Undisturbed(c) ==
  /\ c \in clients' /\ session'[c] = session[c] /\ windowSock'[c] = windowSock[c]
  /\ RecordOf(c)' = RecordOf(c)
  /\ RecordOf(c) \in timers <=> RecordOf(c)' \in timers'

EventsStayApart ==
  [][\A g \in HostConns, c \in WindowConns :
       c \in clients /\ OthersEvent(g, c) => Undisturbed(c)]_vars

(* Liveness: a window without a session gets one or is let go; nobody waits     *)
(* for a host for ever.                                                         *)
NobodyWaitsForever ==
  \A c \in WindowConns :
    (c \in clients /\ session[c] = NoSession) ~> ~(c \in clients /\ session[c] = NoSession)

-----------------------------------------------------------------------------
(* The relay implements Attachment.  A host is waiting in its grace period, and *)
(* stalled while its windows, handed over to a connection that was already      *)
(* closing, have no session.                                                    *)
StateOf(i) ==
  IF hosts[i] = None THEN "down"
  ELSE IF hosts[i] \in reconnecting THEN "waiting"
  ELSE IF \E c \in Windows(hosts[i]) : session[c] = NoSession THEN "stalled"
  ELSE "up"

HostStates == [i \in HostIds |-> StateOf(i)]
AttachedTo == [c \in WindowConns |-> IF c \in clients THEN HostIdOf(c) ELSE None]
Served == {c \in WindowConns : session[c] # NoSession}
LeftForGood == {c \in WindowConns : Admitted(c) /\ c \notin clients}

A == INSTANCE Attachment
  WITH state <- HostStates, at <- AttachedTo, served <- Served, left <- LeftForGood

(* Whatever the order of hellos, closes, hand-offs, timeouts and sweeps, the   *)
(* windows of one host are served together, wait together, join only while it  *)
(* is up and leave once.                                                       *)
ImplementsAttachment == A!ASpec
=============================================================================
