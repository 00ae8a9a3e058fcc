------------------------------ MODULE RelayProofs ------------------------------
(* The relay, for any number of hosts, connections and windows: its registry, streams  *)
(* and grace periods stay consistent; who is let in, where output is led, which        *)
(* sessions a connector runs; and it implements Attachment.                             *)
EXTENDS Relay, FiniteSetTheorems, WellFoundedInduction, TLAPS

(***************************************************************************)
(* Type correctness.                                                       *)
(***************************************************************************)

(* A count of windows is a number. *)
LEMMA WindowCount == \A W \in SUBSET WindowConns : Cardinality(W) \in Nat
  BY FS_Subset, FS_CardinalityType, FiniteAssumption

(* A set of naturals has a least element. *)
LEMMA LeastNat ==
  ASSUME NEW T \in SUBSET Nat, T # {}
  PROVE  \E k \in T : \A j \in T : k <= j
<1>1. PICK k \in T : \A j \in T : ~ (<<j, k>> \in OpToRel(<, Nat))
  BY NatLessThanWellFounded, WFMin
<1>2. \A j \in T : ~ (j < k)
  BY <1>1 DEF OpToRel
<1> QED
  BY <1>2

(* The round robin yields an index of the table or none. *)
LEMMA NextIndexType ==
  ASSUME TypeOK, NEW h \in HostConns
  PROVE  NextIndex(h) \in Indices \cup {None}
<1> DEFINE F == FreeSteps(h)
<1>1. CASE host[h].v2 /\ F # {}
  <2>1. F \subseteq Indices /\ Indices \subseteq Nat
    BY LimitAssumption DEF FreeSteps, Indices
  <2>2. \A k \in F : (nextIndex[h] + k) % IndexCount \in Indices
    BY <2>1, LimitAssumption DEF TypeOK, Indices
  <2>3. \E k \in F : \A j \in F : k <= j
    BY <2>1, <1>1, LeastNat
  <2>4. (CHOOSE k \in F : \A j \in F : k <= j) \in F
    BY <2>3
  <2> QED
    BY <1>1, <2>2, <2>4 DEF NextIndex
<1>2. CASE ~(host[h].v2 /\ F # {})
  BY <1>2 DEF NextIndex
<1> QED
  BY <1>1, <1>2

(* Only sockets change when one is opened, refused or begins to close. *)
LEMMA SocketType ==
  ASSUME TypeOK, UNCHANGED <<registry, client, wire, revoked, down>>,
         hostSock' \in [HostConns -> SockStates],
         windowSock' \in [WindowConns -> SockStates]
  PROVE  TypeOK'
  BY DEF TypeOK, registry, records, wire

(* Ending windows and records keeps the types. *)
LEMMA DetachType ==
  ASSUME TypeOK, NEW W, NEW H, Detach(W, H), UNCHANGED client,
         revoked' \in SUBSET Devices, down' \in BOOLEAN,
         hostSock' \in [HostConns -> SockStates],
         windowSock' \in [WindowConns -> SockStates]
  PROVE  TypeOK'
<1>1. /\ hosts' \in [HostIds -> HostConns \cup {None}]
      /\ clients' \in SUBSET WindowConns
      /\ streams' \in SUBSET (HostConns \X WindowConns)
  BY DEF TypeOK, Detach, StreamsWithout
<1>2. members' \in [HostConns -> SUBSET WindowConns]
  BY DEF TypeOK, Detach
<1>3. session' \in [WindowConns -> [on : HostConns \cup {None}, index : Indices \cup {None}]]
  BY DEF TypeOK, Detach, Released, NoSession
<1>4. running' \in [HostConns -> SUBSET WindowConns]
  BY DEF TypeOK, Detach
<1>5. toldCount' \in [HostConns -> Nat]
  <2>1. \A h \in HostConns : Windows(h) \in SUBSET WindowConns
    BY DEF TypeOK, Windows
  <2>2. \A h \in HostConns : Cardinality(Windows(h) \ LeavingFrom(W, h)) \in Nat
    BY <2>1, WindowCount
  <2> QED
    BY <2>2 DEF TypeOK, Detach
<1>6. told' \in [WindowConns -> {"nothing", "ready", "host_reconnecting",
                                 "session_restarted", "gone"}]
  BY DEF TypeOK, Detach
<1>7. /\ wired' \in SUBSET HostConns /\ timers' \in SUBSET HostConns
      /\ indexTable' \in [HostConns -> [Indices -> WindowConns \cup {None}]]
  BY DEF TypeOK, Detach, IndicesWithout
<1>8. UNCHANGED <<host, reconnecting, nextIndex>>
  BY DEF Detach
<1> QED
  BY <1>1, <1>2, <1>3, <1>4, <1>5, <1>6, <1>7, <1>8 DEF TypeOK

(* Closing sockets keeps the types. *)
LEMMA SocksType ==
  ASSUME TypeOK
  PROVE  /\ \A D : HostSocks(D) \in [HostConns -> SockStates]
         /\ \A G : WindowSocks(G) \in [WindowConns -> SockStates]
  BY DEF TypeOK, HostSocks, WindowSocks, Closing, SockStates

(* Both together keep the types. *)
LEMMA DetachAndCloseType ==
  ASSUME TypeOK, NEW W, NEW H, DetachAndClose(W, H), UNCHANGED client,
         revoked' \in SUBSET Devices, down' \in BOOLEAN
  PROVE  TypeOK'
  BY DetachType, SocksType DEF DetachAndClose

(* So does the beginning of a grace period. *)
LEMMA BeginReconnectType ==
  ASSUME TypeOK, NEW h \in HostConns, BeginReconnect(h), UNCHANGED <<client, revoked, down>>,
         windowSock' = windowSock, hostSock' \in [HostConns -> SockStates]
  PROVE  TypeOK'
  BY DEF TypeOK, BeginReconnect, Released, NoSession, StreamsWithout, IndicesWithout, ArmTimer

(* Each step of a connection keeps the types. *)
LEMMA HostStepType ==
  ASSUME TypeOK, NEW h \in HostConns, HostStep(h)
  PROVE  TypeOK'
<1>1. CASE HostUpgrade(h) \/ HostRefused(h) \/ HostClosing(h)
  <2>1. hostSock' \in [HostConns -> SockStates] /\ windowSock' = windowSock
    BY <1>1 DEF TypeOK, SockStates, HostUpgrade, HostRefused, HostClosing
  <2>2. UNCHANGED <<registry, client, wire, revoked, down>>
    BY <1>1 DEF HostUpgrade, HostRefused, HostClosing
  <2> QED
    BY <2>1, <2>2, SocketType DEF TypeOK
<1>2. ASSUME NEW id \in HostIds, NEW handoff \in BOOLEAN, NEW v2 \in BOOLEAN,
             HostHelloNew(h, id, handoff, v2)
      PROVE  TypeOK'
  BY <1>2 DEF TypeOK, HostHelloNew, NewRecord, TellCount, sockets
<1>3. ASSUME NEW id \in HostIds, NEW handoff \in BOOLEAN, NEW v2 \in BOOLEAN,
             HostHelloReplace(h, id, handoff, v2)
      PROVE  TypeOK'
  <2> DEFINE old == hosts[id]
             G == Windows(old) \cap clients
  <2>1. old \in HostConns
    BY <1>3 DEF TypeOK, HostHelloReplace
  <2>2. /\ hosts' = [hosts EXCEPT ![id] = h]
        /\ clients' = clients \ G
        /\ streams' = StreamsWithout(G)
        /\ session' = Released(G)
        /\ members' = [members EXCEPT ![host[old].set] = {}]
        /\ host' = [host EXCEPT ![h] = NewRecord(id, handoff, v2, h)]
        /\ wired' = (wired \ {old}) \cup {h}
        /\ timers' = timers \ {old}
        /\ indexTable' = [indexTable EXCEPT ![old] = IndicesWithout(old, G)]
        /\ windowSock' = WindowSocks(G)
        /\ hostSock' = HostSocks({old})
        /\ toldCount' = TellCount(h, 0)
        /\ told' = [c \in WindowConns |-> IF c \in G THEN "gone" ELSE told[c]]
        /\ UNCHANGED <<reconnecting, nextIndex, client, running, revoked, down>>
    BY <1>3 DEF HostHelloReplace
  <2>3. IndicesWithout(old, G) \in [Indices -> WindowConns \cup {None}]
    BY <2>1 DEF TypeOK, IndicesWithout
  <2>4. /\ session' \in [WindowConns -> [on : HostConns \cup {None}, index : Indices \cup {None}]]
        /\ streams' \in SUBSET (HostConns \X WindowConns)
    BY <2>2 DEF TypeOK, Released, NoSession, StreamsWithout
  <2> HIDE DEF G
  <2> QED
    BY <2>1, <2>2, <2>3, <2>4, SocksType DEF TypeOK, NewRecord, TellCount
<1>4. ASSUME NEW id \in HostIds, NEW handoff \in BOOLEAN, NEW v2 \in BOOLEAN,
             HostHelloHandoff(h, id, handoff, v2)
      PROVE  TypeOK'
  <2> DEFINE old == hosts[id]
             W == Windows(old)
             started == hostSock[h] = "open"
  <2>1. old \in HostConns /\ W \in SUBSET WindowConns
    BY <1>4 DEF TypeOK, HostHelloHandoff, Windows
  <2>2. PICK f \in FirstIndices(W, v2) :
        /\ hosts' = [hosts EXCEPT ![id] = h]
        /\ host' = [host EXCEPT ![h] = NewRecord(id, handoff, v2, host[old].set)]
        /\ wired' = wired \cup {h}
        /\ timers' = timers \ {old}
        /\ indexTable' = [indexTable EXCEPT
             ![old] = IndicesWithout(old, W),
             ![h] = IF started THEN TableOf(f) ELSE @]
        /\ nextIndex' = [nextIndex EXCEPT
             ![h] = IF started /\ v2 /\ Cardinality(W) < IndexCount
                    THEN Cardinality(W) ELSE @]
        /\ session' = IF started THEN StartedSessions(h, f) ELSE Released(W)
        /\ streams' = StreamsWithout(W) \cup (IF started THEN {h} \X W ELSE {})
        /\ running' = [running EXCEPT
             ![old] = IF WsOpen(old) THEN @ \ {c \in W : session[c].on = old} ELSE @,
             ![h] = IF started THEN W ELSE {}]
        /\ hostSock' = HostSocks({old})
        /\ toldCount' = TellCount(h, Cardinality(W))
        /\ told' = [c \in WindowConns |->
             IF c \notin W \/ windowSock[c] # "open" THEN told[c]
             ELSE IF started THEN "session_restarted" ELSE "host_reconnecting"]
        /\ UNCHANGED <<reconnecting, clients, members, client, windowSock, revoked, down>>
    BY <1>4 DEF HostHelloHandoff
  <2>3. f \in [W -> Indices \cup {None}]
    BY DEF FirstIndices
  <2>4. TableOf(f) \in [Indices -> WindowConns \cup {None}]
    BY <2>1, <2>3 DEF TableOf
  <2>5. IndicesWithout(old, W) \in [Indices -> WindowConns \cup {None}]
    BY <2>1 DEF TypeOK, IndicesWithout
  <2>6. indexTable' \in [HostConns -> [Indices -> WindowConns \cup {None}]]
    BY <2>1, <2>2, <2>4, <2>5 DEF TypeOK
  <2>7. session' \in [WindowConns -> [on : HostConns \cup {None}, index : Indices \cup {None}]]
    BY <2>1, <2>2, <2>3 DEF TypeOK, StartedSessions, Released, NoSession
  <2>8. streams' \in SUBSET (HostConns \X WindowConns)
    BY <2>1, <2>2 DEF TypeOK, StreamsWithout
  <2>9. Cardinality(W) \in Nat /\ (Cardinality(W) < IndexCount => Cardinality(W) \in Indices)
    BY <2>1, WindowCount, LimitAssumption DEF Indices
  <2>10. nextIndex' \in [HostConns -> Indices] /\ toldCount' \in [HostConns -> Nat]
    BY <2>2, <2>9 DEF TypeOK, TellCount
  <2>11. /\ hosts' \in [HostIds -> HostConns \cup {None}]
         /\ host' \in [HostConns -> [id : HostIds \cup {None}, handoff : BOOLEAN,
                                     v2 : BOOLEAN, set : HostConns \cup {None}]]
         /\ wired' \in SUBSET HostConns /\ timers' \in SUBSET HostConns
    BY <2>1, <2>2 DEF TypeOK, NewRecord
  <2>12. /\ running' \in [HostConns -> SUBSET WindowConns]
         /\ told' \in [WindowConns -> {"nothing", "ready", "host_reconnecting",
                                       "session_restarted", "gone"}]
    BY <2>1, <2>2 DEF TypeOK
  <2> HIDE DEF W, started, old
  <2> QED
    BY <2>2, <2>6, <2>7, <2>8, <2>10, <2>11, <2>12, SocksType DEF TypeOK
<1>5. ASSUME NEW shutdown \in BOOLEAN, HostClosed(h, shutdown)
      PROVE  TypeOK'
  <2>1. [hostSock EXCEPT ![h] = "closed"] \in [HostConns -> SockStates]
    BY DEF TypeOK, SockStates
  <2>2. CASE ~(Current(h) /\ h \in wired)
    BY <1>5, <2>1, <2>2, SocketType DEF HostClosed, TypeOK
  <2>3. CASE Current(h) /\ h \in wired /\ (shutdown \/ ~CanHandoff(h))
    BY <1>5, <2>1, <2>3, DetachType, SocksType DEF HostClosed, TypeOK
  <2>4. CASE Current(h) /\ h \in wired /\ ~(shutdown \/ ~CanHandoff(h))
    BY <1>5, <2>1, <2>4, BeginReconnectType DEF HostClosed
  <2> QED
    BY <2>2, <2>3, <2>4
<1>6. CASE GraceTimeout(h)
  <2>1. CASE Current(h) /\ h \in reconnecting
    BY <1>6, <2>1, DetachAndCloseType DEF GraceTimeout, TypeOK
  <2>2. CASE ~(Current(h) /\ h \in reconnecting)
    BY <1>6, <2>2 DEF GraceTimeout, TypeOK, sockets, wire
  <2> QED
    BY <2>1, <2>2
<1>7. CASE HostShutdown(h)
  BY <1>7, DetachAndCloseType DEF HostShutdown, TypeOK
<1>8. ASSUME NEW c \in WindowConns, SessionExit(h, c)
      PROVE  TypeOK'
  BY <1>8, DetachAndCloseType DEF SessionExit, TypeOK
<1> QED
  BY <1>1, <1>2, <1>3, <1>4, <1>5, <1>6, <1>7, <1>8 DEF HostStep

(* So does a window's hello, where the stream and its index are made. *)
LEMMA WindowHelloType ==
  ASSUME TypeOK, NEW c \in WindowConns, NEW d \in Devices, NEW handoff \in BOOLEAN,
         WindowHello(c, d, handoff)
  PROVE  TypeOK'
<1> DEFINE h == hosts[HostOf[d]]
           i == NextIndex(h)
<1>1. h \in HostConns
  BY DeviceAssumption DEF WindowHello, TypeOK
<1>2. i \in Indices \cup {None}
  BY <1>1, NextIndexType
<1>3. \A k \in Indices : (k + 1) % IndexCount \in Indices
  BY LimitAssumption DEF Indices
<1>4. /\ indexTable' \in [HostConns -> [Indices -> WindowConns \cup {None}]]
      /\ nextIndex' \in [HostConns -> Indices]
  <2>1. CASE i = None
    BY <2>1 DEF WindowHello, TypeOK
  <2>2. CASE i # None
    <3>1. /\ indexTable' = [indexTable EXCEPT ![h][i] = c]
          /\ nextIndex' = [nextIndex EXCEPT ![h] = (i + 1) % IndexCount]
      BY <2>2 DEF WindowHello
    <3>2. i \in Indices
      BY <1>2, <2>2
    <3> HIDE DEF h, i
    <3>3. [indexTable[h] EXCEPT ![i] = c] \in [Indices -> WindowConns \cup {None}]
      BY <1>1, <3>2 DEF TypeOK
    <3> QED
      BY <1>1, <1>3, <3>1, <3>2, <3>3 DEF TypeOK
  <2> QED
    BY <2>1, <2>2
<1>5. toldCount' \in [HostConns -> Nat]
  <2>1. Windows(h) \cup {c} \in SUBSET WindowConns
    BY <1>1 DEF TypeOK, Windows
  <2> QED
    BY <2>1, WindowCount DEF WindowHello, TypeOK
<1>6. session' \in [WindowConns -> [on : HostConns \cup {None}, index : Indices \cup {None}]]
  BY <1>1, <1>2 DEF WindowHello, TypeOK
<1>7. /\ client' \in [WindowConns -> [device : Devices \cup {None}, handoff : BOOLEAN]]
      /\ clients' \in SUBSET WindowConns
      /\ members' \in [HostConns -> SUBSET WindowConns]
      /\ streams' \in SUBSET (HostConns \X WindowConns)
      /\ running' \in [HostConns -> SUBSET WindowConns]
      /\ told' \in [WindowConns -> {"nothing", "ready", "host_reconnecting",
                                    "session_restarted", "gone"}]
  <2>1. /\ client' = [client EXCEPT ![c] = [device |-> d, handoff |-> handoff]]
        /\ clients' = clients \cup {c}
        /\ members' = [members EXCEPT ![host[h].set] = @ \cup {c}]
        /\ streams' = streams \cup {<<h, c>>}
        /\ running' = [running EXCEPT ![h] = @ \cup {c}]
        /\ told' = IF windowSock[c] = "open" THEN [told EXCEPT ![c] = "ready"] ELSE told
    BY DEF WindowHello
  <2> HIDE DEF h
  <2>2. members' \in [HostConns -> SUBSET WindowConns]
    BY <2>1 DEF TypeOK
  <2>3. /\ clients' \in SUBSET WindowConns
        /\ streams' \in SUBSET (HostConns \X WindowConns)
        /\ running' \in [HostConns -> SUBSET WindowConns]
    BY <1>1, <2>1 DEF TypeOK
  <2> QED
    BY <2>1, <2>2, <2>3 DEF TypeOK
<1>8. UNCHANGED <<hosts, host, wired, reconnecting, timers, hostSock, windowSock,
                  revoked, down>>
  BY DEF WindowHello, sockets
<1> QED
  BY <1>4, <1>5, <1>6, <1>7, <1>8 DEF TypeOK

(* Each step of a window keeps the types. *)
LEMMA WindowStepType ==
  ASSUME TypeOK, NEW c \in WindowConns, WindowStep(c)
  PROVE  TypeOK'
<1>1. CASE WindowUpgrade(c) \/ WindowRefused(c) \/ WindowClosing(c)
  <2>1. windowSock' \in [WindowConns -> SockStates] /\ hostSock' = hostSock
    BY <1>1 DEF TypeOK, SockStates, WindowUpgrade, WindowRefused, WindowClosing
  <2>2. UNCHANGED <<registry, client, wire, revoked, down>>
    BY <1>1 DEF WindowUpgrade, WindowRefused, WindowClosing
  <2> QED
    BY <2>1, <2>2, SocketType DEF TypeOK
<1>2. CASE WindowClosed(c)
  <2>1. windowSock' \in [WindowConns -> SockStates] /\ hostSock' \in [HostConns -> SockStates]
    BY <1>2, SocksType DEF WindowClosed, SockStates
  <2> QED
    BY <1>2, <2>1, DetachType DEF WindowClosed, TypeOK
<1>3. CASE \E d \in Devices, handoff \in BOOLEAN : WindowHello(c, d, handoff)
  BY <1>3, WindowHelloType
<1>4. CASE SlowWindow(c)
  BY <1>4, DetachAndCloseType DEF SlowWindow, TypeOK
<1>5. CASE SendFailed(c)
  <2>1. RecordOf(c) \in HostConns
    <3>1. RecordOf(c) # None /\ WsOpen(RecordOf(c))
      BY <1>5 DEF SendFailed
    <3> QED
      BY <3>1 DEF WsOpen, TypeOK
  <2>2. CASE CanHandoff(RecordOf(c))
    BY <1>5, <2>1, <2>2, BeginReconnectType DEF SendFailed, sockets, TypeOK
  <2>3. CASE ~CanHandoff(RecordOf(c))
    BY <1>5, <2>3, DetachAndCloseType DEF SendFailed, TypeOK
  <2> QED
    BY <2>2, <2>3
<1> QED
  BY <1>1, <1>2, <1>3, <1>4, <1>5 DEF WindowStep

(* So do revoking, sweeping and closing. *)
LEMMA OperatorStepType ==
  ASSUME TypeOK, OperatorStep
  PROVE  TypeOK'
<1>1. ASSUME NEW d \in Devices, RevokeDevice(d)
      PROVE  TypeOK'
  BY <1>1, DetachAndCloseType DEF RevokeDevice, TypeOK
<1>2. ASSUME NEW W \in SUBSET clients, NEW H \in SUBSET Registered, Sweep(W, H)
      PROVE  TypeOK'
  BY <1>2, DetachAndCloseType DEF Sweep, TypeOK
<1>3. CASE Close
  BY <1>3, DetachAndCloseType DEF Close, TypeOK
<1> QED
  BY <1>1, <1>2, <1>3 DEF OperatorStep

(* The types hold at first. *)
LEMMA InitType == Init => TypeOK
<1> SUFFICES ASSUME Init PROVE TypeOK
  OBVIOUS
<1>1. 0 \in Indices
  BY LimitAssumption DEF Indices
<1> QED
  BY <1>1 DEF Init, TypeOK, NoHost, NoClient, NoSession, EmptyTable, SockStates

(* The registry, the records, the tables, the sockets and the counters keep     *)
(* their types whatever hosts, windows, timers and the operator do.             *)
THEOREM TypeCorrect == Spec => []TypeOK
<1>1. TypeOK /\ [Next]_vars => TypeOK'
  <2> SUFFICES ASSUME TypeOK, [Next]_vars PROVE TypeOK'
    OBVIOUS
  <2>1. CASE \E h \in HostConns : HostStep(h)
    BY <2>1, HostStepType
  <2>2. CASE \E c \in WindowConns : WindowStep(c)
    BY <2>2, WindowStepType
  <2>3. CASE OperatorStep
    BY <2>3, OperatorStepType
  <2>4. CASE UNCHANGED vars
    BY <2>4 DEF TypeOK, vars, registry, records, sockets, wire
  <2> QED
    BY <2>1, <2>2, <2>3, <2>4 DEF Next
<1> QED
  BY InitType, <1>1, PTL DEF Spec
-----------------------------------------------------------------------------
(***************************************************************************)
(* The registry.                                                           *)
(***************************************************************************)

(* The part that is inductive by itself; the rest is proved on top of it. *)
Reg == TypeOK /\ RegistryConsistent /\ RecordsSound

(* Registered records and registered windows point at each other. *)
LEMMA RegFacts ==
  ASSUME Reg
  PROVE  /\ \A i \in HostIds : hosts[i] # None =>
              hosts[i] \in Registered /\ host[hosts[i]].id = i
         /\ \A h \in Registered :
              /\ h \in HostConns /\ Known(h) /\ host[h].id \in HostIds
              /\ hosts[host[h].id] = h
              /\ host[h].set \in HostConns /\ Windows(h) = members[host[h].set]
         /\ \A c \in clients : HostIdOf(c) \in HostIds /\ RecordOf(c) \in Registered
         /\ \A h \in Registered : Windows(h) = {c \in clients : RecordOf(c) = h}
<1>1. ASSUME NEW i \in HostIds, hosts[i] # None
      PROVE  hosts[i] \in Registered /\ host[hosts[i]].id = i
  BY <1>1, NoneAssumption DEF Reg, TypeOK, RegistryConsistent, Registered, Current, Known
<1>2. ASSUME NEW h \in Registered
      PROVE  /\ h \in HostConns /\ Known(h) /\ host[h].id \in HostIds
             /\ hosts[host[h].id] = h
             /\ host[h].set \in HostConns /\ Windows(h) = members[host[h].set]
  BY NoneAssumption DEF Reg, TypeOK, RecordsSound, Registered, Current, Known, Windows
<1>3. ASSUME NEW c \in clients
      PROVE  HostIdOf(c) \in HostIds /\ RecordOf(c) \in Registered
             /\ c \in Windows(RecordOf(c))
  <2>1. client[c].device \in Devices
    BY DEF Reg, TypeOK, RegistryConsistent, Admitted
  <2>2. HostIdOf(c) \in HostIds
    BY <2>1, DeviceAssumption DEF HostIdOf
  <2> QED
    BY <2>2, <1>1 DEF Reg, RegistryConsistent, RecordOf
<1>4. ASSUME NEW h \in Registered
      PROVE  Windows(h) = {c \in clients : RecordOf(c) = h}
  <2>1. \A c \in Windows(h) : c \in clients /\ RecordOf(c) = h
    BY <1>2, NoneAssumption DEF Reg, RegistryConsistent, RecordOf, Registered
  <2> QED
    BY <2>1, <1>3
<1> QED
  BY <1>1, <1>2, <1>3, <1>4

(* What detaching windows W and records H leaves of the registry. *)
LEMMA DetachEffect ==
  ASSUME Reg, NEW W, NEW H \in SUBSET Registered, Detach(W, H), UNCHANGED client
  PROVE  /\ Dropped(W, H) \in SUBSET Registered
         /\ \A c : c \in Gone(W, H) <=> c \in clients /\ (c \in W \/ RecordOf(c) \in Dropped(W, H))
         /\ Registered' = Registered \ Dropped(W, H)
         /\ \A c \in clients' : c \in clients /\ c \notin W /\ RecordOf(c)' = RecordOf(c)
                                /\ RecordOf(c) \notin Dropped(W, H)
         /\ \A h \in Registered' : Windows(h)' = Windows(h) \ W
<1> DEFINE D == Dropped(W, H)
           G == Gone(W, H)
<1>1. D \in SUBSET Registered
  BY DEF Dropped
<1>2. \A c : c \in G <=> c \in clients /\ (c \in W \/ RecordOf(c) \in D)
  BY <1>1, RegFacts DEF Gone, Leaving
<1>3. /\ hosts' = [i \in HostIds |-> IF hosts[i] \in D THEN None ELSE hosts[i]]
      /\ clients' = clients \ G
      /\ host' = host
      /\ members' = [s \in HostConns |->
          IF \E h \in D : host[h].set = s THEN {}
          ELSE members[s] \ {c \in Leaving(W) : RecordOf(c) # None
                                                /\ host[RecordOf(c)].set = s}]
  BY DEF Detach
<1>4. \A h \in HostConns : Known(h)' <=> Known(h)
  BY <1>3 DEF Known
<1> HIDE DEF D, G
<1>5. \A h \in HostConns : Current(h)' <=> Current(h) /\ h \notin D
  <2> TAKE h \in HostConns
  <2>1. CASE Known(h)
    <3>1. host[h].id \in HostIds
      BY <2>1 DEF Known, Reg, TypeOK
    <3> QED
      BY <1>3, <1>4, <2>1, <3>1, NoneAssumption DEF Current
  <2>2. CASE ~Known(h)
    BY <1>4, <2>2 DEF Current
  <2> QED
    BY <2>1, <2>2
<1>6. Registered' = Registered \ D
  BY <1>5 DEF Registered
<1>7. ASSUME NEW c \in clients'
      PROVE  c \in clients /\ c \notin W /\ RecordOf(c)' = RecordOf(c) /\ RecordOf(c) \notin D
  <2>1. c \in clients /\ c \notin W /\ RecordOf(c) \notin D
    BY <1>2, <1>3
  <2>2. HostIdOf(c)' = HostIdOf(c) /\ HostIdOf(c) \in HostIds
    BY <2>1, RegFacts DEF HostIdOf
  <2> QED
    BY <1>3, <2>1, <2>2 DEF RecordOf
<1>8. ASSUME NEW h \in Registered'
      PROVE  Windows(h)' = Windows(h) \ W
  <2> DEFINE s == host[h].set
  <2>1. h \in Registered /\ h \notin D
    BY <1>6
  <2>2. s \in HostConns /\ Windows(h) = members[s] /\ Windows(h)' = members'[s]
    BY <2>1, <1>3, RegFacts, NoneAssumption DEF Windows
  <2>3. \A g \in D : host[g].set # s
    BY <1>1, <2>1 DEF Reg, RecordsSound
  <2>4. \A c \in Leaving(W) : RecordOf(c) # None /\ host[RecordOf(c)].set = s <=> RecordOf(c) = h
    <3>1. \A c \in Leaving(W) : RecordOf(c) \in Registered
      BY RegFacts DEF Leaving
    <3>2. \A g \in Registered : host[g].set = s <=> g = h
      BY <2>1 DEF Reg, RecordsSound
    <3>3. None \notin Registered
      BY NoneAssumption DEF Registered
    <3> QED
      BY <3>1, <3>2, <3>3
  <2>5. members'[s] = members[s] \ {c \in Leaving(W) : RecordOf(c) = h}
    BY <1>3, <2>2, <2>3, <2>4
  <2>6. Windows(h) = {c \in clients : RecordOf(c) = h}
    BY <2>1, RegFacts
  <2> QED
    BY <2>2, <2>5, <2>6 DEF Leaving
<1> QED
  BY <1>1, <1>2, <1>6, <1>7, <1>8 DEF D, G

(* Ending windows and records keeps the registry in agreement. *)
LEMMA DetachReg ==
  ASSUME Reg, TypeOK', NEW W, NEW H \in SUBSET Registered, Detach(W, H), UNCHANGED client,
         \A h \in HostConns :
           /\ hostSock'[h] = "open" => hostSock[h] = "open"
           /\ hostSock'[h] = "none" => hostSock[h] = "none"
           /\ hostSock'[h] = "closed" => hostSock[h] = "closed" \/ h \in Dropped(W, H)
  PROVE  Reg'
<1> DEFINE D == Dropped(W, H)
<1>1. /\ D \in SUBSET Registered
      /\ Registered' = Registered \ D
      /\ \A c \in clients' : c \in clients /\ c \notin W /\ RecordOf(c)' = RecordOf(c)
                             /\ RecordOf(c) \notin D
      /\ \A h \in Registered' : Windows(h)' = Windows(h) \ W
  BY DetachEffect
<1>2. /\ hosts' = [i \in HostIds |-> IF hosts[i] \in D THEN None ELSE hosts[i]]
      /\ UNCHANGED <<host, reconnecting, nextIndex>>
      /\ wired' = wired \ D /\ timers' = timers \ D
  BY DEF Detach
<1> HIDE DEF D
<1>3. RegistryConsistent'
  <2>1. ASSUME NEW c \in clients'
        PROVE  Admitted(c)' /\ RecordOf(c)' # None /\ c \in Windows(RecordOf(c))'
    <3>1. c \in clients /\ c \notin W /\ RecordOf(c)' = RecordOf(c) /\ RecordOf(c) \in Registered'
      BY <1>1, RegFacts
    <3>2. Admitted(c)' /\ RecordOf(c)' # None
      BY <3>1 DEF Reg, RegistryConsistent, Admitted
    <3>3. c \in Windows(RecordOf(c)) \ W
      BY <3>1 DEF Reg, RegistryConsistent
    <3>4. PICK h \in Registered' : h = RecordOf(c)
      BY <3>1
    <3>5. c \in Windows(h)'
      BY <1>1, <3>3, <3>4
    <3> QED
      BY <3>1, <3>2, <3>4, <3>5 DEF Windows
  <2>2. ASSUME NEW i \in HostIds, hosts'[i] # None
        PROVE  /\ host'[hosts'[i]].id = i
               /\ \A c \in Windows(hosts[i])' : c \in clients' /\ HostIdOf(c)' = i
               /\ hosts'[i] = hosts[i]
    <3>1. hosts'[i] = hosts[i] /\ hosts[i] \in Registered /\ hosts[i] \notin D /\ host[hosts[i]].id = i
      BY <1>2, <2>2, RegFacts
    <3>2. hosts[i] \in Registered'
      BY <1>1, <3>1
    <3>3. Windows(hosts[i])' = Windows(hosts[i]) \ W
      <4>1. PICK h \in Registered' : h = hosts[i]
        BY <3>2
      <4>2. Windows(h)' = Windows(h) \ W
        BY <1>1
      <4> QED
        BY <4>1, <4>2, <3>1 DEF Windows
    <3>4. ASSUME NEW c \in Windows(hosts[i]) \ W
          PROVE  c \in clients' /\ HostIdOf(c)' = i
      <4>1. c \in clients /\ HostIdOf(c) = i
        BY <2>2, <3>1 DEF Reg, RegistryConsistent
      <4>2. RecordOf(c) = hosts[i]
        BY <4>1 DEF RecordOf
      <4>3. c \notin Gone(W, H)
        BY <3>1, <3>4, <4>2, DetachEffect DEF D
      <4> QED
        BY <4>1, <4>3 DEF Detach, HostIdOf
    <3> QED
      BY <1>2, <3>1, <3>3, <3>4
  <2> QED
    BY <2>1, <2>2 DEF RegistryConsistent
<1>4. RecordsSound'
  <2>1. \A h \in HostConns : Known(h)' <=> Known(h)
    BY <1>2 DEF Known
  <2>2. ASSUME NEW h \in HostConns, Known(h)
        PROVE  /\ host'[h].set \in HostConns /\ Known(host[h].set)'
               /\ hostSock'[h] # "none"
               /\ h \in reconnecting' => h \notin wired'
    BY <1>2, <2>1, <2>2 DEF Reg, RecordsSound
  <2>3. ASSUME NEW h \in HostConns, ~Known(h)
        PROVE  /\ host'[h] = NoHost /\ members'[h] = {} /\ indexTable'[h] = EmptyTable
               /\ h \notin wired' \cup reconnecting' \cup timers'
               /\ nextIndex'[h] = 0 /\ running'[h] = {}
    <3>1. /\ host[h] = NoHost /\ members[h] = {} /\ indexTable[h] = EmptyTable
          /\ h \notin wired \cup reconnecting \cup timers
          /\ nextIndex[h] = 0 /\ running[h] = {}
      BY <2>3 DEF Reg, RecordsSound
    <3>2. members'[h] = {} /\ running'[h] = {}
      BY <3>1 DEF Detach
    <3>3. indexTable'[h] = EmptyTable
      BY <3>1 DEF Detach, IndicesWithout, EmptyTable
    <3> QED
      BY <1>2, <3>1, <3>2, <3>3
  <2>4. \A g, h \in Registered' : host'[g].set = host'[h].set => g = h
    BY <1>1, <1>2 DEF Reg, RecordsSound
  <2>5. \A h \in Registered' : h \in wired' <=> h \notin reconnecting'
    BY <1>1, <1>2 DEF Reg, RecordsSound
  <2>6. \A h \in Registered' \cap wired' : hostSock'[h] # "closed"
    <3>1. \A h \in Registered' \cap wired' :
            h \in HostConns /\ h \in Registered /\ h \in wired /\ h \notin D
      BY <1>1, <1>2 DEF Registered
    <3> QED
      BY <3>1 DEF Reg, RecordsSound, D
  <2>7. \A h \in wired' : hostSock'[h] = "open" => Current(h)'
    <3> SUFFICES ASSUME NEW h \in wired', hostSock'[h] = "open"
                 PROVE  Current(h)'
      OBVIOUS
    <3>1. h \in wired /\ h \notin D /\ h \in HostConns /\ hostSock[h] = "open"
      BY <1>2 DEF Reg, TypeOK
    <3>2. h \in Registered
      BY <3>1 DEF Reg, RecordsSound, Registered
    <3> QED
      BY <1>1, <3>1, <3>2 DEF Registered
  <2> QED
    BY <2>1, <2>2, <2>3, <2>4, <2>5, <2>6, <2>7, <1>2 DEF RecordsSound
<1> QED
  BY <1>3, <1>4 DEF Reg

(* A change of sockets that opens no known one and closes none in use. *)
LEMMA SocketReg ==
  ASSUME Reg, TypeOK', UNCHANGED <<registry, client, running>>,
         \A h \in HostConns :
           /\ hostSock'[h] = "open" => hostSock[h] = "open" \/ ~Known(h)
           /\ hostSock'[h] = "none" => hostSock[h] = "none"
           /\ hostSock'[h] = "closed" => hostSock[h] = "closed" \/ ~(Current(h) /\ h \in wired)
  PROVE  Reg'
<1>1. RegistryConsistent'
  BY DEF Reg, RegistryConsistent, registry, records, Admitted, RecordOf, HostIdOf, Windows
<1>2. /\ \A h \in HostConns : (Known(h)' <=> Known(h)) /\ (Current(h)' <=> Current(h))
      /\ Registered' = Registered
  BY DEF registry, records, Known, Current, Registered
<1>3. UNCHANGED <<host, members, indexTable, wired, reconnecting, timers, nextIndex, running>>
  BY DEF registry, records
<1>4. \A h \in Registered' \cap wired' : hostSock'[h] # "closed"
  BY <1>2, <1>3 DEF Reg, RecordsSound, Registered
<1>5. \A h \in wired' : hostSock'[h] = "open" => Current(h)'
  <2>1. \A h \in wired : h \in HostConns /\ Known(h)
    BY DEF Reg, TypeOK, RecordsSound
  <2> QED
    BY <1>2, <1>3, <2>1 DEF Reg, RecordsSound
<1>6. \A h \in HostConns : Known(h) => hostSock'[h] # "none"
  BY DEF Reg, RecordsSound
<1>7. RecordsSound'
  BY <1>2, <1>3, <1>4, <1>5, <1>6 DEF Reg, RecordsSound
<1> QED
  BY <1>1, <1>7 DEF Reg

(* A record that waits for its workstation stays registered, with its windows. *)
LEMMA BeginReconnectReg ==
  ASSUME Reg, TypeOK', NEW h \in Registered, BeginReconnect(h), UNCHANGED client,
         \A g \in HostConns :
           /\ hostSock'[g] = "open" => hostSock[g] = "open"
           /\ hostSock'[g] = "none" => hostSock[g] = "none"
           /\ hostSock'[g] = "closed" => hostSock[g] = "closed" \/ g = h
  PROVE  Reg'
<1>1. /\ UNCHANGED <<hosts, clients, host, members, running, nextIndex>>
      /\ wired' = wired \ {h} /\ reconnecting' = reconnecting \cup {h}
      /\ timers' = timers \cup {h}
      /\ indexTable' = [indexTable EXCEPT ![h] = IndicesWithout(h, Windows(h))]
  BY DEF BeginReconnect, ArmTimer
<1>2. RegistryConsistent'
  BY <1>1 DEF Reg, RegistryConsistent, Admitted, RecordOf, HostIdOf, Windows
<1>3. /\ \A g \in HostConns : (Known(g)' <=> Known(g)) /\ (Current(g)' <=> Current(g))
      /\ Registered' = Registered
  BY <1>1 DEF Known, Current, Registered
<1>4. h \in HostConns /\ Known(h)
  BY DEF Registered, Current
<1>5. \A g \in HostConns : ~Known(g) => indexTable'[g] = EmptyTable
  BY <1>1, <1>4 DEF Reg, RecordsSound, TypeOK
<1>6. \A g \in HostConns :
        IF Known(g)'
        THEN /\ host'[g].set \in HostConns /\ Known(host[g].set)'
             /\ hostSock'[g] # "none"
             /\ g \in reconnecting' => g \notin wired'
        ELSE /\ host'[g] = NoHost /\ members'[g] = {} /\ indexTable'[g] = EmptyTable
             /\ g \notin wired' \cup reconnecting' \cup timers'
             /\ nextIndex'[g] = 0 /\ running'[g] = {}
  <2>1. ASSUME NEW g \in HostConns, Known(g)
        PROVE  /\ host'[g].set \in HostConns /\ Known(host[g].set)'
               /\ hostSock'[g] # "none"
               /\ g \in reconnecting' => g \notin wired'
    BY <1>1, <1>3, <2>1 DEF Reg, RecordsSound
  <2>2. ASSUME NEW g \in HostConns, ~Known(g)
        PROVE  /\ host'[g] = NoHost /\ members'[g] = {} /\ indexTable'[g] = EmptyTable
               /\ g \notin wired' \cup reconnecting' \cup timers'
               /\ nextIndex'[g] = 0 /\ running'[g] = {}
    BY <1>1, <1>4, <1>5, <2>2 DEF Reg, RecordsSound
  <2> QED
    BY <1>3, <2>1, <2>2
<1>7. \A f, g \in Registered' : host'[f].set = host'[g].set => f = g
  BY <1>1, <1>3 DEF Reg, RecordsSound
<1>8. \A g \in Registered' : g \in wired' <=> g \notin reconnecting'
  BY <1>1, <1>3 DEF Reg, RecordsSound
<1>9. \A g \in Registered' \cap wired' : hostSock'[g] # "closed"
  BY <1>1, <1>3 DEF Reg, RecordsSound, Registered
<1>10. \A g \in wired' : hostSock'[g] = "open" => Current(g)'
  BY <1>1, <1>3 DEF Reg, RecordsSound, TypeOK
<1> QED
  BY <1>2, <1>6, <1>7, <1>8, <1>9, <1>10 DEF Reg, RecordsSound

(* A hello of an unknown workstation adds a record that nothing else names. *)
LEMMA HostHelloNewReg ==
  ASSUME Reg, TypeOK', NEW h \in HostConns, NEW id \in HostIds,
         NEW handoff \in BOOLEAN, NEW v2 \in BOOLEAN, HostHelloNew(h, id, handoff, v2)
  PROVE  Reg'
<1>1. /\ hosts[id] = None /\ ~Known(h) /\ hostSock[h] \in {"open", "closing"}
      /\ hosts' = [hosts EXCEPT ![id] = h]
      /\ host' = [host EXCEPT ![h] = NewRecord(id, handoff, v2, h)]
      /\ wired' = wired \cup {h}
      /\ UNCHANGED <<reconnecting, timers, indexTable, nextIndex, clients, members,
                     client, hostSock, running>>
  BY DEF HostHelloNew, HelloAllowed, sockets
<1>2. /\ host'[h].id = id /\ host'[h].set = h /\ Known(h)'
      /\ \A g \in HostConns \ {h} : host'[g] = host[g] /\ (Known(g)' <=> Known(g))
  BY <1>1, NoneAssumption DEF Reg, TypeOK, NewRecord, Known
<1>3. members[h] = {} /\ h \notin Registered /\ h \notin reconnecting
  BY <1>1 DEF Reg, RecordsSound, Registered, Current
<1>4. Registered' = Registered \cup {h}
  <2>1. Current(h)'
    BY <1>1, <1>2 DEF Current, Reg, TypeOK
  <2>2. \A g \in HostConns \ {h} : Current(g)' <=> Current(g)
    <3> TAKE g \in HostConns \ {h}
    <3>1. CASE Known(g)
      <4>1. host[g].id \in HostIds
        BY <3>1 DEF Known, Reg, TypeOK
      <4> QED
        BY <1>1, <1>2, <3>1, <4>1, NoneAssumption DEF Current, Reg, TypeOK
    <3>2. CASE ~Known(g)
      BY <1>2, <3>2 DEF Current
    <3> QED
      BY <3>1, <3>2
  <2> QED
    BY <2>1, <2>2 DEF Registered
<1>5. \A g \in Registered : g # h /\ host'[g] = host[g] /\ Windows(g)' = Windows(g)
  BY <1>1, <1>2, <1>3 DEF Windows, Registered
<1>6. Windows(h)' = {}
  BY <1>1, <1>2, <1>3, NoneAssumption DEF Windows
<1>7. RegistryConsistent'
  <2>1. ASSUME NEW c \in clients
        PROVE  Admitted(c)' /\ RecordOf(c)' # None /\ c \in Windows(RecordOf(c))'
    <3>1. HostIdOf(c)' = HostIdOf(c) /\ HostIdOf(c) \in HostIds /\ RecordOf(c) \in Registered
      BY <1>1, RegFacts DEF HostIdOf
    <3>2. RecordOf(c)' = RecordOf(c)
      BY <1>1, <3>1, NoneAssumption DEF RecordOf, Registered, Reg, TypeOK
    <3>3. Windows(RecordOf(c))' = Windows(RecordOf(c))
      BY <1>5, <3>1, <3>2 DEF Windows
    <3> QED
      BY <1>1, <3>2, <3>3 DEF Reg, RegistryConsistent, Admitted
  <2>2. ASSUME NEW i \in HostIds, hosts'[i] # None
        PROVE  /\ host'[hosts'[i]].id = i
               /\ \A c \in Windows(hosts[i])' : c \in clients' /\ HostIdOf(c)' = i
    <3>1. CASE i = id
      <4>1. hosts'[i] = h /\ Windows(hosts[i])' = Windows(h)'
        BY <1>1, <3>1 DEF Reg, TypeOK, Windows
      <4> QED
        BY <1>2, <1>6, <3>1, <4>1
    <3>2. CASE i # id
      <4>1. hosts'[i] = hosts[i] /\ hosts[i] \in Registered
        BY <1>1, <2>2, <3>2, RegFacts DEF Reg, TypeOK
      <4>2. Windows(hosts[i])' = Windows(hosts[i]) /\ host'[hosts[i]] = host[hosts[i]]
        BY <1>5, <4>1 DEF Windows
      <4> QED
        BY <1>1, <2>2, <4>1, <4>2 DEF Reg, RegistryConsistent, HostIdOf
    <3> QED
      BY <3>1, <3>2
  <2> QED
    BY <1>1, <2>1, <2>2 DEF RegistryConsistent
<1>8. RecordsSound'
  <2>1. ASSUME NEW g \in HostConns
        PROVE  IF Known(g)'
               THEN /\ host'[g].set \in HostConns /\ Known(host[g].set)'
                    /\ hostSock'[g] # "none"
                    /\ g \in reconnecting' => g \notin wired'
               ELSE /\ host'[g] = NoHost /\ members'[g] = {} /\ indexTable'[g] = EmptyTable
                    /\ g \notin wired' \cup reconnecting' \cup timers'
                    /\ nextIndex'[g] = 0 /\ running'[g] = {}
    <3>1. CASE g = h
      BY <1>1, <1>2, <1>3, <3>1 DEF Known
    <3>2. CASE g # h /\ Known(g)
      <4>1. host[g].set \in HostConns /\ Known(host[g].set) /\ host'[g].set = host[g].set
        BY <1>2, <3>2 DEF Reg, RecordsSound
      <4>2. Known(host[g].set)'
        BY <1>2, <4>1 DEF Known
      <4> QED
        BY <1>1, <1>2, <3>2, <4>1, <4>2 DEF Reg, RecordsSound
    <3>3. CASE g # h /\ ~Known(g)
      BY <1>1, <1>2, <3>3 DEF Reg, RecordsSound
    <3> QED
      BY <3>1, <3>2, <3>3
  <2>2. ASSUME NEW f \in Registered', NEW g \in Registered', host'[f].set = host'[g].set
        PROVE  f = g
    <3>1. \A k \in Registered : host[k].set # h
      BY <1>1, RegFacts DEF Reg, RecordsSound, Registered
    <3> QED
      BY <1>2, <1>4, <1>5, <2>2, <3>1 DEF Reg, RecordsSound
  <2>3. \A g \in Registered' : g \in wired' <=> g \notin reconnecting'
    BY <1>1, <1>3, <1>4, <1>5 DEF Reg, RecordsSound
  <2>4. \A g \in Registered' \cap wired' : hostSock'[g] # "closed"
    BY <1>1, <1>4, <1>5 DEF Reg, RecordsSound
  <2>5. \A g \in wired' : hostSock'[g] = "open" => Current(g)'
    BY <1>1, <1>4 DEF Reg, RecordsSound, TypeOK, Registered
  <2> QED
    BY <2>1, <2>2, <2>3, <2>4, <2>5 DEF RecordsSound
<1> QED
  BY <1>7, <1>8 DEF Reg

(* What every accepted hello does to the registered records. *)
LEMMA HelloRegistered ==
  ASSUME Reg, NEW h \in HostConns, ~Known(h), NEW id \in HostIds, NEW r, r.id = id,
         hosts' = [hosts EXCEPT ![id] = h], host' = [host EXCEPT ![h] = r]
  PROVE  /\ Known(h)' /\ host'[h] = r
         /\ \A g \in HostConns \ {h} : host'[g] = host[g] /\ (Known(g)' <=> Known(g))
         /\ h \notin Registered
         /\ Registered' = (Registered \ {hosts[id]}) \cup {h}
         /\ \A g \in HostConns : Known(g) => host[g].set # h
<1>1. /\ Known(h)' /\ host'[h] = r
      /\ \A g \in HostConns \ {h} : host'[g] = host[g] /\ (Known(g)' <=> Known(g))
  BY NoneAssumption DEF Reg, TypeOK, Known
<1>2. h \notin Registered
  BY DEF Registered, Current
<1>3. Current(h)'
  BY <1>1 DEF Current, Reg, TypeOK
<1>4. \A g \in HostConns \ {h} : Current(g)' <=> Current(g) /\ g # hosts[id]
  <2> TAKE g \in HostConns \ {h}
  <2>1. CASE Known(g)
    <3>1. host[g].id \in HostIds /\ host'[g] = host[g] /\ Known(g)'
      BY <1>1, <2>1 DEF Known, Reg, TypeOK
    <3>2. CASE host[g].id = id
      BY <1>1, <2>1, <3>1, <3>2 DEF Current, Reg, TypeOK
    <3>3. CASE host[g].id # id
      <4>1. hosts'[host[g].id] = hosts[host[g].id]
        BY <3>1, <3>3 DEF Reg, TypeOK
      <4>2. g # hosts[id]
        BY <3>3, RegFacts, NoneAssumption
      <4> QED
        BY <2>1, <3>1, <4>1, <4>2 DEF Current
    <3> QED
      BY <3>2, <3>3
  <2>2. CASE ~Known(g)
    BY <1>1, <2>2 DEF Current
  <2> QED
    BY <2>1, <2>2
<1>5. Registered' = (Registered \ {hosts[id]}) \cup {h}
  <2>1. h # hosts[id]
    BY <1>2, RegFacts, NoneAssumption
  <2> QED
    BY <1>2, <1>3, <1>4, <2>1 DEF Registered
<1>6. \A g \in HostConns : Known(g) => host[g].set # h
  BY DEF Reg, RecordsSound
<1> QED
  BY <1>1, <1>2, <1>5, <1>6

(* A hello that replaces a record ends its windows with it. *)
LEMMA HostHelloReplaceReg ==
  ASSUME Reg, TypeOK', NEW h \in HostConns, NEW id \in HostIds,
         NEW handoff \in BOOLEAN, NEW v2 \in BOOLEAN, HostHelloReplace(h, id, handoff, v2)
  PROVE  Reg'
<1> DEFINE old == hosts[id]
           G == Windows(old) \cap clients
<1>1. /\ old # None /\ ~Known(h) /\ hostSock[h] \in {"open", "closing"}
      /\ hosts' = [hosts EXCEPT ![id] = h]
      /\ host' = [host EXCEPT ![h] = NewRecord(id, handoff, v2, h)]
      /\ clients' = clients \ G
      /\ members' = [members EXCEPT ![host[old].set] = {}]
      /\ wired' = (wired \ {old}) \cup {h} /\ timers' = timers \ {old}
      /\ indexTable' = [indexTable EXCEPT ![old] = IndicesWithout(old, G)]
      /\ hostSock' = HostSocks({old})
      /\ UNCHANGED <<reconnecting, nextIndex, client, running>>
  BY DEF HostHelloReplace, HelloAllowed
<1>2. old \in Registered /\ old \in HostConns /\ Known(old) /\ host[old].set \in HostConns
  BY <1>1, RegFacts
<1>3. /\ Known(h)' /\ host'[h] = NewRecord(id, handoff, v2, h)
      /\ \A g \in HostConns \ {h} : host'[g] = host[g] /\ (Known(g)' <=> Known(g))
      /\ h \notin Registered
      /\ Registered' = (Registered \ {old}) \cup {h}
      /\ \A g \in HostConns : Known(g) => host[g].set # h
  <2>1. NewRecord(id, handoff, v2, h).id = id
    BY DEF NewRecord
  <2> QED
    BY <1>1, <2>1, HelloRegistered
<1>4. members[h] = {} /\ members'[h] = {} /\ h \notin reconnecting /\ h # old
  BY <1>1, <1>2, <1>3 DEF Reg, RecordsSound, TypeOK
<1>5. Windows(h)' = {} /\ host'[h].id = id /\ host'[h].set = h
  BY <1>3, <1>4, NoneAssumption DEF Windows, NewRecord
<1>6. G = Windows(old)
  BY <1>2, RegFacts
<1> HIDE DEF old, G
<1>7. ASSUME NEW g \in Registered \ {old}
      PROVE  g # h /\ host'[g] = host[g] /\ Windows(g)' = Windows(g) /\ Windows(g) \cap G = {}
  <2>1. g # h /\ host'[g] = host[g] /\ g \in HostConns
    BY <1>3 DEF Registered
  <2>2. host[g].set \in HostConns /\ host[g].set # host[old].set
    BY <1>2, RegFacts DEF Reg, RecordsSound
  <2>3. members'[host[g].set] = members[host[g].set]
    BY <1>1, <2>2 DEF Reg, TypeOK
  <2>4. Windows(g)' = Windows(g)
    BY <2>1, <2>3 DEF Windows
  <2>5. Windows(g) \cap G = {}
    BY <1>2, <1>6, RegFacts
  <2> QED
    BY <2>1, <2>4, <2>5
<1>8. RegistryConsistent'
  <2>1. ASSUME NEW c \in clients'
        PROVE  Admitted(c)' /\ RecordOf(c)' # None /\ c \in Windows(RecordOf(c))'
    <3>1. c \in clients /\ c \notin Windows(old)
      BY <1>1, <1>6
    <3>2. HostIdOf(c)' = HostIdOf(c) /\ HostIdOf(c) \in HostIds /\ RecordOf(c) \in Registered
      BY <1>1, <3>1, RegFacts DEF HostIdOf
    <3>3. RecordOf(c) # old
      BY <1>2, <3>1, RegFacts
    <3>4. RecordOf(c)' = RecordOf(c)
      BY <1>1, <3>2, <3>3 DEF RecordOf, Reg, TypeOK, old
    <3>5. PICK g \in Registered \ {old} : g = RecordOf(c)
      BY <3>2, <3>3
    <3>6. c \in Windows(g)'
      BY <1>7, <3>1, <3>5 DEF Reg, RegistryConsistent
    <3>7. g # None
      BY <3>5, NoneAssumption DEF Registered
    <3>8. Windows(RecordOf(c))' = Windows(g)'
      BY <3>4, <3>5 DEF Windows
    <3>9. Admitted(c)'
      BY <1>1, <3>1 DEF Reg, RegistryConsistent, Admitted
    <3> QED
      BY <3>4, <3>5, <3>6, <3>7, <3>8, <3>9
  <2>2. ASSUME NEW i \in HostIds, hosts'[i] # None
        PROVE  /\ host'[hosts'[i]].id = i
               /\ \A c \in Windows(hosts[i])' : c \in clients' /\ HostIdOf(c)' = i
    <3>1. CASE i = id
      <4>1. hosts'[i] = h
        BY <1>1, <3>1 DEF Reg, TypeOK
      <4>2. Windows(hosts[i])' = Windows(h)'
        BY <4>1 DEF Windows
      <4> QED
        BY <1>5, <3>1, <4>1, <4>2
    <3>2. CASE i # id
      <4>1. hosts'[i] = hosts[i] /\ hosts[i] \in Registered /\ host[hosts[i]].id = i
        BY <1>1, <2>2, <3>2, RegFacts DEF Reg, TypeOK
      <4>2. hosts[i] # old
        BY <1>1, <2>2, <3>2, <4>1, RegFacts DEF old
      <4>3. PICK g \in Registered \ {old} : g = hosts[i]
        BY <4>1, <4>2
      <4>4. Windows(hosts[i])' = Windows(g)' /\ Windows(hosts[i]) = Windows(g)
        BY <4>1, <4>3 DEF Windows
      <4>5. Windows(hosts[i])' = Windows(hosts[i]) /\ Windows(g) \cap G = {}
        BY <1>7, <4>4
      <4>6. \A c \in Windows(g) : c \in clients /\ HostIdOf(c) = i
        BY <2>2, <4>1, <4>4 DEF Reg, RegistryConsistent
      <4>7. \A c \in Windows(g) : c \in clients' /\ HostIdOf(c)' = i
        BY <1>1, <4>5, <4>6 DEF HostIdOf
      <4> QED
        BY <1>7, <4>1, <4>3, <4>4, <4>5, <4>7
    <3> QED
      BY <3>1, <3>2
  <2> QED
    BY <2>1, <2>2 DEF RegistryConsistent
<1>9. ASSUME NEW g \in HostConns
      PROVE  /\ hostSock'[g] = "none" <=> hostSock[g] = "none"
             /\ hostSock'[g] = "open" => hostSock[g] = "open" /\ ~(g = old /\ g \in wired)
             /\ hostSock'[g] = "closed" <=> hostSock[g] = "closed"
  BY <1>1 DEF HostSocks, Closing
<1>10. RecordsSound'
  <2>1. ASSUME NEW g \in HostConns
        PROVE  IF Known(g)'
               THEN /\ host'[g].set \in HostConns /\ Known(host[g].set)'
                    /\ hostSock'[g] # "none"
                    /\ g \in reconnecting' => g \notin wired'
               ELSE /\ host'[g] = NoHost /\ members'[g] = {} /\ indexTable'[g] = EmptyTable
                    /\ g \notin wired' \cup reconnecting' \cup timers'
                    /\ nextIndex'[g] = 0 /\ running'[g] = {}
    <3>1. CASE g = h
      <4>1. Known(host[g].set)'
        BY <1>3, <1>5, <3>1 DEF Known
      <4> QED
        BY <1>1, <1>3, <1>4, <1>5, <1>9, <3>1, <4>1
    <3>2. CASE g # h /\ Known(g)
      <4>1. host[g].set \in HostConns /\ Known(host[g].set) /\ host'[g].set = host[g].set
        BY <1>3, <3>2 DEF Reg, RecordsSound
      <4>2. Known(host[g].set)'
        BY <1>3, <4>1 DEF Known
      <4> QED
        BY <1>1, <1>3, <1>9, <3>2, <4>1, <4>2 DEF Reg, RecordsSound
    <3>3. CASE g # h /\ ~Known(g)
      <4>1. /\ host[g] = NoHost /\ members[g] = {} /\ indexTable[g] = EmptyTable
            /\ g \notin wired \cup reconnecting \cup timers
            /\ nextIndex[g] = 0 /\ running[g] = {}
        BY <3>3 DEF Reg, RecordsSound
      <4>2. g # old /\ ~Known(g)' /\ host'[g] = host[g]
        BY <1>2, <1>3, <3>3
      <4>3. members'[g] = {} /\ indexTable'[g] = EmptyTable
        BY <1>1, <4>1, <4>2 DEF Reg, TypeOK
      <4> QED
        BY <1>1, <3>3, <4>1, <4>2, <4>3
    <3> QED
      BY <3>1, <3>2, <3>3
  <2>2. ASSUME NEW f \in Registered', NEW g \in Registered', host'[f].set = host'[g].set
        PROVE  f = g
    <3>1. \A k \in Registered : host[k].set # h
      BY <1>3 DEF Registered, Current
    <3> QED
      BY <1>3, <1>5, <1>7, <2>2, <3>1 DEF Reg, RecordsSound
  <2>3. \A g \in Registered' : g \in wired' <=> g \notin reconnecting'
    BY <1>1, <1>3, <1>4, <1>7 DEF Reg, RecordsSound
  <2>4. \A g \in Registered' \cap wired' : hostSock'[g] # "closed"
    <3>1. \A g \in Registered' \cap wired' : g = h \/ g \in Registered \cap wired
      BY <1>1, <1>3
    <3>2. \A g \in Registered' : g \in HostConns
      BY DEF Registered
    <3>3. hostSock[h] # "closed"
      BY <1>1
    <3> QED
      BY <1>9, <3>1, <3>2, <3>3 DEF Reg, RecordsSound
  <2>5. ASSUME NEW g \in wired', hostSock'[g] = "open"
        PROVE  Current(g)'
    <3>1. g \in HostConns
      BY <1>1 DEF Reg, TypeOK
    <3>2. CASE g = h
      BY <1>3, <3>1, <3>2 DEF Registered
    <3>3. CASE g # h
      <4>1. g \in wired /\ g # old /\ hostSock[g] = "open"
        BY <1>1, <1>9, <2>5, <3>1, <3>3
      <4>2. g \in Registered
        BY <4>1, <3>1 DEF Reg, RecordsSound, Registered
      <4> QED
        BY <1>3, <4>1, <4>2 DEF Registered
    <3> QED
      BY <3>2, <3>3
  <2> QED
    BY <2>1, <2>2, <2>3, <2>4, <2>5 DEF RecordsSound
<1> QED
  BY <1>8, <1>10 DEF Reg

(* A hand-off gives the windows to the new record and leaves the old one without claim. *)
LEMMA HostHelloHandoffReg ==
  ASSUME Reg, TypeOK', NEW h \in HostConns, NEW id \in HostIds,
         NEW handoff \in BOOLEAN, NEW v2 \in BOOLEAN, HostHelloHandoff(h, id, handoff, v2)
  PROVE  Reg'
<1> DEFINE old == hosts[id]
           r == NewRecord(id, handoff, v2, host[old].set)
<1>1. /\ old # None /\ ~Known(h) /\ hostSock[h] \in {"open", "closing"}
      /\ hosts' = [hosts EXCEPT ![id] = h]
      /\ host' = [host EXCEPT ![h] = r]
      /\ wired' = wired \cup {h} /\ timers' = timers \ {old}
      /\ hostSock' = HostSocks({old})
      /\ UNCHANGED <<reconnecting, clients, members, client>>
  BY DEF HostHelloHandoff, HelloAllowed
<1>2. \A g \in HostConns \ {h, old} :
        indexTable'[g] = indexTable[g] /\ nextIndex'[g] = nextIndex[g] /\ running'[g] = running[g]
  <2>1. PICK f \in FirstIndices(Windows(old), v2) :
          LET W == Windows(old)
              started == hostSock[h] = "open"
          IN /\ indexTable' = [indexTable EXCEPT
                   ![old] = IndicesWithout(old, W),
                   ![h] = IF started THEN TableOf(f) ELSE @]
             /\ nextIndex' = [nextIndex EXCEPT
                   ![h] = IF started /\ v2 /\ Cardinality(W) < IndexCount
                          THEN Cardinality(W) ELSE @]
             /\ running' = [running EXCEPT
                   ![old] = IF WsOpen(old) THEN @ \ {c \in W : session[c].on = old} ELSE @,
                   ![h] = IF started THEN W ELSE {}]
    BY DEF HostHelloHandoff
  <2> HIDE DEF old
  <2> QED
    BY <2>1 DEF Reg, TypeOK
<1>3. old \in Registered /\ old \in HostConns /\ Known(old)
      /\ host[old].set \in HostConns /\ host[old].id = id
  BY <1>1, RegFacts
<1>4. r.id = id /\ r.set = host[old].set
  BY DEF NewRecord
<1> HIDE DEF r
<1>5. /\ Known(h)' /\ host'[h] = r
      /\ \A g \in HostConns \ {h} : host'[g] = host[g] /\ (Known(g)' <=> Known(g))
      /\ h \notin Registered
      /\ Registered' = (Registered \ {old}) \cup {h}
      /\ \A g \in HostConns : Known(g) => host[g].set # h
  BY <1>1, <1>4, HelloRegistered
<1>6. h \notin reconnecting /\ h # old
  BY <1>1, <1>3 DEF Reg, RecordsSound
<1>7. Windows(h)' = Windows(old)
  BY <1>1, <1>3, <1>4, <1>5, NoneAssumption DEF Windows
<1> HIDE DEF old
<1>8. ASSUME NEW g \in Registered \ {old}
      PROVE  g # h /\ host'[g] = host[g] /\ Windows(g)' = Windows(g)
             /\ host[g].set # host[old].set
  <2>1. g # h /\ host'[g] = host[g] /\ g \in HostConns
    BY <1>5 DEF Registered
  <2>2. host[g].set # host[old].set
    BY <1>3 DEF Reg, RecordsSound
  <2> QED
    BY <1>1, <2>1, <2>2 DEF Windows
<1>9. RegistryConsistent'
  <2>1. ASSUME NEW c \in clients'
        PROVE  Admitted(c)' /\ RecordOf(c)' # None /\ c \in Windows(RecordOf(c))'
    <3>1. c \in clients /\ Admitted(c)'
      BY <1>1 DEF Reg, RegistryConsistent, Admitted
    <3>2. HostIdOf(c)' = HostIdOf(c) /\ HostIdOf(c) \in HostIds /\ RecordOf(c) \in Registered
          /\ c \in Windows(RecordOf(c))
      BY <1>1, <3>1, RegFacts DEF HostIdOf, Reg, RegistryConsistent
    <3>3. CASE HostIdOf(c) = id
      <4>1. RecordOf(c)' = h /\ RecordOf(c) = old
        BY <1>1, <3>2, <3>3 DEF RecordOf, old, Reg, TypeOK
      <4>2. Windows(RecordOf(c))' = Windows(h)'
        BY <4>1 DEF Windows
      <4> QED
        BY <1>7, <3>1, <3>2, <4>1, <4>2, NoneAssumption
    <3>4. CASE HostIdOf(c) # id
      <4>1. RecordOf(c)' = RecordOf(c)
        BY <1>1, <3>2, <3>4 DEF RecordOf, Reg, TypeOK
      <4>2. host[RecordOf(c)].id = HostIdOf(c)
        BY <3>2, RegFacts, NoneAssumption DEF RecordOf, Registered
      <4>3. PICK g \in Registered \ {old} : g = RecordOf(c)
        BY <1>3, <3>2, <3>4, <4>2
      <4>4. Windows(RecordOf(c))' = Windows(g)' /\ g # None
        BY <4>1, <4>3, NoneAssumption DEF Windows, Registered
      <4> QED
        BY <1>8, <3>1, <3>2, <4>1, <4>3, <4>4
    <3> QED
      BY <3>3, <3>4
  <2>2. ASSUME NEW i \in HostIds, hosts'[i] # None
        PROVE  /\ host'[hosts'[i]].id = i
               /\ \A c \in Windows(hosts[i])' : c \in clients' /\ HostIdOf(c)' = i
    <3>1. CASE i = id
      <4>1. hosts'[i] = h
        BY <1>1, <3>1 DEF Reg, TypeOK
      <4>2. Windows(hosts[i])' = Windows(old)
        BY <1>7, <4>1 DEF Windows
      <4>3. \A c \in Windows(old) : c \in clients' /\ HostIdOf(c)' = i
        BY <1>1, <3>1 DEF Reg, RegistryConsistent, HostIdOf, old
      <4> QED
        BY <1>4, <1>5, <3>1, <4>1, <4>2, <4>3
    <3>2. CASE i # id
      <4>1. hosts'[i] = hosts[i] /\ hosts[i] \in Registered /\ host[hosts[i]].id = i
        BY <1>1, <2>2, <3>2, RegFacts DEF Reg, TypeOK
      <4>2. PICK g \in Registered \ {old} : g = hosts[i]
        BY <1>3, <3>2, <4>1
      <4>3. Windows(hosts[i])' = Windows(g)' /\ Windows(hosts[i]) = Windows(g)
        BY <4>1, <4>2 DEF Windows
      <4>4. \A c \in Windows(g) : c \in clients' /\ HostIdOf(c)' = i
        BY <1>1, <2>2, <4>1, <4>3 DEF Reg, RegistryConsistent, HostIdOf
      <4> QED
        BY <1>8, <4>1, <4>2, <4>3, <4>4
    <3> QED
      BY <3>1, <3>2
  <2> QED
    BY <2>1, <2>2 DEF RegistryConsistent
<1>10. ASSUME NEW g \in HostConns
       PROVE  /\ hostSock'[g] = "none" <=> hostSock[g] = "none"
              /\ hostSock'[g] = "open" => hostSock[g] = "open" /\ ~(g = old /\ g \in wired)
              /\ hostSock'[g] = "closed" <=> hostSock[g] = "closed"
  BY <1>1 DEF HostSocks, Closing
<1>11. RecordsSound'
  <2>1. ASSUME NEW g \in HostConns
        PROVE  IF Known(g)'
               THEN /\ host'[g].set \in HostConns /\ Known(host[g].set)'
                    /\ hostSock'[g] # "none"
                    /\ g \in reconnecting' => g \notin wired'
               ELSE /\ host'[g] = NoHost /\ members'[g] = {} /\ indexTable'[g] = EmptyTable
                    /\ g \notin wired' \cup reconnecting' \cup timers'
                    /\ nextIndex'[g] = 0 /\ running'[g] = {}
    <3>1. CASE g = h
      <4>1. host'[g].set = host[old].set /\ Known(host[old].set) /\ host[old].set # h
        BY <1>3, <1>4, <1>5, <3>1 DEF Reg, RecordsSound
      <4>2. Known(host[g].set)'
        BY <1>3, <1>5, <4>1 DEF Known
      <4> QED
        BY <1>1, <1>3, <1>5, <1>6, <1>10, <3>1, <4>1, <4>2
    <3>2. CASE g # h /\ Known(g)
      <4>1. host[g].set \in HostConns /\ Known(host[g].set) /\ host'[g].set = host[g].set
        BY <1>5, <3>2 DEF Reg, RecordsSound
      <4>2. Known(host[g].set)'
        BY <1>5, <4>1 DEF Known
      <4> QED
        BY <1>1, <1>5, <1>10, <3>2, <4>1, <4>2 DEF Reg, RecordsSound
    <3>3. CASE g # h /\ ~Known(g)
      <4>1. /\ host[g] = NoHost /\ members[g] = {} /\ indexTable[g] = EmptyTable
            /\ g \notin wired \cup reconnecting \cup timers
            /\ nextIndex[g] = 0 /\ running[g] = {}
        BY <3>3 DEF Reg, RecordsSound
      <4>2. g # old /\ ~Known(g)' /\ host'[g] = host[g]
        BY <1>3, <1>5, <3>3
      <4> QED
        BY <1>1, <1>2, <3>3, <4>1, <4>2
    <3> QED
      BY <3>1, <3>2, <3>3
  <2>2. ASSUME NEW f \in Registered', NEW g \in Registered', host'[f].set = host'[g].set
        PROVE  f = g
    BY <1>4, <1>5, <1>8, <2>2 DEF Reg, RecordsSound
  <2>3. \A g \in Registered' : g \in wired' <=> g \notin reconnecting'
    BY <1>1, <1>5, <1>6, <1>8 DEF Reg, RecordsSound
  <2>4. \A g \in Registered' \cap wired' : hostSock'[g] # "closed"
    <3>1. \A g \in Registered' \cap wired' : g = h \/ g \in Registered \cap wired
      BY <1>1, <1>5
    <3>2. \A g \in Registered' : g \in HostConns
      BY DEF Registered
    <3>3. hostSock[h] # "closed"
      BY <1>1
    <3> QED
      BY <1>10, <3>1, <3>2, <3>3 DEF Reg, RecordsSound
  <2>5. ASSUME NEW g \in wired', hostSock'[g] = "open"
        PROVE  Current(g)'
    <3>1. g \in HostConns
      BY <1>1 DEF Reg, TypeOK
    <3>2. CASE g = h
      BY <1>5, <3>1, <3>2 DEF Registered
    <3>3. CASE g # h
      <4>1. g \in wired /\ g # old /\ hostSock[g] = "open"
        BY <1>1, <1>10, <2>5, <3>1, <3>3
      <4>2. g \in Registered
        BY <4>1, <3>1 DEF Reg, RecordsSound, Registered
      <4> QED
        BY <1>5, <4>1, <4>2 DEF Registered
    <3> QED
      BY <3>2, <3>3
  <2> QED
    BY <2>1, <2>2, <2>3, <2>4, <2>5 DEF RecordsSound
<1> QED
  BY <1>9, <1>11 DEF Reg

(* A window that is let in joins the Set of the record it names. *)
LEMMA WindowHelloReg ==
  ASSUME Reg, TypeOK', NEW c \in WindowConns, NEW d \in Devices, NEW handoff \in BOOLEAN,
         WindowHello(c, d, handoff)
  PROVE  Reg'
<1>2. HostOf[d] \in HostIds
  BY DeviceAssumption
<1>0. PICK h \in HostConns : h = hosts[HostOf[d]]
  BY <1>2 DEF WindowHello, Reg, TypeOK
<1>1. /\ ~Admitted(c) /\ h # None
      /\ client' = [client EXCEPT ![c] = [device |-> d, handoff |-> handoff]]
      /\ clients' = clients \cup {c}
      /\ members' = [members EXCEPT ![host[h].set] = @ \cup {c}]
      /\ indexTable' = indexTable \/ \E i : indexTable' = [indexTable EXCEPT ![h][i] = c]
      /\ nextIndex' = nextIndex \/ \E i : nextIndex' = [nextIndex EXCEPT ![h] = i]
      /\ running' = [running EXCEPT ![h] = @ \cup {c}]
      /\ UNCHANGED <<hosts, host, wired, reconnecting, timers, hostSock>>
  BY <1>0 DEF WindowHello, HelloExpected, sockets
<1>3. h \in Registered /\ h \in HostConns /\ Known(h) /\ host[h].id = HostOf[d]
      /\ host[h].set \in HostConns /\ Windows(h) = members[host[h].set]
  BY <1>0, <1>1, <1>2, RegFacts
<1>4. c \notin clients
  BY <1>1 DEF Reg, RegistryConsistent
<1>5. Registered' = Registered /\ \A g \in HostConns : (Known(g)' <=> Known(g)) /\ (Current(g)' <=> Current(g))
  BY <1>1 DEF Registered, Current, Known
<1>6. Admitted(c)' /\ HostIdOf(c)' = HostOf[d] /\ RecordOf(c)' = h
  <2>1. client'[c].device = d
    BY <1>1 DEF Reg, TypeOK
  <2> QED
    BY <1>0, <1>1, <2>1, NoneAssumption DEF Admitted, HostIdOf, RecordOf
<1>7. \A w \in clients : (Admitted(w)' <=> Admitted(w)) /\ HostIdOf(w)' = HostIdOf(w)
                          /\ RecordOf(w)' = RecordOf(w)
  BY <1>1, <1>4 DEF Admitted, HostIdOf, RecordOf, Reg, TypeOK
<1>8. Windows(h)' = Windows(h) \cup {c}
  BY <1>1, <1>3, NoneAssumption DEF Windows, Reg, TypeOK
<1>9. \A g \in Registered \ {h} : Windows(g)' = Windows(g)
  <2> TAKE g \in Registered \ {h}
  <2>1. host[g].set \in HostConns /\ host[g].set # host[h].set
    BY <1>3, RegFacts DEF Reg, RecordsSound
  <2> QED
    BY <1>1, <2>1 DEF Windows, Reg, TypeOK
<1>10. RegistryConsistent'
  <2>1. ASSUME NEW w \in clients'
        PROVE  Admitted(w)' /\ RecordOf(w)' # None /\ w \in Windows(RecordOf(w))'
    <3>1. CASE w = c
      <4>1. Windows(RecordOf(w))' = Windows(h)'
        BY <1>6, <3>1 DEF Windows
      <4> QED
        BY <1>1, <1>6, <1>8, <3>1, <4>1
    <3>2. CASE w # c
      <4>1. w \in clients /\ w \in Windows(RecordOf(w)) /\ Admitted(w)' /\ RecordOf(w)' = RecordOf(w)
        BY <1>1, <1>7, <3>2 DEF Reg, RegistryConsistent
      <4>2. PICK g \in Registered : g = RecordOf(w)
        BY <4>1, RegFacts
      <4>3. Windows(RecordOf(w))' = Windows(g)' /\ g # None
        BY <4>1, <4>2, NoneAssumption DEF Windows, Registered
      <4> QED
        BY <1>8, <1>9, <4>1, <4>2, <4>3
    <3> QED
      BY <3>1, <3>2
  <2>2. ASSUME NEW i \in HostIds, hosts[i] # None
        PROVE  /\ host[hosts[i]].id = i
               /\ \A w \in Windows(hosts[i])' : w \in clients' /\ HostIdOf(w)' = i
    <3>1. PICK g \in Registered : g = hosts[i]
      BY <2>2, RegFacts
    <3>2. Windows(hosts[i])' = Windows(g)'
      BY <1>1, <3>1 DEF Windows
    <3>3. \A w \in Windows(g) : w \in clients' /\ HostIdOf(w)' = i
      BY <1>1, <1>7, <2>2, <3>1 DEF Reg, RegistryConsistent
    <3>4. g = h => i = HostOf[d]
      BY <1>3, <2>2, <3>1, RegFacts
    <3> QED
      BY <1>1, <1>6, <1>8, <1>9, <2>2, <3>1, <3>2, <3>3, <3>4, RegFacts
  <2> QED
    BY <1>1, <2>1, <2>2 DEF RegistryConsistent, Windows
<1>11. RecordsSound'
  <2>1. ASSUME NEW g \in HostConns, ~Known(g)
        PROVE  members'[g] = {} /\ indexTable'[g] = EmptyTable /\ nextIndex'[g] = 0 /\ running'[g] = {}
    <3>1. members[g] = {} /\ indexTable[g] = EmptyTable /\ nextIndex[g] = 0 /\ running[g] = {}
      BY <2>1 DEF Reg, RecordsSound
    <3>2. g # h /\ g # host[h].set
      BY <1>3, <2>1 DEF Reg, RecordsSound
    <3> QED
      BY <1>1, <3>1, <3>2 DEF Reg, TypeOK
  <2>2. \A g \in wired : hostSock'[g] = "open" => Current(g)'
    BY <1>1, <1>5 DEF Reg, RecordsSound, TypeOK
  <2>3. \A g \in Registered' \cap wired' : hostSock'[g] # "closed"
    BY <1>1, <1>5 DEF Reg, RecordsSound
  <2>4. ASSUME NEW g \in HostConns, Known(g)
        PROVE  host[g].set \in HostConns /\ Known(host[g].set)' /\ hostSock[g] # "none"
               /\ (g \in reconnecting => g \notin wired)
    BY <1>1, <2>4 DEF Reg, RecordsSound, Known
  <2>5. ASSUME NEW g \in HostConns, ~Known(g)
        PROVE  host[g] = NoHost /\ g \notin wired \cup reconnecting \cup timers
    BY <2>5 DEF Reg, RecordsSound
  <2>6. Known(h)'
    BY <1>3, <1>5
  <2>7. ASSUME NEW g \in HostConns
        PROVE  IF Known(g)'
               THEN /\ host'[g].set \in HostConns /\ Known(host[g].set)'
                    /\ hostSock'[g] # "none"
                    /\ g \in reconnecting' => g \notin wired'
               ELSE /\ host'[g] = NoHost /\ members'[g] = {} /\ indexTable'[g] = EmptyTable
                    /\ g \notin wired' \cup reconnecting' \cup timers'
                    /\ nextIndex'[g] = 0 /\ running'[g] = {}
    <3>1. CASE Known(g)
      <4>1. Known(host[g].set)' /\ Known(g)'
        BY <1>5, <2>4, <3>1
      <4> QED
        BY <1>1, <2>4, <3>1, <4>1
    <3>2. CASE ~Known(g)
      BY <1>1, <1>5, <2>1, <2>5, <3>2
    <3> QED
      BY <3>1, <3>2
  <2>8. /\ \A f, g \in Registered' : host'[f].set = host'[g].set => f = g
        /\ \A g \in Registered' : g \in wired' <=> g \notin reconnecting'
    BY <1>1, <1>5 DEF Reg, RecordsSound
  <2> QED
    BY <1>1, <2>2, <2>3, <2>7, <2>8 DEF RecordsSound
<1> QED
  BY <1>10, <1>11 DEF Reg

(* Ending windows and closing their sockets keeps the registry in agreement. *)
LEMMA DetachAndCloseReg ==
  ASSUME Reg, TypeOK', NEW W, NEW H \in SUBSET Registered, DetachAndClose(W, H), UNCHANGED client
  PROVE  Reg'
<1>1. \A h \in HostConns :
        /\ hostSock'[h] = "open" => hostSock[h] = "open"
        /\ hostSock'[h] = "none" => hostSock[h] = "none"
        /\ hostSock'[h] = "closed" => hostSock[h] = "closed"
  BY DEF DetachAndClose, HostSocks, Closing
<1> QED
  BY <1>1, DetachReg DEF DetachAndClose

(* Each step of a connection keeps Reg. *)
LEMMA HostStepReg ==
  ASSUME Reg, TypeOK', NEW h \in HostConns, HostStep(h)
  PROVE  Reg'
<1>1. CASE HostUpgrade(h) \/ HostRefused(h) \/ HostClosing(h)
  <2>1. ~Known(h) \/ hostSock[h] = "open"
    BY <1>1 DEF HostUpgrade, HostRefused, HostClosing, Reg, RecordsSound
  <2>2. UNCHANGED <<registry, client, running>>
    BY <1>1 DEF HostUpgrade, HostRefused, HostClosing, wire
  <2>3. \E s \in {"open", "closing"} :
          /\ hostSock' = [hostSock EXCEPT ![h] = s]
          /\ s = "open" => ~Known(h)
    BY <1>1, <2>1 DEF HostUpgrade, HostRefused, HostClosing, Reg, RecordsSound
  <2>4. \A g \in HostConns :
           /\ hostSock'[g] = "open" => hostSock[g] = "open" \/ ~Known(g)
           /\ hostSock'[g] = "none" => hostSock[g] = "none"
           /\ hostSock'[g] = "closed" => hostSock[g] = "closed" \/ ~(Current(g) /\ g \in wired)
    BY <2>3 DEF Reg, TypeOK
  <2> QED
    BY <2>2, <2>4, SocketReg
<1>2. CASE \E id \in HostIds, handoff, v2 \in BOOLEAN :
             \/ HostHelloNew(h, id, handoff, v2)
             \/ HostHelloReplace(h, id, handoff, v2)
             \/ HostHelloHandoff(h, id, handoff, v2)
  BY <1>2, HostHelloNewReg, HostHelloReplaceReg, HostHelloHandoffReg
<1>3. ASSUME NEW shutdown \in BOOLEAN, HostClosed(h, shutdown)
      PROVE  Reg'
  <2>1. CASE ~(Current(h) /\ h \in wired)
    <3>1. UNCHANGED <<registry, client, running>> /\ hostSock' = [hostSock EXCEPT ![h] = "closed"]
      BY <1>3, <2>1 DEF HostClosed, wire
    <3>2. \A g \in HostConns :
             /\ hostSock'[g] = "open" => hostSock[g] = "open" \/ ~Known(g)
             /\ hostSock'[g] = "none" => hostSock[g] = "none"
             /\ hostSock'[g] = "closed" => hostSock[g] = "closed" \/ ~(Current(g) /\ g \in wired)
      BY <2>1, <3>1 DEF Reg, TypeOK
    <3> QED
      BY <3>1, <3>2, SocketReg
  <2>2. CASE (Current(h) /\ h \in wired) /\ (shutdown \/ ~CanHandoff(h))
    <3>1. Detach({}, {h}) /\ hostSock' = [hostSock EXCEPT ![h] = "closed"] /\ UNCHANGED client
      BY <1>3, <2>2 DEF HostClosed
    <3>2. {h} \in SUBSET Registered /\ h \in Dropped({}, {h})
      BY <2>2 DEF Registered, Dropped
    <3>3. \A g \in HostConns :
           /\ hostSock'[g] = "open" => hostSock[g] = "open"
           /\ hostSock'[g] = "none" => hostSock[g] = "none"
           /\ hostSock'[g] = "closed" => hostSock[g] = "closed" \/ g \in Dropped({}, {h})
      BY <3>1, <3>2 DEF Reg, TypeOK
    <3> QED
      BY <3>1, <3>2, <3>3, DetachReg
  <2>3. CASE (Current(h) /\ h \in wired) /\ ~(shutdown \/ ~CanHandoff(h))
    <3>1. BeginReconnect(h) /\ hostSock' = [hostSock EXCEPT ![h] = "closed"] /\ UNCHANGED client
      BY <1>3, <2>3 DEF HostClosed
    <3>2. h \in Registered
      BY <2>3 DEF Registered
    <3>3. \A g \in HostConns :
           /\ hostSock'[g] = "open" => hostSock[g] = "open"
           /\ hostSock'[g] = "none" => hostSock[g] = "none"
           /\ hostSock'[g] = "closed" => hostSock[g] = "closed" \/ g = h
      BY <3>1 DEF Reg, TypeOK
    <3> QED
      BY <3>1, <3>2, <3>3, BeginReconnectReg
  <2> QED
    BY <2>1, <2>2, <2>3
<1>4. CASE GraceTimeout(h)
  <2>1. CASE Current(h) /\ h \in reconnecting
    <3>1. {h} \in SUBSET Registered /\ DetachAndClose({}, {h}) /\ UNCHANGED client
      BY <1>4, <2>1 DEF GraceTimeout, Registered
    <3> QED
      BY <3>1, DetachAndCloseReg
  <2>2. CASE ~(Current(h) /\ h \in reconnecting)
    <3>1. timers' = timers \ {h}
          /\ UNCHANGED <<hosts, clients, host, wired, reconnecting, indexTable, nextIndex,
                         members, client, hostSock, running>>
      BY <1>4, <2>2 DEF GraceTimeout, sockets, wire
    <3>2. RegistryConsistent'
      BY <3>1 DEF Reg, RegistryConsistent, Admitted, RecordOf, HostIdOf, Windows
    <3>3. Registered' = Registered /\ \A g \in HostConns : (Known(g)' <=> Known(g)) /\ (Current(g)' <=> Current(g))
      BY <3>1 DEF Registered, Current, Known
    <3>4. \A g \in HostConns : Known(host[g].set)' <=> Known(host[g].set)
      BY <3>1 DEF Known
    <3>5. \A g \in wired : hostSock'[g] = "open" => Current(g)'
      BY <3>1, <3>3 DEF Reg, RecordsSound, TypeOK
    <3>6. RecordsSound'
      BY <3>1, <3>3, <3>4, <3>5 DEF Reg, RecordsSound
    <3> QED
      BY <3>2, <3>6 DEF Reg
  <2> QED
    BY <2>1, <2>2
<1>5. CASE HostShutdown(h)
  <2>1. {h} \in SUBSET Registered /\ DetachAndClose({}, {h}) /\ UNCHANGED client
    BY <1>5 DEF HostShutdown, Registered
  <2> QED
    BY <2>1, DetachAndCloseReg
<1>6. CASE \E c \in WindowConns : SessionExit(h, c)
  BY <1>6, DetachAndCloseReg DEF SessionExit
<1> QED
  BY <1>1, <1>2, <1>3, <1>4, <1>5, <1>6 DEF HostStep

(* Each step of a window keeps Reg. *)
LEMMA WindowStepReg ==
  ASSUME Reg, TypeOK', NEW c \in WindowConns, WindowStep(c)
  PROVE  Reg'
<1>1. CASE WindowUpgrade(c) \/ WindowRefused(c) \/ WindowClosing(c)
  <2>1. UNCHANGED <<registry, client, running, hostSock>>
    BY <1>1 DEF WindowUpgrade, WindowRefused, WindowClosing, wire
  <2> QED
    BY <2>1, SocketReg
<1>2. CASE WindowClosed(c)
  <2>1. Detach({c}, {}) /\ hostSock' = HostSocks(Dropped({c}, {})) /\ UNCHANGED client
    BY <1>2 DEF WindowClosed
  <2>2. \A h \in HostConns :
          /\ hostSock'[h] = "open" => hostSock[h] = "open"
          /\ hostSock'[h] = "none" => hostSock[h] = "none"
          /\ hostSock'[h] = "closed" => hostSock[h] = "closed"
    BY <2>1 DEF HostSocks, Closing
  <2> QED
    BY <2>1, <2>2, DetachReg
<1>3. CASE \E d \in Devices, handoff \in BOOLEAN : WindowHello(c, d, handoff)
  BY <1>3, WindowHelloReg
<1>4. CASE SlowWindow(c)
  BY <1>4, DetachAndCloseReg DEF SlowWindow
<1>5. CASE SendFailed(c)
  <2>1. RecordOf(c) \in Registered
    BY <1>5, RegFacts DEF SendFailed
  <2>2. CASE CanHandoff(RecordOf(c))
    <3>1. PICK h \in Registered : h = RecordOf(c)
      BY <2>1
    <3>2. BeginReconnect(h) /\ UNCHANGED <<client, hostSock>>
      BY <1>5, <2>2, <3>1 DEF SendFailed, sockets
    <3> QED
      BY <3>2, BeginReconnectReg
  <2>3. CASE ~CanHandoff(RecordOf(c))
    <3>1. {RecordOf(c)} \in SUBSET Registered /\ DetachAndClose({}, {RecordOf(c)}) /\ UNCHANGED client
      BY <1>5, <2>1, <2>3 DEF SendFailed
    <3> QED
      BY <3>1, DetachAndCloseReg
  <2> QED
    BY <2>2, <2>3
<1> QED
  BY <1>1, <1>2, <1>3, <1>4, <1>5 DEF WindowStep

(* Revoking, sweeping and closing keep Reg. *)
LEMMA OperatorStepReg ==
  ASSUME Reg, TypeOK', OperatorStep
  PROVE  Reg'
<1>1. ASSUME NEW d \in Devices, RevokeDevice(d)
      PROVE  Reg'
  BY <1>1, DetachAndCloseReg DEF RevokeDevice
<1>2. ASSUME NEW W \in SUBSET clients, NEW H \in SUBSET Registered, Sweep(W, H)
      PROVE  Reg'
  BY <1>2, DetachAndCloseReg DEF Sweep
<1>3. CASE Close
  BY <1>3, DetachAndCloseReg DEF Close
<1> QED
  BY <1>1, <1>2, <1>3 DEF OperatorStep

(* An empty registry agrees with itself. *)
LEMMA InitReg == Init => Reg
<1> SUFFICES ASSUME Init PROVE Reg
  OBVIOUS
<1>1. \A h \in HostConns : ~Known(h) /\ ~Current(h)
  BY DEF Init, Known, NoHost, Current
<1>2. Registered = {}
  BY <1>1 DEF Registered
<1>3. RegistryConsistent
  BY DEF Init, RegistryConsistent
<1>4. RecordsSound
  BY <1>1, <1>2 DEF Init, RecordsSound
<1> QED
  BY <1>3, <1>4, InitType DEF Reg

(* Every step keeps Reg. *)
LEMMA NextReg == Reg /\ TypeOK' /\ [Next]_vars => Reg'
<1> SUFFICES ASSUME Reg, TypeOK', [Next]_vars PROVE Reg'
  OBVIOUS
<1>1. CASE Next
  BY <1>1, HostStepReg, WindowStepReg, OperatorStepReg DEF Next
<1>2. CASE UNCHANGED vars
  <2>1. UNCHANGED <<registry, client, running, hostSock>>
    BY <1>2 DEF vars, wire, sockets
  <2> QED
    BY <2>1, SocketReg
<1> QED
  BY <1>1, <1>2

(* The inductive invariant of the registry, on every reachable state. *)
LEMMA RegAlways == Spec => []Reg
<1>1. Reg /\ TypeOK' /\ [Next]_vars => Reg'
  BY NextReg
<1> QED
  BY InitReg, <1>1, TypeCorrect, PTL DEF Spec

(* A registered window always has its host registered and listed by it, and a   *)
(* registered host lists only windows of its own: handleClientMessage never     *)
(* takes its host_offline path, after any order of hellos, closes, hand-offs,   *)
(* sweeps, revocations and timeouts, for any number of hosts and windows.       *)
THEOREM RegistryHolds == Spec => []RegistryConsistent
<1>1. Reg => RegistryConsistent
  BY DEF Reg
<1> QED
  BY RegAlways, <1>1, PTL
-----------------------------------------------------------------------------
(***************************************************************************)
(* Replaced connections, streams and grace periods, on top of the registry.*)
(***************************************************************************)

(* Streams.  A handler that releases the sessions of the windows G, and leaves  *)
(* every other window with a session registered where it was.                   *)
LEMMA ReleaseStreams ==
  ASSUME TypeOK, StreamsConsistent, NEW G \in SUBSET WindowConns,
         session' = Released(G), streams' = StreamsWithout(G),
         \A c \in WindowConns \ G : session[c] # NoSession =>
           c \in clients' /\ RecordOf(c)' = RecordOf(c)
  PROVE  StreamsConsistent'
<1>1. \A c \in WindowConns : session'[c] = IF c \in G THEN NoSession ELSE session[c]
  BY DEF Released
<1>2. \A c \in WindowConns : session'[c] # NoSession =>
        /\ c \notin G /\ session[c] # NoSession /\ session'[c] = session[c]
        /\ c \in clients' /\ session'[c].on = RecordOf(c)'
  BY <1>1 DEF StreamsConsistent
<1>3. ASSUME NEW x, x \in streams'
      PROVE  x \in {<<session'[c].on, c>> : c \in {w \in WindowConns : session'[w] # NoSession}}
  <2>1. PICK c \in WindowConns : session[c] # NoSession /\ x = <<session[c].on, c>>
    BY <1>3 DEF StreamsConsistent, StreamsWithout, StreamOf
  <2>2. c \notin G
    BY <1>3, <2>1 DEF StreamsWithout, StreamOf
  <2> QED
    BY <1>1, <2>1, <2>2
<1>4. ASSUME NEW c \in WindowConns, session'[c] # NoSession
      PROVE  <<session'[c].on, c>> \in streams'
  <2>1. <<session[c].on, c>> \in streams
    BY <1>2, <1>4 DEF StreamsConsistent, StreamOf
  <2>2. \A w \in G : <<session[c].on, c>> # <<session[w].on, w>>
    BY <1>2, <1>4
  <2> QED
    BY <1>2, <1>4, <2>1, <2>2 DEF StreamsWithout, StreamOf
<1>5. streams' = {StreamOf(c)' : c \in {w \in WindowConns : session'[w] # NoSession}}
  BY <1>3, <1>4 DEF StreamOf
<1> QED
  BY <1>2, <1>5 DEF StreamsConsistent

(* Ending windows releases their streams and no others. *)
LEMMA DetachStreams ==
  ASSUME Reg, StreamsConsistent, NEW W, NEW H \in SUBSET Registered,
         Detach(W, H), UNCHANGED client
  PROVE  StreamsConsistent'
<1>1. PICK G \in SUBSET WindowConns : G = Gone(W, H)
  <2>1. Gone(W, H) \subseteq clients
    BY DetachEffect
  <2> QED
    BY <2>1 DEF Reg, TypeOK
<1>2. session' = Released(G) /\ streams' = StreamsWithout(G) /\ clients' = clients \ G
  BY <1>1 DEF Detach
<1>3. \A c \in WindowConns \ G : session[c] # NoSession =>
        c \in clients' /\ RecordOf(c)' = RecordOf(c)
  BY <1>2, DetachEffect DEF StreamsConsistent
<1> QED
  BY <1>2, <1>3, ReleaseStreams DEF Reg

(* The sessions, the windows and where their host is registered are untouched.  *)
LEMMA KeptStreams ==
  ASSUME StreamsConsistent, UNCHANGED <<session, streams, clients>>,
         \A c \in clients : RecordOf(c)' = RecordOf(c)
  PROVE  StreamsConsistent'
BY DEF StreamsConsistent, StreamOf

(* A connection that is lost takes its streams with it. *)
LEMMA BeginReconnectStreams ==
  ASSUME Reg, StreamsConsistent, NEW h \in Registered, BeginReconnect(h), UNCHANGED client
  PROVE  StreamsConsistent'
<1>1. PICK W \in SUBSET WindowConns : W = Windows(h)
  BY RegFacts DEF Reg, TypeOK
<1>2. /\ session' = Released(W) /\ streams' = StreamsWithout(W)
      /\ UNCHANGED <<hosts, clients>>
  BY <1>1 DEF BeginReconnect
<1>3. \A c \in WindowConns \ W : session[c] # NoSession =>
        c \in clients' /\ RecordOf(c)' = RecordOf(c)
  BY <1>2 DEF StreamsConsistent, RecordOf, HostIdOf
<1> QED
  BY <1>2, <1>3, ReleaseStreams DEF Reg

(* What the three hellos leave of the streams. *)
LEMMA HelloStreams ==
  ASSUME Reg, StreamsConsistent, NEW h \in HostConns, NEW id \in HostIds,
         NEW handoff \in BOOLEAN, NEW v2 \in BOOLEAN,
         \/ HostHelloNew(h, id, handoff, v2)
         \/ HostHelloReplace(h, id, handoff, v2)
         \/ HostHelloHandoff(h, id, handoff, v2)
  PROVE  StreamsConsistent'
<1>1. hosts' = [hosts EXCEPT ![id] = h] /\ UNCHANGED client /\ hosts \in [HostIds -> HostConns \cup {None}]
  BY DEF HostHelloNew, HostHelloReplace, HostHelloHandoff, Reg, TypeOK
<1>2. \A c \in clients : /\ HostIdOf(c)' = HostIdOf(c) /\ HostIdOf(c) \in HostIds
                         /\ RecordOf(c) # None
                         /\ HostIdOf(c) # id => RecordOf(c)' = RecordOf(c)
                         /\ HostIdOf(c) = id => RecordOf(c) = hosts[id] /\ RecordOf(c)' = h
  BY <1>1, RegFacts DEF HostIdOf, RecordOf, Reg, RegistryConsistent
<1>3. CASE HostHelloNew(h, id, handoff, v2)
  <2>1. UNCHANGED <<session, streams, clients>> /\ hosts[id] = None
    BY <1>3 DEF HostHelloNew
  <2>2. \A c \in clients : RecordOf(c)' = RecordOf(c)
    BY <1>2, <2>1
  <2> QED
    BY <2>1, <2>2, KeptStreams
<1>4. ASSUME hosts[id] # None
      PROVE  /\ hosts[id] \in Registered
             /\ Windows(hosts[id]) = {c \in clients : HostIdOf(c) = id}
  <2>1. hosts[id] \in Registered /\ host[hosts[id]].id = id
    BY <1>4, RegFacts
  <2>2. Windows(hosts[id]) = {c \in clients : RecordOf(c) = hosts[id]}
    BY <2>1, RegFacts
  <2>3. \A c \in clients : RecordOf(c) = hosts[id] => HostIdOf(c) = id
    BY <1>2, <1>4, <2>1, <2>2 DEF Reg, RegistryConsistent
  <2> QED
    BY <1>2, <2>1, <2>2, <2>3
<1>5. CASE HostHelloReplace(h, id, handoff, v2)
  <2>1. PICK G \in SUBSET WindowConns : G = Windows(hosts[id]) \cap clients
    BY DEF Reg, TypeOK
  <2>2. /\ session' = Released(G) /\ streams' = StreamsWithout(G)
        /\ clients' = clients \ G /\ hosts[id] # None
    BY <1>5, <2>1 DEF HostHelloReplace
  <2>3. \A c \in WindowConns \ G : session[c] # NoSession =>
          c \in clients' /\ RecordOf(c)' = RecordOf(c)
    BY <1>2, <1>4, <2>1, <2>2 DEF StreamsConsistent
  <2> QED
    BY <2>2, <2>3, ReleaseStreams DEF Reg
<1>6. CASE HostHelloHandoff(h, id, handoff, v2)
  <2>1. hosts[id] # None /\ UNCHANGED clients
    BY <1>6 DEF HostHelloHandoff
  <2>2. PICK W \in SUBSET WindowConns : W = Windows(hosts[id])
    BY <1>4, <2>1 DEF Reg, TypeOK
  <2>3. W \subseteq clients /\ \A c \in clients : c \in W <=> HostIdOf(c) = id
    BY <1>4, <2>1, <2>2
  <2>4. CASE hostSock[h] = "open"
    <3>1. PICK f \in FirstIndices(W, v2) :
            /\ session' = StartedSessions(h, f)
            /\ streams' = StreamsWithout(W) \cup ({h} \X W)
      BY <1>6, <2>2, <2>4 DEF HostHelloHandoff
    <3>2. DOMAIN f = W
      BY DEF FirstIndices
    <3>3. \A c \in WindowConns :
            /\ c \in W => session'[c] = [on |-> h, index |-> f[c]]
            /\ c \notin W => session'[c] = session[c]
      BY <3>1, <3>2 DEF StartedSessions
    <3>4. \A c \in W : session'[c] # NoSession /\ session'[c].on = h /\ RecordOf(c)' = h
      <4>1. h # None
        BY NoneAssumption
      <4>2. \A c \in W : c \in clients /\ RecordOf(c)' = h
        BY <1>2, <2>3
      <4>3. ASSUME NEW c \in W PROVE session'[c].on = h
        <5>1. c \in WindowConns /\ c \in DOMAIN f
          BY <2>2, <3>2
        <5>2. session' = [w \in WindowConns |-> IF w \in DOMAIN f
                            THEN [on |-> h, index |-> f[w]] ELSE session[w]]
          BY <3>1 DEF StartedSessions
        <5>3. session'[c] = [on |-> h, index |-> f[c]]
          BY <5>1, <5>2
        <5>4. [on |-> h, index |-> f[c]].on = h
          OBVIOUS
        <5> QED
          BY <5>3, <5>4
      <4>4. NoSession.on = None
        BY DEF NoSession
      <4> QED
        BY <4>1, <4>2, <4>3, <4>4
    <3>5. \A c \in WindowConns : session'[c] # NoSession =>
            c \in clients' /\ session'[c].on = RecordOf(c)'
      BY <1>2, <2>1, <2>3, <3>3, <3>4 DEF StreamsConsistent
    <3>6. ASSUME NEW x, x \in streams'
          PROVE  \E c \in WindowConns : session'[c] # NoSession /\ x = <<session'[c].on, c>>
      <4>1. CASE x \in {h} \X W
        <5>1. PICK c \in W : x = <<h, c>>
          BY <4>1
        <5> QED
          BY <3>4, <5>1
      <4>2. CASE x \notin {h} \X W
        <5>1. x \in streams /\ x \notin {StreamOf(w) : w \in W}
          BY <3>1, <3>6, <4>2 DEF StreamsWithout
        <5>2. PICK c \in WindowConns : session[c] # NoSession /\ x = StreamOf(c)
          BY <5>1 DEF StreamsConsistent
        <5> QED
          BY <3>3, <5>1, <5>2 DEF StreamOf
      <4> QED
        BY <4>1, <4>2
    <3>7. ASSUME NEW c \in WindowConns, session'[c] # NoSession
          PROVE  <<session'[c].on, c>> \in streams'
      <4>1. CASE c \in W
        BY <3>1, <3>4, <4>1
      <4>2. CASE c \notin W
        <5>1. <<session[c].on, c>> \in streams
          BY <3>3, <3>7, <4>2 DEF StreamsConsistent, StreamOf
        <5> QED
          BY <3>1, <3>3, <4>2, <5>1 DEF StreamsWithout, StreamOf
      <4> QED
        BY <4>1, <4>2
    <3>8. streams' = {StreamOf(c)' : c \in {w \in WindowConns : session'[w] # NoSession}}
      BY <3>6, <3>7 DEF StreamOf
    <3> QED
      BY <3>5, <3>8 DEF StreamsConsistent
  <2>5. CASE hostSock[h] # "open"
    <3>1. session' = Released(W) /\ streams' = StreamsWithout(W)
      BY <1>6, <2>2, <2>5 DEF HostHelloHandoff
    <3>2. \A c \in WindowConns \ W : session[c] # NoSession =>
            c \in clients' /\ RecordOf(c)' = RecordOf(c)
      BY <1>2, <2>1, <2>3 DEF StreamsConsistent
    <3> QED
      BY <3>1, <3>2, ReleaseStreams DEF Reg
  <2> QED
    BY <2>4, <2>5
<1> QED
  BY <1>3, <1>5, <1>6

(* A window that is let in gets a stream and an index nobody has. *)
LEMMA WindowHelloStreams ==
  ASSUME Reg, StreamsConsistent, NEW c \in WindowConns, NEW d \in Devices,
         NEW handoff \in BOOLEAN, WindowHello(c, d, handoff)
  PROVE  StreamsConsistent'
<1>1. HostOf[d] \in HostIds
  BY DeviceAssumption
<1>2. PICK h \in HostConns : h = hosts[HostOf[d]]
  BY <1>1 DEF WindowHello, Reg, TypeOK
<1>3. PICK i : session' = [session EXCEPT ![c] = [on |-> h, index |-> i]]
  BY <1>2 DEF WindowHello
<1>4. /\ ~Admitted(c) /\ h # None /\ UNCHANGED hosts
      /\ client' = [client EXCEPT ![c] = [device |-> d, handoff |-> handoff]]
      /\ clients' = clients \cup {c} /\ streams' = streams \cup {<<h, c>>}
  BY <1>2, NoneAssumption DEF WindowHello, HelloExpected
<1>5. c \notin clients /\ session[c] = NoSession
  BY <1>4 DEF Reg, RegistryConsistent, StreamsConsistent
<1>6. RecordOf(c)' = h /\ \A w \in clients : RecordOf(w)' = RecordOf(w)
  BY <1>2, <1>4, <1>5 DEF RecordOf, HostIdOf, Reg, TypeOK
<1>7. session'[c].on = h /\ session'[c] # NoSession
      /\ \A w \in WindowConns \ {c} : session'[w] = session[w]
  <2>1. session'[c] = [on |-> h, index |-> i] /\ \A w \in WindowConns \ {c} : session'[w] = session[w]
    BY <1>3 DEF Reg, TypeOK
  <2>2. [on |-> h, index |-> i].on = h /\ NoSession.on = None
    BY DEF NoSession
  <2> QED
    BY <1>4, <2>1, <2>2
<1>8. \A w \in WindowConns : session'[w] # NoSession =>
        w \in clients' /\ session'[w].on = RecordOf(w)'
  BY <1>4, <1>6, <1>7 DEF StreamsConsistent
<1>9. ASSUME NEW x, x \in streams'
      PROVE  \E w \in WindowConns : session'[w] # NoSession /\ x = <<session'[w].on, w>>
  <2>1. CASE x = <<h, c>>
    BY <1>7, <2>1
  <2>2. CASE x # <<h, c>>
    <3>1. PICK w \in WindowConns : session[w] # NoSession /\ x = <<session[w].on, w>>
      BY <1>4, <1>9, <2>2 DEF StreamsConsistent, StreamOf
    <3> QED
      BY <1>5, <1>7, <3>1
  <2> QED
    BY <2>1, <2>2
<1>10. ASSUME NEW w \in WindowConns, session'[w] # NoSession
       PROVE  <<session'[w].on, w>> \in streams'
  <2>1. CASE w = c
    BY <1>4, <1>7, <2>1
  <2>2. CASE w # c
    BY <1>4, <1>7, <1>10, <2>2 DEF StreamsConsistent, StreamOf
  <2> QED
    BY <2>1, <2>2
<1>11. streams' = {StreamOf(w)' : w \in {v \in WindowConns : session'[v] # NoSession}}
  BY <1>9, <1>10 DEF StreamOf
<1> QED
  BY <1>8, <1>11 DEF StreamsConsistent

(* Each step of a connection keeps streams and sessions in agreement. *)
LEMMA HostStepStreams ==
  ASSUME Reg, StreamsConsistent, NEW h \in HostConns, HostStep(h)
  PROVE  StreamsConsistent'
<1>0. ASSUME UNCHANGED <<hosts, client, session, streams, clients>>
      PROVE  StreamsConsistent'
  BY <1>0, KeptStreams DEF RecordOf, HostIdOf
<1>1. CASE HostUpgrade(h) \/ HostRefused(h) \/ HostClosing(h)
  BY <1>0, <1>1 DEF HostUpgrade, HostRefused, HostClosing, registry
<1>2. CASE \E id \in HostIds, handoff, v2 \in BOOLEAN :
             \/ HostHelloNew(h, id, handoff, v2)
             \/ HostHelloReplace(h, id, handoff, v2)
             \/ HostHelloHandoff(h, id, handoff, v2)
  BY <1>2, HelloStreams
<1>3. ASSUME NEW shutdown \in BOOLEAN, HostClosed(h, shutdown)
      PROVE  StreamsConsistent'
  <2>1. CASE ~(Current(h) /\ h \in wired)
    BY <1>0, <1>3, <2>1 DEF HostClosed, registry
  <2>2. CASE (Current(h) /\ h \in wired) /\ (shutdown \/ ~CanHandoff(h))
    <3>1. Detach({}, {h}) /\ UNCHANGED client /\ {h} \in SUBSET Registered
      BY <1>3, <2>2 DEF HostClosed, Registered
    <3> QED
      BY <3>1, DetachStreams
  <2>3. CASE (Current(h) /\ h \in wired) /\ ~(shutdown \/ ~CanHandoff(h))
    <3>1. BeginReconnect(h) /\ UNCHANGED client /\ h \in Registered
      BY <1>3, <2>3 DEF HostClosed, Registered
    <3> QED
      BY <3>1, BeginReconnectStreams
  <2> QED
    BY <2>1, <2>2, <2>3
<1>4. CASE GraceTimeout(h)
  <2>1. CASE Current(h) /\ h \in reconnecting
    <3>1. Detach({}, {h}) /\ UNCHANGED client /\ {h} \in SUBSET Registered
      BY <1>4, <2>1 DEF GraceTimeout, DetachAndClose, Registered
    <3> QED
      BY <3>1, DetachStreams
  <2>2. CASE ~(Current(h) /\ h \in reconnecting)
    BY <1>0, <1>4, <2>2 DEF GraceTimeout
  <2> QED
    BY <2>1, <2>2
<1>5. CASE HostShutdown(h)
  <2>1. Detach({}, {h}) /\ UNCHANGED client /\ {h} \in SUBSET Registered
    BY <1>5 DEF HostShutdown, DetachAndClose, Registered
  <2> QED
    BY <2>1, DetachStreams
<1>6. CASE \E c \in WindowConns : SessionExit(h, c)
  BY <1>6, DetachStreams DEF SessionExit, DetachAndClose
<1> QED
  BY <1>1, <1>2, <1>3, <1>4, <1>5, <1>6 DEF HostStep

(* So does each step of a window. *)
LEMMA WindowStepStreams ==
  ASSUME Reg, StreamsConsistent, NEW c \in WindowConns, WindowStep(c)
  PROVE  StreamsConsistent'
<1>1. CASE WindowUpgrade(c) \/ WindowRefused(c) \/ WindowClosing(c)
  BY <1>1, KeptStreams
  DEF WindowUpgrade, WindowRefused, WindowClosing, registry, RecordOf, HostIdOf
<1>2. CASE WindowClosed(c) \/ SlowWindow(c)
  BY <1>2, DetachStreams DEF WindowClosed, SlowWindow, DetachAndClose
<1>3. CASE \E d \in Devices, handoff \in BOOLEAN : WindowHello(c, d, handoff)
  BY <1>3, WindowHelloStreams
<1>4. CASE SendFailed(c)
  <2>1. PICK h \in Registered : h = RecordOf(c)
    BY <1>4, RegFacts DEF SendFailed
  <2>2. CASE CanHandoff(h)
    BY <1>4, <2>1, <2>2, BeginReconnectStreams DEF SendFailed
  <2>3. CASE ~CanHandoff(h)
    <3>1. {h} \in SUBSET Registered /\ Detach({}, {h}) /\ UNCHANGED client
      BY <1>4, <2>1, <2>3 DEF SendFailed, DetachAndClose
    <3> QED
      BY <3>1, DetachStreams
  <2> QED
    BY <2>2, <2>3
<1> QED
  BY <1>1, <1>2, <1>3, <1>4 DEF WindowStep

(* Every step keeps streams and sessions in agreement. *)
LEMMA NextStreams == Reg /\ StreamsConsistent /\ [Next]_vars => StreamsConsistent'
<1> SUFFICES ASSUME Reg, StreamsConsistent, [Next]_vars PROVE StreamsConsistent'
  OBVIOUS
<1>1. CASE OperatorStep
  <2>1. ASSUME NEW d \in Devices, RevokeDevice(d) PROVE StreamsConsistent'
    BY <2>1, DetachStreams DEF RevokeDevice, DetachAndClose
  <2>2. ASSUME NEW W \in SUBSET clients, NEW H \in SUBSET Registered, Sweep(W, H)
        PROVE  StreamsConsistent'
    BY <2>2, DetachStreams DEF Sweep, DetachAndClose
  <2>3. CASE Close
    BY <2>3, DetachStreams DEF Close, DetachAndClose
  <2> QED
    BY <1>1, <2>1, <2>2, <2>3 DEF OperatorStep
<1>2. CASE Next
  BY <1>1, <1>2, HostStepStreams, WindowStepStreams DEF Next
<1>3. CASE UNCHANGED vars
  BY <1>3, KeptStreams DEF vars, registry, RecordOf, HostIdOf
<1> QED
  BY <1>2, <1>3

(* There are no streams at first. *)
LEMMA InitStreams == Init => StreamsConsistent
<1> SUFFICES ASSUME Init PROVE StreamsConsistent
  OBVIOUS
<1>1. streams = {} /\ \A c \in WindowConns : session[c] = NoSession
  BY DEF Init
<1> QED
  BY <1>1 DEF StreamsConsistent

(* relay.streams holds exactly the sessions of registered windows, each on the  *)
(* connection its workstation is registered with: no message of a replaced      *)
(* connection finds a live stream, and no stream outlives its window, for any   *)
(* number of workstations, connections and windows.                             *)
THEOREM StreamsHold == Spec => []StreamsConsistent
<1>1. Reg /\ StreamsConsistent /\ [Next]_vars => StreamsConsistent'
  BY NextStreams
<1> QED
  BY InitStreams, <1>1, RegAlways, PTL DEF Spec
-----------------------------------------------------------------------------
(* What happens on one host connection stays there. *)

(* Detaching leaves a window alone that is not asked for and whose record stays. *)
LEMMA DetachUndisturbs ==
  ASSUME Reg, NEW W, NEW H \in SUBSET Registered, Detach(W, H), UNCHANGED client,
         NEW c \in clients, c \notin W, RecordOf(c) \notin Dropped(W, H),
         windowSock'[c] = windowSock[c]
  PROVE  Undisturbed(c)
<1>1. c \in WindowConns
  BY DEF Reg, TypeOK
<1>2. c \notin Gone(W, H)
  BY DetachEffect
<1>3. c \in clients' /\ session'[c] = session[c]
  BY <1>1, <1>2 DEF Detach, Released
<1>4. RecordOf(c)' = RecordOf(c)
  BY <1>3, DetachEffect
<1>5. RecordOf(c) \in timers <=> RecordOf(c)' \in timers'
  BY <1>4 DEF Detach
<1> QED
  BY <1>3, <1>4, <1>5 DEF Undisturbed

(* So does the end of the records and windows of another connection. *)
LEMMA OthersEndUndisturbs ==
  ASSUME Reg, NEW W \in SUBSET clients, NEW H \in SUBSET Registered, DetachAndClose(W, H),
         UNCHANGED client, NEW c \in clients,
         RecordOf(c) \notin H, \A w \in W : RecordOf(w) # RecordOf(c)
  PROVE  Undisturbed(c)
<1>1. c \in WindowConns /\ c \notin W
  BY DEF Reg, TypeOK
<1>2. RecordOf(c) \notin Dropped(W, H)
  BY DEF Dropped, LeavingFrom, Leaving
<1>3. c \notin Gone(W, H)
  BY <1>1, <1>2, DetachEffect DEF DetachAndClose
<1>4. windowSock'[c] = windowSock[c]
  BY <1>1, <1>3 DEF DetachAndClose, WindowSocks
<1> QED
  BY <1>1, <1>2, <1>4, DetachUndisturbs DEF DetachAndClose

(* The steps of a host connection, for a window of another one's record. *)
LEMMA OthersStepUndisturbs ==
  ASSUME Reg, StreamsConsistent, NEW g \in HostConns, NEW c \in clients, HostStep(g),
         RecordOf(c) # g, hosts'[HostIdOf(c)] # g
  PROVE  Undisturbed(c)
<1> DEFINE k == RecordOf(c)
<1>1. c \in WindowConns /\ HostIdOf(c) \in HostIds /\ k \in Registered /\ hosts[HostIdOf(c)] = k
  BY RegFacts DEF Reg, TypeOK, RecordOf
<1>2. ASSUME UNCHANGED <<hosts, clients, client, session, timers, windowSock>>
      PROVE  Undisturbed(c)
  BY <1>2 DEF Undisturbed, RecordOf, HostIdOf
<1>3. CASE HostUpgrade(g) \/ HostRefused(g) \/ HostClosing(g)
  BY <1>2, <1>3 DEF HostUpgrade, HostRefused, HostClosing, registry, records
<1>4. ASSUME NEW id \in HostIds, NEW handoff \in BOOLEAN, NEW v2 \in BOOLEAN,
             \/ HostHelloNew(g, id, handoff, v2)
             \/ HostHelloReplace(g, id, handoff, v2)
             \/ HostHelloHandoff(g, id, handoff, v2)
      PROVE  Undisturbed(c)
  <2>1. hosts' = [hosts EXCEPT ![id] = g] /\ client' = client
    BY <1>4 DEF HostHelloNew, HostHelloReplace, HostHelloHandoff
  <2>2. HostIdOf(c) # id /\ RecordOf(c)' = k
    BY <1>1, <2>1 DEF Reg, TypeOK, RecordOf, HostIdOf
  <2>3. CASE HostHelloNew(g, id, handoff, v2)
    BY <2>2, <2>3 DEF HostHelloNew, sockets, Undisturbed
  <2>4. CASE HostHelloReplace(g, id, handoff, v2) \/ HostHelloHandoff(g, id, handoff, v2)
    <3>1. hosts[id] \in Registered /\ hosts[id] # k
      <4>1. hosts[id] # None
        BY <2>4 DEF HostHelloReplace, HostHelloHandoff
      <4>2. host[hosts[id]].id = id /\ host[k].id = HostIdOf(c)
        BY <1>1, <4>1, RegFacts, NoneAssumption DEF Registered
      <4> QED
        BY <2>2, <4>1, <4>2, RegFacts
    <3>2. c \notin Windows(hosts[id])
      BY <3>1, RegFacts
    <3>3. clients' = clients \/ clients' = clients \ (Windows(hosts[id]) \cap clients)
      BY <2>4 DEF HostHelloReplace, HostHelloHandoff
    <3>4. c \in clients' /\ timers' = timers \ {hosts[id]}
      BY <2>4, <3>2, <3>3 DEF HostHelloReplace, HostHelloHandoff
    <3>5. session'[c] = session[c]
      <4>1. CASE HostHelloReplace(g, id, handoff, v2)
        BY <1>1, <3>2, <4>1 DEF HostHelloReplace, Released
      <4>2. CASE HostHelloHandoff(g, id, handoff, v2)
        <5>1. PICK f \in FirstIndices(Windows(hosts[id]), v2) :
                session' = IF hostSock[g] = "open" THEN StartedSessions(g, f)
                           ELSE Released(Windows(hosts[id]))
          BY <4>2 DEF HostHelloHandoff
        <5>2. DOMAIN f = Windows(hosts[id])
          BY <5>1 DEF FirstIndices
        <5> QED
          BY <1>1, <3>2, <5>1, <5>2 DEF StartedSessions, Released
      <4> QED
        BY <2>4, <4>1, <4>2
    <3>6. windowSock'[c] = windowSock[c]
      BY <1>1, <2>4, <3>2 DEF HostHelloReplace, HostHelloHandoff, WindowSocks
    <3> QED
      BY <2>2, <3>1, <3>4, <3>5, <3>6 DEF Undisturbed
  <2> QED
    BY <1>4, <2>3, <2>4
<1>5. ASSUME NEW shutdown \in BOOLEAN, HostClosed(g, shutdown)
      PROVE  Undisturbed(c)
  <2>1. CASE ~(Current(g) /\ g \in wired)
    BY <1>2, <1>5, <2>1 DEF HostClosed, registry, records
  <2>2. CASE Current(g) /\ g \in wired /\ (shutdown \/ ~CanHandoff(g))
    <3>1. g \in Registered
      BY <2>2 DEF Registered
    <3>2. Detach({}, {g}) /\ windowSock' = WindowSocks(Gone({}, {g})) /\ client' = client
      BY <1>5, <2>2 DEF HostClosed
    <3>3. Dropped({}, {g}) = {g}
      BY DEF Dropped, LeavingFrom, Leaving
    <3>4. c \notin Gone({}, {g})
      <4>1. {g} \in SUBSET Registered
        BY <3>1
      <4>2. c \in Gone({}, {g}) <=> c \in clients /\ (c \in {} \/ RecordOf(c) \in Dropped({}, {g}))
        BY <3>2, <4>1, DetachEffect
      <4> QED
        BY <3>3, <4>2
    <3> QED
      BY <1>1, <3>1, <3>2, <3>3, <3>4, DetachUndisturbs DEF WindowSocks
  <2>3. CASE Current(g) /\ g \in wired /\ ~(shutdown \/ ~CanHandoff(g))
    <3>1. /\ BeginReconnect(g) /\ windowSock' = windowSock /\ client' = client
      BY <1>5, <2>3 DEF HostClosed
    <3>2. g \in Registered
      BY <2>3 DEF Registered
    <3>3. c \notin Windows(g)
      BY <3>2, RegFacts
    <3> QED
      BY <1>1, <3>1, <3>3
         DEF BeginReconnect, Released, ArmTimer, Undisturbed, RecordOf, HostIdOf
  <2> QED
    BY <2>1, <2>2, <2>3
<1>6. CASE GraceTimeout(g)
  <2>1. CASE Current(g) /\ g \in reconnecting
    BY <1>6, <2>1, OthersEndUndisturbs DEF GraceTimeout, Registered
  <2>2. CASE ~(Current(g) /\ g \in reconnecting)
    <3>1. timers' = timers \ {g} /\ UNCHANGED <<hosts, clients, client, session, windowSock>>
      BY <1>6, <2>2 DEF GraceTimeout, sockets
    <3> QED
      BY <3>1 DEF Undisturbed, RecordOf, HostIdOf
  <2> QED
    BY <2>1, <2>2
<1>7. CASE HostShutdown(g)
  BY <1>7, OthersEndUndisturbs DEF HostShutdown, Registered
<1>8. ASSUME NEW w \in WindowConns, SessionExit(g, w)
      PROVE  Undisturbed(c)
  <2>1. PICK x \in WindowConns : session[x] # NoSession /\ <<g, w>> = <<session[x].on, x>>
    BY <1>8 DEF SessionExit, StreamsConsistent, StreamOf
  <2>2. w \in clients /\ RecordOf(w) = g
    BY <2>1 DEF StreamsConsistent
  <2> QED
    BY <1>8, <2>2, OthersEndUndisturbs DEF SessionExit
<1> QED
  BY <1>3, <1>4, <1>5, <1>6, <1>7, <1>8 DEF HostStep

(* The close event of a socket that its record has let go of. *)
LEMMA LateCloseUndisturbs ==
  ASSUME Reg, [Next]_vars, NEW g \in HostConns, NEW c \in clients,
         RecordOf(c) = g, g \notin wired, hostSock[g] # "closed", hostSock'[g] = "closed"
  PROVE  Undisturbed(c)
<1>1. \A D : HostSocks(D)[g] # "closed"
  BY DEF HostSocks, Closing
<1>2. \E shutdown \in BOOLEAN : HostClosed(g, shutdown)
  <2>1. ASSUME NEW h \in HostConns, NEW shutdown \in BOOLEAN, HostClosed(h, shutdown), h # g
        PROVE  FALSE
    <3>1. hostSock' = [hostSock EXCEPT ![h] = "closed"]
      BY <2>1 DEF HostClosed
    <3> QED
      BY <2>1, <3>1 DEF Reg, TypeOK
  <2>2. ASSUME NEW W, NEW H, DetachAndClose(W, H)
        PROVE  FALSE
    BY <1>1, <2>2 DEF DetachAndClose
  <2>3. ASSUME hostSock' = hostSock
        PROVE  FALSE
    BY <2>3
  <2>4. ASSUME NEW h \in HostConns, HostStep(h),
               \A shutdown \in BOOLEAN : ~HostClosed(h, shutdown)
        PROVE  FALSE
    <3>1. CASE HostUpgrade(h) \/ HostRefused(h) \/ HostClosing(h)
      BY <3>1 DEF HostUpgrade, HostRefused, HostClosing, Reg, TypeOK
    <3>2. ASSUME NEW id \in HostIds, NEW handoff \in BOOLEAN, NEW v2 \in BOOLEAN,
                 \/ HostHelloNew(h, id, handoff, v2)
                 \/ HostHelloReplace(h, id, handoff, v2)
                 \/ HostHelloHandoff(h, id, handoff, v2)
          PROVE  FALSE
      BY <1>1, <3>2 DEF HostHelloNew, HostHelloReplace, HostHelloHandoff, sockets
    <3>3. CASE GraceTimeout(h)
      BY <2>2, <2>3, <3>3 DEF GraceTimeout, sockets
    <3>4. CASE HostShutdown(h) \/ \E w \in WindowConns : SessionExit(h, w)
      BY <2>2, <3>4 DEF HostShutdown, SessionExit
    <3> QED
      BY <2>4, <3>1, <3>2, <3>3, <3>4 DEF HostStep
  <2>5. ASSUME NEW w \in WindowConns, WindowStep(w)
        PROVE  FALSE
    <3>1. CASE WindowUpgrade(w) \/ WindowRefused(w) \/ WindowClosing(w)
      BY <2>3, <3>1 DEF WindowUpgrade, WindowRefused, WindowClosing
    <3>2. CASE WindowClosed(w)
      BY <1>1, <3>2 DEF WindowClosed
    <3>3. CASE SlowWindow(w)
      BY <2>2, <3>3 DEF SlowWindow
    <3>4. CASE \E d \in Devices, handoff \in BOOLEAN : WindowHello(w, d, handoff)
      BY <2>3, <3>4 DEF WindowHello, sockets
    <3>5. CASE SendFailed(w)
      BY <2>2, <2>3, <3>5 DEF SendFailed, sockets
    <3> QED
      BY <2>5, <3>1, <3>2, <3>3, <3>4, <3>5 DEF WindowStep
  <2>6. CASE OperatorStep
    BY <2>2, <2>6 DEF OperatorStep, RevokeDevice, Sweep, Close
  <2>7. CASE UNCHANGED vars
    BY <2>3, <2>7 DEF vars, sockets
  <2> QED
    BY <2>1, <2>4, <2>5, <2>6, <2>7 DEF Next
<1>3. UNCHANGED <<registry, windowSock, client>>
  BY <1>2 DEF HostClosed
<1> QED
  BY <1>3 DEF registry, records, Undisturbed, RecordOf, HostIdOf

(* The close, the messages and the timer of one connection, however late, take  *)
(* nothing from the windows of another one's record, with which a hand-off made  *)
(* it share a Set; nor does the close of a socket that a failed send let go of.  *)
THEOREM OthersEventsStayApart == Spec => EventsStayApart
<1>1. Reg /\ StreamsConsistent /\ [Next]_vars =>
        [\A g \in HostConns, c \in WindowConns :
           c \in clients /\ OthersEvent(g, c) => Undisturbed(c)]_vars
  BY OthersStepUndisturbs, LateCloseUndisturbs DEF OthersEvent
<1> QED
  BY <1>1, RegAlways, StreamsHold, PTL DEF Spec, EventsStayApart
-----------------------------------------------------------------------------
(* The grace period.  A host that has its timer set is registered, and so knows  *)
(* its windows; they are those registered with it.                              *)
LEMMA WaitingFacts ==
  ASSUME Reg, GracePeriod, NEW h \in HostConns, h \in timers
  PROVE  /\ h \in Registered /\ h \in reconnecting /\ h \notin wired
         /\ host[h].handoff /\ Windows(h) # {}
         /\ \A c \in Windows(h) : c \in clients /\ client[c].handoff /\ session[c] = NoSession
         /\ Windows(h) = {c \in clients : RecordOf(c) = h}
BY RegFacts DEF GracePeriod, CanHandoff, Registered

(* What has to be shown of a step: the records that wait afterwards waited       *)
(* before, apart from at most one that began to, and kept what they had.         *)
LEMMA WaitingKept ==
  ASSUME Reg, GracePeriod, NEW h \in HostConns, h \in timers,
         host'[h] = host[h], h \notin wired',
         Windows(h)' # {},
         \A c \in Windows(h)' :
           /\ c \in Windows(h) /\ c \in clients'
           /\ client'[c] = client[c] /\ session'[c] = NoSession
  PROVE  /\ h \notin wired' /\ CanHandoff(h)'
         /\ \A c \in Windows(h)' : session'[c] = NoSession
BY WaitingFacts DEF CanHandoff

(* A step that touches neither registry nor sessions keeps waiting records and timers paired. *)
LEMMA KeptGrace ==
  ASSUME GracePeriod,
         UNCHANGED <<hosts, clients, host, wired, reconnecting, timers, members, client, session>>
  PROVE  GracePeriod'
BY DEF GracePeriod, CanHandoff, Current, Known, Windows

(* Ending windows and records leaves no waiting record without its timer. *)
LEMMA DetachGrace ==
  ASSUME Reg, GracePeriod, NEW W, NEW H \in SUBSET Registered,
         Detach(W, H), UNCHANGED client
  PROVE  GracePeriod'
<1>1. PICK D \in SUBSET Registered : D = Dropped(W, H)
  BY DetachEffect
<1>2. /\ timers' = timers \ D /\ wired' = wired \ D
      /\ UNCHANGED <<host, reconnecting>>
      /\ clients' = clients \ Gone(W, H) /\ session' = Released(Gone(W, H))
  BY <1>1 DEF Detach
<1>3. /\ Registered' = Registered \ D
      /\ \A c : c \in Gone(W, H) <=> c \in clients /\ (c \in W \/ RecordOf(c) \in D)
      /\ \A h \in Registered' : Windows(h)' = Windows(h) \ W
  BY <1>1, DetachEffect
<1>4. ASSUME NEW h \in HostConns
      PROVE  h \in timers' <=> Current(h)' /\ h \in reconnecting'
  <2>1. h \in Registered <=> Current(h)
    BY DEF Registered
  <2>2. h \in Registered' <=> Current(h)'
    BY DEF Registered
  <2> QED
    BY <1>2, <1>3, <2>1, <2>2 DEF GracePeriod
<1>5. ASSUME NEW h \in HostConns, h \in timers'
      PROVE  /\ h \notin wired' /\ CanHandoff(h)'
             /\ \A c \in Windows(h)' : session'[c] = NoSession
  <2>1. h \in timers /\ h \notin D /\ h \in Registered /\ h \in Registered' /\ h \in reconnecting
    BY <1>2, <1>3, <1>5, WaitingFacts
  <2>2. Windows(h)' = Windows(h) \ W
    BY <1>3, <2>1
  <2>3. \A c \in Windows(h)' : /\ c \in Windows(h) /\ c \in clients'
                               /\ session'[c] = NoSession
    <3>1. \A c \in Windows(h) \ W : c \in clients /\ RecordOf(c) = h /\ session[c] = NoSession
      BY <2>1, WaitingFacts
    <3>2. \A c \in Windows(h) \ W : c \notin Gone(W, H)
      BY <1>3, <2>1, <3>1
    <3>3. clients \subseteq WindowConns
      BY DEF Reg, TypeOK
    <3> QED
      BY <1>2, <2>2, <3>1, <3>2, <3>3 DEF Released
  <2>4. Windows(h)' # {}
    <3>1. \/ LeavingFrom(W, h) = {}
          \/ ~(Windows(h) \subseteq LeavingFrom(W, h))
      BY <1>1, <2>1 DEF Dropped
    <3>2. LeavingFrom(W, h) = Windows(h) \cap W
      BY <2>1, WaitingFacts DEF LeavingFrom, Leaving
    <3> QED
      BY <2>1, <2>2, <3>1, <3>2, WaitingFacts
  <2>5. h \notin wired' /\ host'[h] = host[h] /\ client' = client
    BY <1>2, <2>1, WaitingFacts
  <2>6. \A c \in Windows(h)' :
          /\ c \in Windows(h) /\ c \in clients'
          /\ client'[c] = client[c] /\ session'[c] = NoSession
    BY <2>3, <2>5
  <2> QED
    BY <2>1, <2>4, <2>5, <2>6, WaitingKept
<1> QED
  BY <1>4, <1>5 DEF GracePeriod

(* A record begins to wait with its timer set. *)
LEMMA BeginReconnectGrace ==
  ASSUME Reg, GracePeriod, NEW h \in Registered, CanHandoff(h),
         BeginReconnect(h), UNCHANGED client
  PROVE  GracePeriod'
<1>1. /\ UNCHANGED <<hosts, clients, host, members>>
      /\ wired' = wired \ {h} /\ reconnecting' = reconnecting \cup {h}
      /\ timers' = timers \cup {h} /\ session' = Released(Windows(h))
  BY DEF BeginReconnect, ArmTimer
<1>2. \A g \in HostConns : /\ Current(g)' <=> Current(g)
                           /\ CanHandoff(g)' <=> CanHandoff(g)
                           /\ Windows(g)' = Windows(g)
  BY <1>1 DEF Current, Known, CanHandoff, Windows
<1>3. h \in HostConns /\ Current(h)
  BY DEF Registered
<1>4. \A c \in WindowConns : /\ c \in Windows(h) => session'[c] = NoSession
                             /\ session[c] = NoSession => session'[c] = NoSession
  BY <1>1 DEF Released
<1>5. \A c \in Windows(h) : c \in WindowConns
  BY DEF CanHandoff, Reg, TypeOK
<1>6. ASSUME NEW g \in HostConns, g \in timers'
      PROVE  /\ g \notin wired' /\ CanHandoff(g)'
             /\ \A c \in Windows(g)' : session'[c] = NoSession
  <2>1. CASE g = h
    BY <1>1, <1>2, <1>4, <1>5, <2>1
  <2>2. CASE g # h
    <3>1. g \in timers /\ \A c \in Windows(g) : c \in WindowConns /\ session[c] = NoSession
      BY <1>1, <1>6, <2>2, WaitingFacts DEF Reg, TypeOK
    <3> QED
      BY <1>1, <1>2, <1>4, <3>1 DEF GracePeriod
  <2> QED
    BY <2>1, <2>2
<1>7. \A g \in HostConns : g \in timers' <=> Current(g)' /\ g \in reconnecting'
  BY <1>1, <1>2, <1>3 DEF GracePeriod
<1> QED
  BY <1>6, <1>7 DEF GracePeriod

(* A hello of h for the workstation id: the record that was registered for it    *)
(* loses its timer, and every other waiting host keeps its windows.              *)
LEMMA HelloGrace ==
  ASSUME Reg, GracePeriod, NEW h \in HostConns, NEW id \in HostIds,
         ~Known(h), hosts' = [hosts EXCEPT ![id] = h],
         \E handoff, v2 \in BOOLEAN, set \in HostConns :
           host' = [host EXCEPT ![h] = NewRecord(id, handoff, v2, set)],
         timers' = timers \ {hosts[id]}, UNCHANGED <<reconnecting, client>>,
         wired' \subseteq wired \cup {h},
         \A g \in timers \ {hosts[id]} :
           /\ Windows(g)' = Windows(g) /\ Windows(g) \subseteq clients'
           /\ \A c \in Windows(g) : session'[c] = NoSession
  PROVE  GracePeriod'
<1>1. h \notin timers /\ h \notin reconnecting
  BY DEF Reg, RecordsSound
<1>2. host'[h].id = id /\ \A g \in HostConns \ {h} : host'[g] = host[g]
  BY DEF NewRecord, Reg, TypeOK
<1>3. \A g \in HostConns \ {h} : Current(g)' <=> Current(g) /\ g # hosts[id]
  <2> TAKE g \in HostConns \ {h}
  <2>1. Known(g)' <=> Known(g)
    BY <1>2 DEF Known
  <2>2. Known(g) => host[g].id \in HostIds
    BY DEF Known, Reg, TypeOK
  <2>3. Known(g) => (hosts[host[g].id] = g /\ g # hosts[id] <=> hosts'[host[g].id] = g)
    BY <2>2, RegFacts, NoneAssumption DEF Reg, TypeOK
  <2> QED
    BY <1>2, <2>1, <2>3 DEF Current
<1>4. ASSUME NEW g \in HostConns
      PROVE  g \in timers' <=> Current(g)' /\ g \in reconnecting'
  BY <1>1, <1>3 DEF GracePeriod
<1>5. ASSUME NEW g \in HostConns, g \in timers'
      PROVE  /\ g \notin wired' /\ CanHandoff(g)'
             /\ \A c \in Windows(g)' : session'[c] = NoSession
  <2>1. g \in timers /\ g # hosts[id] /\ g # h
    BY <1>1, <1>5
  <2>2. g \notin wired' /\ host'[g] = host[g] /\ client' = client
    BY <1>2, <2>1, WaitingFacts
  <2>3. Windows(g)' # {} /\ Windows(g)' = Windows(g)
    BY <2>1, WaitingFacts
  <2>4. \A c \in Windows(g)' :
          /\ c \in Windows(g) /\ c \in clients'
          /\ client'[c] = client[c] /\ session'[c] = NoSession
    BY <2>1, <2>2, <2>3
  <2> QED
    BY <2>1, <2>2, <2>3, <2>4, WaitingKept
<1> QED
  BY <1>4, <1>5 DEF GracePeriod

(* A hello ends the wait of the record it takes over, with its timer. *)
LEMMA HellosGrace ==
  ASSUME Reg, GracePeriod, NEW h \in HostConns, NEW id \in HostIds,
         NEW handoff \in BOOLEAN, NEW v2 \in BOOLEAN,
         \/ HostHelloNew(h, id, handoff, v2)
         \/ HostHelloReplace(h, id, handoff, v2)
         \/ HostHelloHandoff(h, id, handoff, v2)
  PROVE  GracePeriod'
<1>1. ~Known(h) /\ hosts' = [hosts EXCEPT ![id] = h] /\ UNCHANGED <<reconnecting, client>>
      /\ wired' \subseteq wired \cup {h}
  BY DEF HostHelloNew, HostHelloReplace, HostHelloHandoff, HelloAllowed
<1>2. \A g \in timers : /\ g \in HostConns /\ g \in Registered /\ g # h
                        /\ host[g].set \in HostConns /\ Windows(g) = members[host[g].set]
                        /\ \A c \in Windows(g) : c \in clients /\ RecordOf(c) = g /\ session[c] = NoSession
  <2>1. h \notin timers /\ timers \subseteq HostConns
    BY <1>1 DEF Reg, TypeOK, RecordsSound
  <2> QED
    BY <2>1, WaitingFacts, RegFacts
<1>3. \A g \in timers : host'[g] = host[g]
  BY <1>2 DEF HostHelloNew, HostHelloReplace, HostHelloHandoff, Reg, TypeOK
<1>4. CASE HostHelloNew(h, id, handoff, v2)
  <2>1. /\ host' = [host EXCEPT ![h] = NewRecord(id, handoff, v2, h)]
        /\ hosts[id] = None /\ UNCHANGED <<timers, members, clients, session>>
    BY <1>4 DEF HostHelloNew
  <2>2. timers' = timers \ {hosts[id]}
    BY <2>1, NoneAssumption DEF Reg, TypeOK
  <2>3. \A g \in timers \ {hosts[id]} :
           /\ Windows(g)' = Windows(g) /\ Windows(g) \subseteq clients'
           /\ \A c \in Windows(g) : session'[c] = NoSession
    BY <1>2, <1>3, <2>1 DEF Windows
  <2> QED
    BY <1>1, <2>1, <2>2, <2>3, HelloGrace
<1>5. CASE HostHelloReplace(h, id, handoff, v2)
  <2>1. PICK old \in Registered : old = hosts[id]
    BY <1>5, RegFacts DEF HostHelloReplace
  <2>2. /\ host' = [host EXCEPT ![h] = NewRecord(id, handoff, v2, h)]
        /\ timers' = timers \ {old}
        /\ members' = [members EXCEPT ![host[old].set] = {}]
        /\ clients' = clients \ (Windows(old) \cap clients)
        /\ session' = Released(Windows(old) \cap clients)
    BY <1>5, <2>1 DEF HostHelloReplace
  <2>3. Windows(old) = {c \in clients : RecordOf(c) = old} /\ clients \subseteq WindowConns
    BY RegFacts DEF Reg, TypeOK
  <2>4. ASSUME NEW g \in timers \ {old}
        PROVE  /\ Windows(g)' = Windows(g) /\ Windows(g) \subseteq clients'
               /\ \A c \in Windows(g) : session'[c] = NoSession
    <3>1. host[g].set # host[old].set
      BY <1>2, <2>4 DEF Reg, RecordsSound
    <3>2. Windows(g)' = Windows(g)
      BY <1>2, <1>3, <2>2, <3>1, NoneAssumption DEF Windows, Reg, TypeOK
    <3>3. \A c \in Windows(g) : c \in clients /\ c \notin Windows(old) /\ session[c] = NoSession
      BY <1>2, <2>3, <2>4
    <3> QED
      BY <2>2, <2>3, <3>2, <3>3 DEF Released
  <2> QED
    BY <1>1, <2>1, <2>2, <2>4, HelloGrace
<1>6. CASE HostHelloHandoff(h, id, handoff, v2)
  <2>1. PICK old \in Registered : old = hosts[id]
    BY <1>6, RegFacts DEF HostHelloHandoff
  <2>2. /\ host' = [host EXCEPT ![h] = NewRecord(id, handoff, v2, host[old].set)]
        /\ timers' = timers \ {old} /\ UNCHANGED <<members, clients>>
        /\ \E f \in FirstIndices(Windows(old), v2) :
             session' = IF hostSock[h] = "open" THEN StartedSessions(h, f)
                        ELSE Released(Windows(old))
    BY <1>6, <2>1 DEF HostHelloHandoff
  <2>3. Windows(old) = {c \in clients : RecordOf(c) = old} /\ clients \subseteq WindowConns
        /\ host[old].set \in HostConns
    BY RegFacts DEF Reg, TypeOK
  <2>4. \A c \in WindowConns \ Windows(old) : session'[c] = session[c]
    <3>1. PICK f \in FirstIndices(Windows(old), v2) :
             session' = IF hostSock[h] = "open" THEN StartedSessions(h, f)
                        ELSE Released(Windows(old))
      BY <2>2
    <3>2. DOMAIN f = Windows(old)
      BY <3>1 DEF FirstIndices
    <3> QED
      BY <3>1, <3>2 DEF StartedSessions, Released
  <2>5. ASSUME NEW g \in timers \ {old}
        PROVE  /\ Windows(g)' = Windows(g) /\ Windows(g) \subseteq clients'
               /\ \A c \in Windows(g) : session'[c] = NoSession
    <3>1. Windows(g)' = Windows(g)
      BY <1>3, <2>2, <2>5 DEF Windows
    <3>2. \A c \in Windows(g) : c \in clients /\ c \notin Windows(old) /\ session[c] = NoSession
      BY <1>2, <2>3, <2>5
    <3> QED
      BY <2>2, <2>3, <2>4, <3>1, <3>2
  <2> QED
    BY <1>1, <2>1, <2>2, <2>3, <2>5, HelloGrace
<1> QED
  BY <1>4, <1>5, <1>6

(* A window that is let in disturbs no waiting record. *)
LEMMA WindowHelloGrace ==
  ASSUME Reg, GracePeriod, NEW c \in WindowConns, NEW d \in Devices,
         NEW handoff \in BOOLEAN, WindowHello(c, d, handoff)
  PROVE  GracePeriod'
<1>1. HostOf[d] \in HostIds
  BY DeviceAssumption
<1>2. PICK h \in Registered : h = hosts[HostOf[d]]
  BY <1>1, RegFacts DEF WindowHello
<1>3. PICK i : session' = [session EXCEPT ![c] = [on |-> h, index |-> i]]
  BY <1>2 DEF WindowHello
<1>4. /\ ~Admitted(c) /\ h \notin reconnecting
      /\ client' = [client EXCEPT ![c] = [device |-> d, handoff |-> handoff]]
      /\ clients' = clients \cup {c}
      /\ members' = [members EXCEPT ![host[h].set] = @ \cup {c}]
      /\ UNCHANGED <<hosts, host, wired, reconnecting, timers>>
  BY <1>2 DEF WindowHello, HelloExpected
<1>5. c \notin clients
  BY <1>4 DEF Reg, RegistryConsistent
<1>6. \A g \in HostConns : Current(g)' <=> Current(g)
  BY <1>4 DEF Current, Known
<1>7. ASSUME NEW g \in HostConns, g \in timers'
      PROVE  /\ g \notin wired' /\ CanHandoff(g)'
             /\ \A w \in Windows(g)' : session'[w] = NoSession
  <2>1. g \in timers /\ g \in Registered /\ g # h
    BY <1>4, <1>7, WaitingFacts
  <2>2. host[g].set # host[h].set
    BY <2>1 DEF Reg, RecordsSound
  <2>3. Windows(g)' = Windows(g)
    BY <1>4, <2>1, <2>2, RegFacts, NoneAssumption DEF Windows, Reg, TypeOK
  <2>4. \A w \in Windows(g) : /\ w \in clients /\ w # c /\ w \in WindowConns
                              /\ session[w] = NoSession
    BY <1>5, <2>1, WaitingFacts DEF Reg, TypeOK
  <2>5. \A w \in Windows(g)' :
          /\ w \in Windows(g) /\ w \in clients'
          /\ client'[w] = client[w] /\ session'[w] = NoSession
    BY <1>3, <1>4, <2>3, <2>4 DEF Reg, TypeOK
  <2>6. g \notin wired' /\ host'[g] = host[g] /\ Windows(g)' # {}
    BY <1>4, <2>1, <2>3, WaitingFacts
  <2> QED
    BY <2>1, <2>5, <2>6, WaitingKept
<1> QED
  BY <1>4, <1>6, <1>7 DEF GracePeriod

(* Each step of a connection keeps waiting records and timers paired. *)
LEMMA HostStepGrace ==
  ASSUME Reg, GracePeriod, NEW h \in HostConns, HostStep(h)
  PROVE  GracePeriod'
<1>1. CASE HostUpgrade(h) \/ HostRefused(h) \/ HostClosing(h)
  BY <1>1, KeptGrace DEF HostUpgrade, HostRefused, HostClosing, registry, records
<1>2. CASE \E id \in HostIds, handoff, v2 \in BOOLEAN :
             \/ HostHelloNew(h, id, handoff, v2)
             \/ HostHelloReplace(h, id, handoff, v2)
             \/ HostHelloHandoff(h, id, handoff, v2)
  BY <1>2, HellosGrace
<1>3. ASSUME NEW shutdown \in BOOLEAN, HostClosed(h, shutdown)
      PROVE  GracePeriod'
  <2>1. CASE ~(Current(h) /\ h \in wired)
    BY <1>3, <2>1, KeptGrace DEF HostClosed, registry, records
  <2>2. CASE (Current(h) /\ h \in wired) /\ (shutdown \/ ~CanHandoff(h))
    <3>1. Detach({}, {h}) /\ UNCHANGED client /\ {h} \in SUBSET Registered
      BY <1>3, <2>2 DEF HostClosed, Registered
    <3> QED
      BY <3>1, DetachGrace
  <2>3. CASE (Current(h) /\ h \in wired) /\ ~(shutdown \/ ~CanHandoff(h))
    <3>1. BeginReconnect(h) /\ UNCHANGED client /\ h \in Registered /\ CanHandoff(h)
      BY <1>3, <2>3 DEF HostClosed, Registered
    <3> QED
      BY <3>1, BeginReconnectGrace
  <2> QED
    BY <2>1, <2>2, <2>3
<1>4. CASE GraceTimeout(h)
  <2>1. Current(h) /\ h \in reconnecting
    BY <1>4 DEF GraceTimeout, GracePeriod
  <2>2. Detach({}, {h}) /\ UNCHANGED client /\ {h} \in SUBSET Registered
    BY <1>4, <2>1 DEF GraceTimeout, DetachAndClose, Registered
  <2> QED
    BY <2>2, DetachGrace
<1>5. CASE HostShutdown(h)
  <2>1. Detach({}, {h}) /\ UNCHANGED client /\ {h} \in SUBSET Registered
    BY <1>5 DEF HostShutdown, DetachAndClose, Registered
  <2> QED
    BY <2>1, DetachGrace
<1>6. CASE \E c \in WindowConns : SessionExit(h, c)
  BY <1>6, DetachGrace DEF SessionExit, DetachAndClose
<1> QED
  BY <1>1, <1>2, <1>3, <1>4, <1>5, <1>6 DEF HostStep

(* So does each step of a window. *)
LEMMA WindowStepGrace ==
  ASSUME Reg, GracePeriod, NEW c \in WindowConns, WindowStep(c)
  PROVE  GracePeriod'
<1>1. CASE WindowUpgrade(c) \/ WindowRefused(c) \/ WindowClosing(c)
  BY <1>1, KeptGrace DEF WindowUpgrade, WindowRefused, WindowClosing, registry, records
<1>2. CASE WindowClosed(c) \/ SlowWindow(c)
  BY <1>2, DetachGrace DEF WindowClosed, SlowWindow, DetachAndClose
<1>3. CASE \E d \in Devices, handoff \in BOOLEAN : WindowHello(c, d, handoff)
  BY <1>3, WindowHelloGrace
<1>4. CASE SendFailed(c)
  <2>1. PICK h \in Registered : h = RecordOf(c)
    BY <1>4, RegFacts DEF SendFailed
  <2>2. CASE CanHandoff(h)
    BY <1>4, <2>1, <2>2, BeginReconnectGrace DEF SendFailed
  <2>3. CASE ~CanHandoff(h)
    <3>1. {h} \in SUBSET Registered /\ Detach({}, {h}) /\ UNCHANGED client
      BY <1>4, <2>1, <2>3 DEF SendFailed, DetachAndClose
    <3> QED
      BY <3>1, DetachGrace
  <2> QED
    BY <2>2, <2>3
<1> QED
  BY <1>1, <1>2, <1>3, <1>4 DEF WindowStep

(* Every step keeps waiting records and timers paired. *)
LEMMA NextGrace == Reg /\ GracePeriod /\ [Next]_vars => GracePeriod'
<1> SUFFICES ASSUME Reg, GracePeriod, [Next]_vars PROVE GracePeriod'
  OBVIOUS
<1>1. CASE OperatorStep
  <2>1. ASSUME NEW d \in Devices, RevokeDevice(d) PROVE GracePeriod'
    BY <2>1, DetachGrace DEF RevokeDevice, DetachAndClose
  <2>2. ASSUME NEW W \in SUBSET clients, NEW H \in SUBSET Registered, Sweep(W, H)
        PROVE  GracePeriod'
    BY <2>2, DetachGrace DEF Sweep, DetachAndClose
  <2>3. CASE Close
    BY <2>3, DetachGrace DEF Close, DetachAndClose
  <2> QED
    BY <1>1, <2>1, <2>2, <2>3 DEF OperatorStep
<1>2. CASE Next
  BY <1>1, <1>2, HostStepGrace, WindowStepGrace DEF Next
<1>3. CASE UNCHANGED vars
  BY <1>3, KeptGrace DEF vars, registry, records
<1> QED
  BY <1>2, <1>3

(* The grace timer is set exactly while a registered host waits to come back,   *)
(* and then the host has windows that all can wait, none of which has a         *)
(* session: the timer never fires for a connection that came back, and no       *)
(* window waits for a host that nothing will ever time out.                     *)
THEOREM GraceHolds == Spec => []GracePeriod
<1>1. Init => GracePeriod
  <2>1. Init => \A h \in HostConns : h \notin timers /\ h \notin reconnecting
    BY DEF Init
  <2> QED
    BY <2>1 DEF GracePeriod
<1>2. Reg /\ GracePeriod /\ [Next]_vars => GracePeriod'
  BY NextGrace
<1> QED
  BY <1>1, <1>2, RegAlways, PTL DEF Spec

(***************************************************************************)
(* Who is let in, where output is led, which sessions a connector runs, and *)
(* that the relay implements Attachment.                                    *)
(***************************************************************************)

(* The kinds of steps the registry knows.  Windows and records end; a record    *)
(* begins to wait; a connection says hello; or only sockets change.             *)
Ends(W, H) ==
  /\ Detach(W, H) /\ UNCHANGED client
  /\ \A h \in HostConns : hostSock'[h] = "open" =>
       hostSock[h] = "open" /\ h \notin Dropped(W, H) \cap wired

Waits(h) ==
  /\ BeginReconnect(h) /\ CanHandoff(h) /\ h \in wired /\ UNCHANGED client
  /\ \A g \in HostConns : hostSock'[g] = "open" => hostSock[g] = "open"
  /\ ~SendMayThrow => hostSock'[h] # "open"

HostHello(h, id, handoff, v2) ==
  \/ HostHelloNew(h, id, handoff, v2)
  \/ HostHelloReplace(h, id, handoff, v2)
  \/ HostHelloHandoff(h, id, handoff, v2)

SocketsOnly ==
  /\ UNCHANGED <<registry, client, wire>>
  /\ \A h \in HostConns : hostSock'[h] = "open" => hostSock[h] = "open" \/ ~Known(h)

StepKind ==
  \/ \E W \in SUBSET WindowConns, H \in SUBSET Registered : Ends(W, H)
  \/ \E h \in Registered : Waits(h)
  \/ \E h \in HostConns, id \in HostIds, handoff, v2 \in BOOLEAN : HostHello(h, id, handoff, v2)
  \/ \E c \in WindowConns, d \in Devices, handoff \in BOOLEAN : WindowHello(c, d, handoff)
  \/ SocketsOnly

(* A handler that ends windows and records, and closes their sockets. *)
LEMMA DetachAndCloseEnds ==
  ASSUME Reg, NEW W \in SUBSET WindowConns, NEW H \in SUBSET Registered,
         DetachAndClose(W, H), UNCHANGED client
  PROVE  StepKind
<1>1. \A h \in HostConns : hostSock'[h] = "open" =>
        hostSock[h] = "open" /\ h \notin Dropped(W, H) \cap wired
  BY DEF DetachAndClose, HostSocks, Closing
<1> QED
  BY <1>1 DEF DetachAndClose, StepKind, Ends

(* Every step is of one of the kinds. *)
LEMMA StepKinds ==
  ASSUME Reg, GracePeriod, [Next]_vars
  PROVE  StepKind
<1>1. ASSUME NEW h \in HostConns, HostStep(h)
      PROVE  StepKind
  <2>1. CASE HostUpgrade(h) \/ HostRefused(h) \/ HostClosing(h)
    <3>1. \E s \in {"open", "closing"} :
             /\ hostSock' = [hostSock EXCEPT ![h] = s]
             /\ s = "open" => ~Known(h)
      BY <2>1 DEF HostUpgrade, HostRefused, HostClosing, Reg, RecordsSound
    <3>2. \A g \in HostConns : hostSock'[g] = "open" => hostSock[g] = "open" \/ ~Known(g)
      BY <3>1 DEF Reg, TypeOK
    <3> QED
      BY <2>1, <3>2 DEF HostUpgrade, HostRefused, HostClosing, StepKind, SocketsOnly
  <2>2. CASE \E id \in HostIds, handoff, v2 \in BOOLEAN : HostHello(h, id, handoff, v2)
    BY <2>2 DEF StepKind
  <2>3. ASSUME NEW shutdown \in BOOLEAN, HostClosed(h, shutdown)
        PROVE  StepKind
    <3>1. hostSock' = [hostSock EXCEPT ![h] = "closed"] /\ UNCHANGED client
      BY <2>3 DEF HostClosed
    <3>2. \A g \in HostConns : hostSock'[g] = "open" => hostSock[g] = "open" /\ g # h
      BY <3>1 DEF Reg, TypeOK
    <3>3. CASE ~(Current(h) /\ h \in wired)
      BY <2>3, <3>1, <3>2, <3>3 DEF HostClosed, StepKind, SocketsOnly
    <3>4. CASE (Current(h) /\ h \in wired) /\ (shutdown \/ ~CanHandoff(h))
      <4>1. Detach({}, {h}) /\ {h} \in SUBSET Registered
        BY <2>3, <3>4 DEF HostClosed, Registered
      <4>2. Dropped({}, {h}) = {h}
        BY DEF Dropped, LeavingFrom, Leaving
      <4>3. Ends({}, {h})
        BY <3>1, <3>2, <4>1, <4>2 DEF Ends
      <4> QED
        BY <4>1, <4>3 DEF StepKind
    <3>5. CASE (Current(h) /\ h \in wired) /\ ~(shutdown \/ ~CanHandoff(h))
      <4>1. BeginReconnect(h) /\ CanHandoff(h) /\ h \in Registered
        BY <2>3, <3>5 DEF HostClosed, Registered
      <4>2. hostSock'[h] # "open"
        BY <3>2
      <4> QED
        BY <3>1, <3>2, <3>5, <4>1, <4>2 DEF StepKind, Waits
    <3> QED
      BY <3>3, <3>4, <3>5
  <2>4. CASE GraceTimeout(h)
    <3>1. Current(h) /\ h \in reconnecting
      BY <2>4 DEF GraceTimeout, GracePeriod
    <3>2. DetachAndClose({}, {h}) /\ UNCHANGED client /\ {h} \in SUBSET Registered
      BY <2>4, <3>1 DEF GraceTimeout, Registered
    <3> QED
      BY <3>2, DetachAndCloseEnds
  <2>5. CASE HostShutdown(h)
    <3>1. DetachAndClose({}, {h}) /\ UNCHANGED client /\ {h} \in SUBSET Registered
      BY <2>5 DEF HostShutdown, Registered
    <3> QED
      BY <3>1, DetachAndCloseEnds
  <2>6. CASE \E c \in WindowConns : SessionExit(h, c)
    BY <2>6, DetachAndCloseEnds DEF SessionExit
  <2> QED
    BY <1>1, <2>1, <2>2, <2>3, <2>4, <2>5, <2>6 DEF HostStep, HostHello
<1>2. ASSUME NEW c \in WindowConns, WindowStep(c)
      PROVE  StepKind
  <2>1. CASE WindowUpgrade(c) \/ WindowRefused(c) \/ WindowClosing(c)
    BY <2>1 DEF WindowUpgrade, WindowRefused, WindowClosing, StepKind, SocketsOnly
  <2>2. CASE WindowClosed(c)
    <3>1. Detach({c}, {}) /\ UNCHANGED client /\ hostSock' = HostSocks(Dropped({c}, {}))
      BY <2>2 DEF WindowClosed
    <3>2. \A h \in HostConns : hostSock'[h] = "open" =>
            hostSock[h] = "open" /\ h \notin Dropped({c}, {}) \cap wired
      BY <3>1 DEF HostSocks, Closing
    <3> QED
      BY <3>1, <3>2 DEF StepKind, Ends
  <2>3. CASE \E d \in Devices, handoff \in BOOLEAN : WindowHello(c, d, handoff)
    BY <2>3 DEF StepKind
  <2>4. CASE SlowWindow(c)
    BY <2>4, DetachAndCloseEnds DEF SlowWindow
  <2>5. CASE SendFailed(c)
    <3>1. PICK h \in Registered : h = RecordOf(c)
      BY <2>5, RegFacts DEF SendFailed
    <3>2. CASE CanHandoff(h)
      BY <2>5, <3>1, <3>2 DEF SendFailed, StepKind, Waits, WsOpen, sockets
    <3>3. CASE ~CanHandoff(h)
      BY <2>5, <3>1, <3>3, DetachAndCloseEnds DEF SendFailed
    <3> QED
      BY <3>2, <3>3
  <2> QED
    BY <1>2, <2>1, <2>2, <2>3, <2>4, <2>5 DEF WindowStep
<1>3. CASE OperatorStep
  <2>1. clients \subseteq WindowConns
    BY DEF Reg, TypeOK
  <2>2. ASSUME NEW d \in Devices, RevokeDevice(d) PROVE StepKind
    BY <2>1, <2>2, DetachAndCloseEnds DEF RevokeDevice
  <2>3. ASSUME NEW W \in SUBSET clients, NEW H \in SUBSET Registered, Sweep(W, H)
        PROVE  StepKind
    BY <2>1, <2>3, DetachAndCloseEnds DEF Sweep
  <2>4. CASE Close
    BY <2>1, <2>4, DetachAndCloseEnds DEF Close
  <2> QED
    BY <1>3, <2>2, <2>3, <2>4 DEF OperatorStep
<1>4. CASE UNCHANGED vars
  BY <1>4 DEF vars, sockets, StepKind, SocketsOnly
<1> QED
  BY <1>1, <1>2, <1>3, <1>4 DEF Next
-----------------------------------------------------------------------------
(* Admission.  What a hello of a workstation does to the registered records:    *)
(* h takes a place, the one of the record registered for id if there is one.    *)
LEMMA HostHelloFacts ==
  ASSUME Reg, NEW h \in HostConns, NEW id \in HostIds, NEW handoff \in BOOLEAN, NEW v2 \in BOOLEAN,
         HostHello(h, id, handoff, v2)
  PROVE  /\ ~Known(h) /\ h \notin Registered /\ hosts'[id] = h
         /\ \A i \in HostIds \ {id} : hosts'[i] = hosts[i]
         /\ hosts[id] = None => Cardinality(Registered) < MaxHosts
         /\ Registered' = (Registered \ {hosts[id]}) \cup {h}
         /\ Known(h)' /\ \A g \in HostConns \ {h} : host'[g] = host[g]
         /\ client' = client /\ clients' \subseteq clients
<1>1. /\ ~Known(h) /\ hosts' = [hosts EXCEPT ![id] = h] /\ UNCHANGED client
      /\ hosts[id] = None => Cardinality(Registered) < MaxHosts
      /\ clients' \subseteq clients
  BY DEF HostHello, HostHelloNew, HostHelloReplace, HostHelloHandoff, HelloAllowed
<1>2. \E set : host' = [host EXCEPT ![h] = NewRecord(id, handoff, v2, set)]
  BY DEF HostHello, HostHelloNew, HostHelloReplace, HostHelloHandoff
<1>3. \A set : NewRecord(id, handoff, v2, set).id = id
  BY DEF NewRecord
<1>4. /\ h \notin Registered /\ Registered' = (Registered \ {hosts[id]}) \cup {h}
      /\ Known(h)' /\ \A g \in HostConns \ {h} : host'[g] = host[g]
  BY <1>1, <1>2, <1>3, HelloRegistered
<1> QED
  BY <1>1, <1>4 DEF Reg, TypeOK

(* The registered records are finitely many. *)
LEMMA RegisteredCount ==
  ASSUME NEW S \in SUBSET Registered
  PROVE  /\ IsFiniteSet(S) /\ IsFiniteSet(Registered)
         /\ Cardinality(S) \in Nat /\ Cardinality(Registered) \in Nat
         /\ Cardinality(S) <= Cardinality(Registered)
<1>1. Registered \in SUBSET HostConns
  BY DEF Registered
<1>2. IsFiniteSet(Registered)
  BY <1>1, FS_Subset, FiniteAssumption
<1> QED
  BY <1>2, FS_Subset, FS_CardinalityType

(* A hello keeps the number of registered workstations within the limit: the    *)
(* place of one that returns is its own.                                        *)
LEMMA HostHelloCount ==
  ASSUME Reg, Cardinality(Registered) <= MaxHosts,
         NEW h \in HostConns, NEW id \in HostIds, NEW handoff \in BOOLEAN, NEW v2 \in BOOLEAN,
         HostHello(h, id, handoff, v2)
  PROVE  Cardinality(Registered') <= MaxHosts
<1> DEFINE R == Registered \ {hosts[id]}
<1>1. h \notin R /\ Registered' = R \cup {h}
  BY HostHelloFacts
<1>2. R \in SUBSET Registered
  OBVIOUS
<1>3. IsFiniteSet(R) /\ IsFiniteSet(Registered) /\ Cardinality(R) \in Nat /\ Cardinality(Registered) \in Nat
  BY <1>2, RegisteredCount
<1>4. Cardinality(Registered') = Cardinality(R) + 1
  BY <1>1, <1>3, FS_AddElement
<1>5. CASE hosts[id] = None
  <2>1. None \notin Registered
    BY NoneAssumption DEF Registered
  <2>2. R = Registered
    BY <1>5, <2>1
  <2>3. Cardinality(Registered) < MaxHosts
    BY <1>5, HostHelloFacts
  <2>4. Cardinality(Registered') = Cardinality(Registered) + 1
    BY <1>4, <2>2
  <2> HIDE DEF R
  <2> QED
    BY <1>3, <2>3, <2>4, LimitAssumption
<1>6. CASE hosts[id] # None
  <2>1. hosts[id] \in Registered
    BY <1>6, RegFacts
  <2>2. Cardinality(R) = Cardinality(Registered) - 1
    BY <1>3, <2>1, FS_RemoveElement
  <2>3. Cardinality(Registered') = Cardinality(Registered)
    BY <1>3, <1>4, <2>2
  <2> QED
    BY <2>3
<1> QED
  BY <1>5, <1>6

(* Only the operator revokes, and he ends the windows of the device with it. *)
LEMMA OnlyRevokeRevokes ==
  ASSUME [Next]_vars
  PROVE  revoked' = revoked \/ \E d \in Devices : RevokeDevice(d)
<1>1. ASSUME NEW h \in HostConns, HostStep(h)
      PROVE  revoked' = revoked
  <2>1. ASSUME NEW id \in HostIds, NEW handoff \in BOOLEAN, NEW v2 \in BOOLEAN,
               HostHello(h, id, handoff, v2)
        PROVE  revoked' = revoked
    BY <2>1 DEF HostHello, HostHelloNew, HostHelloReplace, HostHelloHandoff
  <2>2. CASE ~\E id \in HostIds, handoff, v2 \in BOOLEAN : HostHello(h, id, handoff, v2)
    BY <1>1, <2>2 DEF HostStep, HostHello, HostUpgrade, HostRefused, HostClosing, HostClosed,
                      GraceTimeout, HostShutdown, SessionExit
  <2> QED
    BY <2>1, <2>2
<1>2. ASSUME NEW c \in WindowConns, WindowStep(c)
      PROVE  revoked' = revoked
  BY <1>2 DEF WindowStep, WindowUpgrade, WindowRefused, WindowClosing, WindowClosed, WindowHello,
              SlowWindow, SendFailed
<1>3. ASSUME OperatorStep
      PROVE  revoked' = revoked \/ \E d \in Devices : RevokeDevice(d)
  BY <1>3 DEF OperatorStep, Sweep, Close
<1> QED
  BY <1>1, <1>2, <1>3 DEF Next, vars

(* Admission is kept by every step. *)
LEMMA NextAdmission == Reg /\ GracePeriod /\ AdmissionHolds /\ [Next]_vars => AdmissionHolds'
<1> SUFFICES ASSUME Reg, GracePeriod, AdmissionHolds, [Next]_vars PROVE AdmissionHolds'
  OBVIOUS
<1>1. ASSUME Registered' \subseteq Registered
      PROVE  Cardinality(Registered') <= MaxHosts
  BY <1>1, RegisteredCount, LimitAssumption DEF AdmissionHolds
<1>2. CASE \E d \in Devices : RevokeDevice(d)
  <2>1. PICK d \in Devices : RevokeDevice(d)
    BY <1>2
  <2>2. PICK W : W = {c \in clients : client[c].device = d}
    OBVIOUS
  <2>3. Detach(W, {}) /\ UNCHANGED client /\ revoked' = revoked \cup {d}
    BY <2>1, <2>2 DEF RevokeDevice, DetachAndClose
  <2>4. Registered' \subseteq Registered
    BY <2>3, DetachEffect
  <2>5. \A c \in clients' : c \in clients /\ c \notin W
    BY <2>3, DetachEffect
  <2>6. \A c \in clients' : client'[c].device \notin revoked'
    BY <2>2, <2>3, <2>5 DEF AdmissionHolds
  <2> QED
    BY <1>1, <2>4, <2>6 DEF AdmissionHolds
<1>3. CASE ~\E d \in Devices : RevokeDevice(d)
  <2>0. revoked' = revoked
    BY <1>3, OnlyRevokeRevokes
  <2>1. ASSUME clients' \subseteq clients, client' = client
        PROVE  \A c \in clients' : client'[c].device \notin revoked'
    BY <2>0, <2>1 DEF AdmissionHolds
  <2>2. ASSUME NEW W \in SUBSET WindowConns, NEW H \in SUBSET Registered, Ends(W, H)
        PROVE  AdmissionHolds'
    <3>1. Detach(W, H) /\ client' = client
      BY <2>2 DEF Ends
    <3>2. Registered' \subseteq Registered /\ clients' \subseteq clients
      BY <3>1, DetachEffect
    <3> QED
      BY <1>1, <2>1, <3>1, <3>2 DEF AdmissionHolds
  <2>3. ASSUME UNCHANGED <<hosts, host>>
        PROVE  Registered' \subseteq Registered
    BY <2>3 DEF Registered, Current, Known
  <2>4. ASSUME NEW h \in Registered, Waits(h)
        PROVE  AdmissionHolds'
    BY <1>1, <2>1, <2>3, <2>4 DEF Waits, BeginReconnect, AdmissionHolds
  <2>5. ASSUME NEW h \in HostConns, NEW id \in HostIds, NEW handoff \in BOOLEAN, NEW v2 \in BOOLEAN,
               HostHello(h, id, handoff, v2)
        PROVE  AdmissionHolds'
    <3>1. clients' \subseteq clients /\ client' = client
      BY <2>5, HostHelloFacts
    <3>2. Cardinality(Registered') <= MaxHosts
      BY <2>5, HostHelloCount DEF AdmissionHolds
    <3> QED
      BY <2>1, <3>1, <3>2 DEF AdmissionHolds
  <2>6. ASSUME NEW c \in WindowConns, NEW d \in Devices, NEW handoff \in BOOLEAN,
               WindowHello(c, d, handoff)
        PROVE  AdmissionHolds'
    <3>1. /\ d \notin revoked /\ clients' = clients \cup {c} /\ UNCHANGED <<hosts, host>>
          /\ client' = [client EXCEPT ![c] = [device |-> d, handoff |-> handoff]]
      BY <2>6 DEF WindowHello
    <3>2. \A w \in clients' : client'[w].device \notin revoked'
      BY <2>0, <3>1 DEF AdmissionHolds, Reg, TypeOK
    <3> QED
      BY <1>1, <2>3, <3>1, <3>2 DEF AdmissionHolds
  <2>7. CASE SocketsOnly
    BY <1>1, <2>1, <2>3, <2>7 DEF SocketsOnly, registry, records, AdmissionHolds
  <2> QED
    BY <2>2, <2>4, <2>5, <2>6, <2>7, StepKinds DEF StepKind
<1> QED
  BY <1>2, <1>3

(* No more workstations are registered than maxHosts, through every replacement  *)
(* and return, and no registered window belongs to a revoked device, attached,   *)
(* waiting or handed over.                                                       *)
THEOREM AdmissionIsKept == Spec => []AdmissionHolds
<1>1. Init => AdmissionHolds
  <2> SUFFICES ASSUME Init PROVE AdmissionHolds
    OBVIOUS
  <2>1. Registered = {} /\ clients = {}
    BY DEF Init, Registered, Current, Known, NoHost
  <2> QED
    BY <2>1, FS_EmptySet, LimitAssumption DEF AdmissionHolds
<1>2. Reg /\ GracePeriod /\ AdmissionHolds /\ [Next]_vars => AdmissionHolds'
  BY NextAdmission
<1> QED
  BY <1>1, <1>2, RegAlways, GraceHolds, PTL DEF Spec
-----------------------------------------------------------------------------
(* A hand-off keeps every window, and serves it again if the new connection is   *)
(* still open: nothing else replaces a record whose windows can all wait.        *)
THEOREM HandoffKeeps == Spec => HandoffKeepsWindows
<1>1. ASSUME Reg, GracePeriod, [Next]_vars, NEW i \in HostIds,
             hosts[i] # None, hosts'[i] \notin {None, hosts[i]}, CanHandoff(hosts[i])
      PROVE  /\ clients' = clients
             /\ hostSock[hosts'[i]] = "open" =>
                  \A c \in Windows(hosts[i]) : session'[c].on = hosts'[i]
  <2>1. ~\E W \in SUBSET WindowConns, H \in SUBSET Registered : Ends(W, H)
    BY <1>1 DEF Ends, Detach
  <2>2. ~\E h \in Registered : Waits(h)
    BY <1>1 DEF Waits, BeginReconnect
  <2>3. ~\E c \in WindowConns, d \in Devices, handoff \in BOOLEAN : WindowHello(c, d, handoff)
    BY <1>1 DEF WindowHello
  <2>4. ~SocketsOnly
    BY <1>1 DEF SocketsOnly, registry
  <2>5. PICK h \in HostConns, id \in HostIds, handoff \in BOOLEAN, v2 \in BOOLEAN :
          HostHello(h, id, handoff, v2)
    BY <1>1, <2>1, <2>2, <2>3, <2>4, StepKinds DEF StepKind
  <2>6. i = id /\ hosts'[i] = h
    BY <1>1, <2>5, HostHelloFacts
  <2>7. HostHelloHandoff(h, i, handoff, v2)
    BY <1>1, <2>5, <2>6 DEF HostHello, HostHelloNew, HostHelloReplace
  <2>8. PICK W : W = Windows(hosts[i])
    OBVIOUS
  <2>9. PICK f \in FirstIndices(W, v2) :
           /\ clients' = clients
           /\ hostSock[h] = "open" => session' = StartedSessions(h, f)
    BY <2>7, <2>8 DEF HostHelloHandoff
  <2>10. DOMAIN f = W /\ W \subseteq WindowConns
    BY <1>1, <2>8 DEF FirstIndices, CanHandoff, Reg, TypeOK
  <2>11. ASSUME hostSock[h] = "open", NEW c \in W
         PROVE  session'[c].on = h
    <3>1. session'[c] = [on |-> h, index |-> f[c]]
      BY <2>9, <2>10, <2>11 DEF StartedSessions
    <3> QED
      BY <3>1
  <2> QED
    BY <2>6, <2>8, <2>9, <2>11
<1>2. Reg /\ GracePeriod /\ [Next]_vars =>
        [\A i \in HostIds :
          /\ hosts[i] # None /\ hosts'[i] \notin {None, hosts[i]}
          /\ CanHandoff(hosts[i])
          => /\ clients' = clients
             /\ hostSock[hosts'[i]] = "open" =>
                  \A c \in Windows(hosts[i]) : session'[c].on = hosts'[i]]_vars
  BY <1>1
<1> QED
  BY <1>2, RegAlways, GraceHolds, PTL DEF Spec, HandoffKeepsWindows
-----------------------------------------------------------------------------
(* Routing by v2 index.  The round robin never gives out an index in use. *)
LEMMA NextIndexFree ==
  ASSUME TypeOK, NEW h \in HostConns, NextIndex(h) # None
  PROVE  NextIndex(h) \in Indices /\ indexTable[h][NextIndex(h)] = None
<1> DEFINE F == FreeSteps(h)
<1>1. host[h].v2 /\ F # {}
  BY DEF NextIndex
<1>2. F \subseteq Indices /\ Indices \subseteq Nat
  BY LimitAssumption DEF FreeSteps, Indices
<1>3. \E k \in F : \A j \in F : k <= j
  BY <1>1, <1>2, LeastNat
<1>4. (CHOOSE k \in F : \A j \in F : k <= j) \in F
  BY <1>3
<1>5. PICK k \in F : NextIndex(h) = (nextIndex[h] + k) % IndexCount
  BY <1>1, <1>4 DEF NextIndex
<1> QED
  BY <1>5, NextIndexType DEF FreeSteps

(* A session is that of a registered window, on its registered record. *)
LEMMA SessionFacts ==
  ASSUME Reg, StreamsConsistent, NEW c \in WindowConns,
         session[c] # NoSession \/ session[c].index # None \/ session[c].on # None
  PROVE  /\ session[c] # NoSession /\ c \in clients
         /\ session[c].on = RecordOf(c) /\ session[c].on \in Registered
         /\ session[c].on \in HostConns
<1>1. session[c] # NoSession
  BY DEF NoSession
<1> QED
  BY <1>1, RegFacts DEF StreamsConsistent, Registered

(* What an index leads to: the window that has it, and no other. *)
LEMMA RoutingFacts ==
  ASSUME Reg, StreamsConsistent, IndexRouting
  PROVE  /\ \A h \in HostConns, i \in Indices : indexTable[h][i] # None =>
              /\ indexTable[h][i] \in WindowConns
              /\ session[indexTable[h][i]].on = h
              /\ session[indexTable[h][i]].index = i
         /\ \A c \in WindowConns : session[c].index # None =>
              /\ session[c].on \in HostConns /\ session[c].index \in Indices
              /\ indexTable[session[c].on][session[c].index] = c
<1>1. ASSUME NEW h \in HostConns, NEW i \in Indices, indexTable[h][i] # None
      PROVE  /\ indexTable[h][i] \in WindowConns
             /\ session[indexTable[h][i]].on = h
             /\ session[indexTable[h][i]].index = i
  <2>1. session[indexTable[h][i]] = [on |-> h, index |-> i]
    BY <1>1 DEF IndexRouting
  <2> QED
    BY <1>1, <2>1 DEF Reg, TypeOK
<1>2. ASSUME NEW c \in WindowConns, session[c].index # None
      PROVE  /\ session[c].on \in HostConns /\ session[c].index \in Indices
             /\ indexTable[session[c].on][session[c].index] = c
  BY <1>2, SessionFacts DEF IndexRouting, Reg, TypeOK
<1> QED
  BY <1>1, <1>2

(* A handler that releases the sessions of G, and on each record h the indices   *)
(* of the windows X[h], keeps the others' routes.                                *)
LEMMA ReleaseRouting ==
  ASSUME Reg, StreamsConsistent, IndexRouting, NEW G \in SUBSET WindowConns,
         session' = Released(G),
         NEW X \in [HostConns -> SUBSET G],
         \A h \in HostConns : indexTable'[h] = IndicesWithout(h, X[h]),
         \A h \in HostConns : \A c \in X[h] : session[c] # NoSession => session[c].on = h,
         \A c \in G : session[c] # NoSession => c \in X[session[c].on]
  PROVE  IndexRouting'
<1>1. \A h \in HostConns, i \in Indices :
        indexTable'[h][i] = IF \E c \in X[h] : session[c].index = i
                            THEN None ELSE indexTable[h][i]
  <2> TAKE h \in HostConns, i \in Indices
  <2>1. PICK Y : Y = X[h] /\ indexTable'[h] = IndicesWithout(h, Y)
    OBVIOUS
  <2> QED
    BY <2>1 DEF IndicesWithout
<1>2. \A c \in WindowConns : session'[c] = IF c \in G THEN NoSession ELSE session[c]
  BY DEF Released
<1>3. NoSession.index = None /\ NoSession.on = None
  BY DEF NoSession
<1>4. ASSUME NEW h \in HostConns, NEW i \in Indices, indexTable'[h][i] # None
      PROVE  session'[indexTable'[h][i]] = [on |-> h, index |-> i]
  <2>1. PICK c \in WindowConns : c = indexTable[h][i] /\ c = indexTable'[h][i]
    BY <1>1, <1>4, RoutingFacts
  <2>2. session[c] = [on |-> h, index |-> i] /\ session[c].index = i /\ session[c].on = h
    BY <1>4, <2>1, <1>1, RoutingFacts DEF IndexRouting
  <2>3. session[c] # NoSession
    BY <2>2, <1>3, NoneAssumption
  <2>4. c \notin G
    BY <1>1, <1>4, <2>2, <2>3
  <2> QED
    BY <1>2, <2>1, <2>2, <2>4
<1>5. ASSUME NEW c \in WindowConns, session'[c].index # None
      PROVE  indexTable'[session'[c].on][session'[c].index] = c
  <2>1. c \notin G /\ session'[c] = session[c]
    BY <1>2, <1>3, <1>5
  <2>2. PICK h \in HostConns, i \in Indices :
          h = session[c].on /\ i = session[c].index /\ indexTable[h][i] = c
    BY <1>5, <2>1, RoutingFacts
  <2>3. ASSUME NEW w \in X[h], session[w].index = i
        PROVE  FALSE
    <3>1. w \in G /\ w \in WindowConns /\ session[w] # NoSession
      BY <1>3, <2>3, NoneAssumption DEF Indices
    <3>2. session[w].on = h /\ session[w].index # None
      BY <3>1, <2>3, NoneAssumption DEF Indices
    <3>3. indexTable[h][i] = w
      BY <2>3, <3>1, <3>2, RoutingFacts
    <3> QED
      BY <2>1, <2>2, <3>1, <3>3
  <2>4. indexTable'[h][i] = c
    BY <1>1, <2>2, <2>3
  <2> QED
    BY <2>1, <2>2, <2>4
<1> QED
  BY <1>4, <1>5 DEF IndexRouting

(* A step that touches neither sessions nor indices. *)
LEMMA KeptRouting ==
  ASSUME IndexRouting, UNCHANGED <<session, indexTable>>
  PROVE  IndexRouting'
BY DEF IndexRouting

(* Releasing every window of one record, and its indices. *)
LEMMA RecordReleased ==
  ASSUME Reg, StreamsConsistent, IndexRouting, NEW h \in Registered,
         session' = Released(Windows(h)),
         indexTable' = [indexTable EXCEPT ![h] = IndicesWithout(h, Windows(h))]
  PROVE  IndexRouting'
<1>1. PICK W \in SUBSET WindowConns : W = Windows(h)
  BY RegFacts DEF Reg, TypeOK
<1>2. h \in HostConns /\ \A c \in WindowConns : c \in W <=> c \in clients /\ RecordOf(c) = h
  BY <1>1, RegFacts DEF Registered
<1> DEFINE X == [g \in HostConns |-> IF g = h THEN W ELSE {}]
<1>3. X \in [HostConns -> SUBSET W]
  OBVIOUS
<1>4. ASSUME NEW g \in HostConns
      PROVE  indexTable'[g] = IndicesWithout(g, X[g])
  <2>1. CASE g = h
    BY <1>1, <1>2, <2>1 DEF Reg, TypeOK
  <2>2. CASE g # h
    BY <1>2, <2>2 DEF IndicesWithout, Reg, TypeOK
  <2> QED
    BY <2>1, <2>2
<1>5. \A g \in HostConns : \A c \in X[g] : session[c] # NoSession => session[c].on = g
  BY <1>2, SessionFacts
<1>6. \A c \in W : session[c] # NoSession => c \in X[session[c].on]
  BY <1>2, SessionFacts
<1> HIDE DEF X
<1> QED
  BY <1>1, <1>3, <1>4, <1>5, <1>6, ReleaseRouting

(* Ending windows and records frees their indices and no others. *)
LEMMA DetachRouting ==
  ASSUME Reg, StreamsConsistent, IndexRouting, NEW W, NEW H \in SUBSET Registered,
         Detach(W, H), UNCHANGED client
  PROVE  IndexRouting'
<1>1. PICK D \in SUBSET Registered : D = Dropped(W, H)
  BY DetachEffect
<1>2. PICK G \in SUBSET WindowConns : G = Gone(W, H)
  <2>1. Gone(W, H) \subseteq clients
    BY DetachEffect
  <2> QED
    BY <2>1 DEF Reg, TypeOK
<1>3. \A c : c \in G <=> c \in clients /\ (c \in W \/ RecordOf(c) \in D)
  BY <1>1, <1>2, DetachEffect
<1>4. \A h \in Registered : Windows(h) = {c \in clients : RecordOf(c) = h}
  BY RegFacts
<1> DEFINE X == [h \in HostConns |-> LeavingFrom(W, h) \cup (IF h \in D THEN Windows(h) ELSE {})]
<1>5. \A h \in HostConns, c \in WindowConns :
        c \in X[h] <=> c \in clients /\ RecordOf(c) = h /\ (c \in W \/ h \in D)
  BY <1>4 DEF LeavingFrom, Leaving
<1>6. X \in [HostConns -> SUBSET G]
  BY <1>3, <1>4 DEF LeavingFrom, Leaving
<1>7. session' = Released(G) /\ \A h \in HostConns : indexTable'[h] = IndicesWithout(h, X[h])
  BY <1>1, <1>2 DEF Detach
<1>8. \A h \in HostConns : \A c \in X[h] : session[c] # NoSession => session[c].on = h
  BY <1>5, <1>6, SessionFacts
<1>9. \A c \in G : session[c] # NoSession => c \in X[session[c].on]
  BY <1>3, <1>5, SessionFacts
<1> HIDE DEF X
<1> QED
  BY <1>6, <1>7, <1>8, <1>9, ReleaseRouting

(* What every hand-off finds and leaves: the record that is replaced, its        *)
(* windows, and a new record that has routed nothing yet.                        *)
LEMMA HandoffRouting ==
  ASSUME Reg, StreamsConsistent, IndexRouting, NEW h \in HostConns, NEW id \in HostIds,
         NEW handoff \in BOOLEAN, NEW v2 \in BOOLEAN, HostHelloHandoff(h, id, handoff, v2)
  PROVE  IndexRouting'
<1>1. PICK old \in Registered : old = hosts[id]
  BY RegFacts DEF HostHelloHandoff
<1>2. h \notin Registered /\ h # old /\ old \in HostConns
  <2>1. HostHello(h, id, handoff, v2)
    BY DEF HostHello
  <2>2. h \notin Registered
    BY <2>1, HostHelloFacts
  <2> QED
    BY <2>2 DEF Registered
<1>3. PICK W \in SUBSET WindowConns : W = Windows(old)
  BY RegFacts DEF Reg, TypeOK
<1>4. \A c \in WindowConns : c \in W <=> c \in clients /\ RecordOf(c) = old
  BY <1>3, RegFacts
<1>5. PICK f \in FirstIndices(W, v2) :
         /\ indexTable' = [indexTable EXCEPT
              ![old] = IndicesWithout(old, W),
              ![h] = IF hostSock[h] = "open" THEN TableOf(f) ELSE @]
         /\ session' = IF hostSock[h] = "open" THEN StartedSessions(h, f) ELSE Released(W)
  BY <1>1, <1>3 DEF HostHelloHandoff
<1>6. indexTable[h] = EmptyTable
  BY DEF HostHelloHandoff, HelloAllowed, Reg, RecordsSound
<1>7. CASE hostSock[h] # "open"
  <2>1. indexTable' = [indexTable EXCEPT ![old] = IndicesWithout(old, Windows(old))]
    <3>1. indexTable' = [indexTable EXCEPT ![old] = IndicesWithout(old, W), ![h] = @]
      BY <1>5, <1>7
    <3> QED
      BY <1>2, <1>3, <3>1 DEF Reg, TypeOK
  <2>2. session' = Released(Windows(old))
    BY <1>3, <1>5, <1>7
  <2> QED
    BY <2>1, <2>2, RecordReleased
<1>8. CASE hostSock[h] = "open"
  <2>1. f \in [W -> Indices \cup {None}] /\ DOMAIN f = W
    BY DEF FirstIndices
  <2>2. \A c \in WindowConns : session'[c] = IF c \in W THEN [on |-> h, index |-> f[c]] ELSE session[c]
    BY <1>5, <1>8, <2>1 DEF StartedSessions
  <2>3. /\ indexTable'[h] = TableOf(f)
        /\ \A g \in HostConns \ {h, old} : indexTable'[g] = indexTable[g]
        /\ indexTable'[old] = IndicesWithout(old, W)
    BY <1>2, <1>5, <1>8 DEF Reg, TypeOK
  <2>4. \A c, d \in W : f[c] = f[d] /\ f[c] # None => c = d
    BY DEF FirstIndices
  <2>5. \A c \in WindowConns \ W : session[c] # NoSession => session[c].on \notin {h, old}
    BY <1>2, <1>4, SessionFacts
  <2>6. NoSession.index = None /\ NoSession.on = None
    BY DEF NoSession
  <2>7. ASSUME NEW g \in HostConns, NEW i \in Indices, indexTable'[g][i] # None
        PROVE  session'[indexTable'[g][i]] = [on |-> g, index |-> i]
    <3>1. CASE g = h
      <4>1. PICK c \in W : f[c] = i /\ indexTable'[g][i] = c
        BY <2>1, <2>3, <2>7, <3>1 DEF TableOf
      <4> QED
        BY <2>2, <3>1, <4>1
    <3>2. CASE g # h
      <4>1. indexTable'[g][i] = indexTable[g][i] /\ g = old => ~\E c \in W : session[c].index = i
        BY <2>3, <2>7, <3>2 DEF IndicesWithout
      <4>2. PICK c \in WindowConns : /\ c = indexTable[g][i] /\ session[c].on = g
                                     /\ session[c].index = i /\ session[c] = [on |-> g, index |-> i]
        BY <2>3, <2>7, <3>2, <4>1, RoutingFacts DEF IndicesWithout, IndexRouting
      <4>3. indexTable'[g][i] = indexTable[g][i]
        BY <2>3, <2>7, <3>2 DEF IndicesWithout
      <4>4. c \notin W
        <5>1. session[c].on # None
          BY <4>2, NoneAssumption
        <5>2. session[c].on = RecordOf(c)
          BY <5>1, SessionFacts
        <5> QED
          BY <1>4, <4>1, <4>2, <4>3, <5>2
      <4> QED
        BY <2>2, <4>2, <4>3, <4>4
    <3> QED
      BY <3>1, <3>2
  <2>8. ASSUME NEW c \in WindowConns, session'[c].index # None
        PROVE  indexTable'[session'[c].on][session'[c].index] = c
    <3>1. CASE c \in W
      <4>0. session'[c] = [on |-> h, index |-> f[c]] /\ f[c] \in Indices \cup {None}
        BY <2>1, <2>2, <3>1
      <4>1. session'[c].on = h /\ session'[c].index = f[c] /\ f[c] \in Indices
        BY <2>8, <4>0
      <4>2. TableOf(f)[f[c]] = CHOOSE d \in W : f[d] = f[c]
        BY <2>1, <3>1, <4>1 DEF TableOf
      <4>3. (CHOOSE d \in W : f[d] = f[c]) = c
        BY <2>4, <2>8, <3>1, <4>1
      <4> QED
        BY <2>3, <4>1, <4>2, <4>3
    <3>2. CASE c \notin W
      <4>1. session'[c] = session[c] /\ session[c].index # None
        BY <2>2, <2>8, <3>2
      <4>2. session[c] # NoSession
        BY <2>6, <4>1
      <4>3. session[c].on \in HostConns \ {h, old}
        BY <2>5, <3>2, <4>2, SessionFacts
      <4> QED
        BY <2>3, <4>1, <4>3 DEF IndexRouting
    <3> QED
      BY <3>1, <3>2
  <2> QED
    BY <2>7, <2>8 DEF IndexRouting
<1> QED
  BY <1>7, <1>8

(* The hellos of a workstation. *)
LEMMA HostHelloRouting ==
  ASSUME Reg, StreamsConsistent, IndexRouting, NEW h \in HostConns, NEW id \in HostIds,
         NEW handoff \in BOOLEAN, NEW v2 \in BOOLEAN, HostHello(h, id, handoff, v2)
  PROVE  IndexRouting'
<1>1. CASE HostHelloNew(h, id, handoff, v2)
  BY <1>1, KeptRouting DEF HostHelloNew
<1>2. CASE HostHelloReplace(h, id, handoff, v2)
  <2>1. PICK old \in Registered : old = hosts[id]
    BY <1>2, RegFacts DEF HostHelloReplace
  <2>2. Windows(old) \cap clients = Windows(old)
    BY RegFacts
  <2>3. PICK G : G = Windows(old) \cap clients
    OBVIOUS
  <2>4. session' = Released(G) /\ indexTable' = [indexTable EXCEPT ![old] = IndicesWithout(old, G)]
    BY <1>2, <2>1, <2>3 DEF HostHelloReplace
  <2> QED
    BY <2>2, <2>3, <2>4, RecordReleased
<1> QED
  BY <1>1, <1>2, HandoffRouting DEF HostHello

(* A window that is let in gets an index that led nowhere. *)
LEMMA WindowHelloRouting ==
  ASSUME Reg, StreamsConsistent, IndexRouting, NEW c \in WindowConns, NEW d \in Devices,
         NEW handoff \in BOOLEAN, WindowHello(c, d, handoff)
  PROVE  IndexRouting'
<1>1. HostOf[d] \in HostIds
  BY DeviceAssumption
<1>2. PICK h \in HostConns : h = hosts[HostOf[d]] /\ h \in Registered
  BY <1>1, RegFacts DEF WindowHello, Registered
<1>3. PICK i \in Indices \cup {None} : i = NextIndex(h)
  BY NextIndexType DEF Reg
<1>4. /\ ~Admitted(c)
      /\ session' = [session EXCEPT ![c] = [on |-> h, index |-> i]]
      /\ i = None => indexTable' = indexTable
      /\ i # None => indexTable' = [indexTable EXCEPT ![h][i] = c]
  BY <1>2, <1>3 DEF WindowHello, HelloExpected
<1>5. session[c] = NoSession /\ session[c].index = None /\ session[c].on = None
  BY <1>4 DEF Reg, RegistryConsistent, StreamsConsistent, NoSession
<1>6. /\ session'[c].on = h /\ session'[c].index = i /\ session'[c] = [on |-> h, index |-> i]
      /\ \A w \in WindowConns \ {c} : session'[w] = session[w]
  BY <1>4 DEF Reg, TypeOK
<1>7. i # None => /\ indexTable[h][i] = None /\ indexTable'[h][i] = c
  BY <1>3, <1>4, NextIndexFree DEF Reg, TypeOK
<1>8. \A g \in HostConns, j \in Indices :
        g # h \/ j # i => indexTable'[g][j] = indexTable[g][j]
  BY <1>4 DEF Reg, TypeOK
<1>9. ASSUME NEW g \in HostConns, NEW j \in Indices, indexTable'[g][j] # None
      PROVE  session'[indexTable'[g][j]] = [on |-> g, index |-> j]
  <2>1. CASE g = h /\ j = i
    BY <1>6, <1>7, <2>1, NoneAssumption DEF Indices
  <2>2. CASE g # h \/ j # i
    <3>1. PICK w \in WindowConns : /\ w = indexTable[g][j] /\ w = indexTable'[g][j]
                                   /\ session[w].on = g /\ session[w] = [on |-> g, index |-> j]
      BY <1>8, <1>9, <2>2, RoutingFacts DEF IndexRouting
    <3>2. w # c
      BY <1>5, <3>1, NoneAssumption
    <3> QED
      BY <1>6, <3>1, <3>2
  <2> QED
    BY <2>1, <2>2
<1>10. ASSUME NEW w \in WindowConns, session'[w].index # None
       PROVE  indexTable'[session'[w].on][session'[w].index] = w
  <2>1. CASE w = c
    BY <1>6, <1>7, <1>10, <2>1
  <2>2. CASE w # c
    <3>1. PICK g \in HostConns, j \in Indices :
            g = session[w].on /\ j = session[w].index /\ indexTable[g][j] = w /\ session'[w] = session[w]
      BY <1>6, <1>10, <2>2, RoutingFacts
    <3>2. g # h \/ j # i
      BY <1>7, <3>1, NoneAssumption DEF Indices
    <3> QED
      BY <1>8, <3>1, <3>2
  <2> QED
    BY <2>1, <2>2
<1> QED
  BY <1>9, <1>10 DEF IndexRouting

(* Every step keeps the routes. *)
LEMMA NextRouting ==
  Reg /\ GracePeriod /\ StreamsConsistent /\ IndexRouting /\ [Next]_vars => IndexRouting'
<1> SUFFICES ASSUME Reg, GracePeriod, StreamsConsistent, IndexRouting, [Next]_vars
             PROVE  IndexRouting'
  OBVIOUS
<1>1. ASSUME NEW W \in SUBSET WindowConns, NEW H \in SUBSET Registered, Ends(W, H)
      PROVE  IndexRouting'
  BY <1>1, DetachRouting DEF Ends
<1>2. ASSUME NEW h \in Registered, Waits(h)
      PROVE  IndexRouting'
  BY <1>2, RecordReleased DEF Waits, BeginReconnect
<1>3. CASE SocketsOnly
  BY <1>3, KeptRouting DEF SocketsOnly, registry, records
<1> QED
  BY <1>1, <1>2, <1>3, HostHelloRouting, WindowHelloRouting, StepKinds DEF StepKind

(* A v2 index leads to the one window whose session carries it, on a registered  *)
(* record only: output cannot reach another window, and frames still coming from  *)
(* a replaced connection reach nobody, whatever indices were freed and given out  *)
(* again.                                                                         *)
THEOREM RoutingHolds == Spec => []IndexRouting
<1>1. Init => IndexRouting
  <2> SUFFICES ASSUME Init PROVE IndexRouting
    OBVIOUS
  <2>1. /\ \A h \in HostConns, i \in Indices : indexTable[h][i] = None
        /\ \A c \in WindowConns : session[c].index = None
    BY DEF Init, EmptyTable, NoSession
  <2> QED
    BY <2>1 DEF IndexRouting
<1>2. Reg /\ GracePeriod /\ StreamsConsistent /\ IndexRouting /\ [Next]_vars => IndexRouting'
  BY NextRouting
<1> QED
  BY <1>1, <1>2, RegAlways, GraceHolds, StreamsHold, PTL DEF Spec
-----------------------------------------------------------------------------
(***************************************************************************)
(* A connector runs the sessions of the windows attached to it and no others,*)
(* and the relay implements Attachment.                                    *)
(***************************************************************************)

(* A record that can be reached has every window served on its own connection,   *)
(* and its connector knows them and their number; the windows of any record are  *)
(* served together or wait together.                                             *)
Serves(h) ==
  /\ WsOpen(h) =>
       /\ running[h] = Windows(h)
       /\ toldCount[h] = Cardinality(Windows(h))
       /\ \A c \in Windows(h) : session[c].on = h
  /\ \A c, d \in Windows(h) : session[c] = NoSession => session[d] = NoSession

Serving == \A h \in Registered : Serves(h)

(* A record that a step leaves alone. *)
Untouched(h) ==
  /\ Windows(h)' = Windows(h) /\ running'[h] = running[h] /\ toldCount'[h] = toldCount[h]
  /\ WsOpen(h)' => WsOpen(h)
  /\ \A c \in Windows(h) : session'[c] = session[c]

(* It serves as before. *)
LEMMA UntouchedServes ==
  ASSUME NEW h, Serves(h), Untouched(h)
  PROVE  Serves(h)'
BY DEF Serves, Untouched

(* No window is on two records. *)
LEMMA WindowsApart ==
  ASSUME Reg
  PROVE  /\ \A g, h \in Registered : g # h => Windows(g) \cap Windows(h) = {}
         /\ \A h \in Registered : h \in HostConns /\ Windows(h) \subseteq clients
         /\ clients \subseteq WindowConns
BY RegFacts DEF Reg, TypeOK, Registered

(* What is left of a record when windows W and records H end.                    *)
LEMMA EndsFacts ==
  ASSUME Reg, NEW W, NEW H \in SUBSET Registered, Ends(W, H), NEW h \in Registered'
  PROVE  /\ h \in Registered /\ h \notin Dropped(W, H)
         /\ Windows(h)' = Windows(h) \ W /\ LeavingFrom(W, h) = Windows(h) \cap W
         /\ \A c \in Windows(h) \ W : session'[c] = session[c]
         /\ WsOpen(h)' => WsOpen(h)
<1>1. Detach(W, H) /\ UNCHANGED client
  BY DEF Ends
<1>2. h \in Registered /\ h \notin Dropped(W, H) /\ Windows(h)' = Windows(h) \ W
  BY <1>1, DetachEffect
<1>3. Windows(h) = {c \in clients : RecordOf(c) = h} /\ h \in HostConns
  BY <1>2, RegFacts
<1>4. LeavingFrom(W, h) = Windows(h) \cap W
  BY <1>3 DEF LeavingFrom, Leaving
<1>5. \A c \in Windows(h) \ W : c \in WindowConns /\ c \notin Gone(W, H)
  BY <1>1, <1>2, <1>3, DetachEffect DEF Reg, TypeOK
<1>6. \A c \in Windows(h) \ W : session'[c] = session[c]
  BY <1>1, <1>5 DEF Detach, Released
<1>7. WsOpen(h)' => WsOpen(h)
  BY <1>1, <1>3 DEF WsOpen, Ends, Detach
<1> QED
  BY <1>2, <1>4, <1>6, <1>7

(* Windows and records that end leave the others served. *)
LEMMA EndsServing ==
  ASSUME Reg, Serving, NEW W, NEW H \in SUBSET Registered, Ends(W, H)
  PROVE  Serving'
<1> SUFFICES ASSUME NEW h \in Registered' PROVE Serves(h)'
  BY DEF Serving
<1>1. /\ h \in Registered /\ h \notin Dropped(W, H)
      /\ Windows(h)' = Windows(h) \ W /\ LeavingFrom(W, h) = Windows(h) \cap W
      /\ \A c \in Windows(h) \ W : session'[c] = session[c]
      /\ WsOpen(h)' => WsOpen(h)
  BY EndsFacts
<1>2. Serves(h) /\ h \in HostConns
  BY <1>1 DEF Serving, Registered
<1>3. ASSUME WsOpen(h)'
      PROVE  /\ running'[h] = Windows(h)' /\ toldCount'[h] = Cardinality(Windows(h)')
             /\ \A c \in Windows(h)' : session'[c].on = h
  <2>1. /\ running[h] = Windows(h) /\ toldCount[h] = Cardinality(Windows(h)) /\ WsOpen(h)
        /\ \A c \in Windows(h) : session[c].on = h
    BY <1>1, <1>2, <1>3 DEF Serves
  <2>2. running'[h] = running[h] \ {c \in LeavingFrom(W, h) : session[c].on = h}
    BY <1>2, <2>1 DEF Ends, Detach
  <2>3. running'[h] = Windows(h) \ W
    BY <1>1, <2>1, <2>2
  <2>4. toldCount'[h] = IF LeavingFrom(W, h) # {} THEN Cardinality(Windows(h) \ LeavingFrom(W, h))
                        ELSE toldCount[h]
    BY <1>2, <2>1 DEF Ends, Detach
  <2>5. Windows(h) \ LeavingFrom(W, h) = Windows(h) \ W
    BY <1>1
  <2>6. LeavingFrom(W, h) = {} => Windows(h) \ W = Windows(h)
    BY <1>1
  <2>7. toldCount'[h] = Cardinality(Windows(h) \ W)
    BY <2>1, <2>4, <2>5, <2>6
  <2> QED
    BY <1>1, <2>1, <2>3, <2>7
<1>4. \A c, d \in Windows(h)' : session'[c] = NoSession => session'[d] = NoSession
  BY <1>1, <1>2 DEF Serves
<1> QED
  BY <1>3, <1>4 DEF Serves

(* A record that begins to wait takes no other one with it. *)
LEMMA WaitsFacts ==
  ASSUME Reg, NEW h \in Registered, Waits(h)
  PROVE  /\ Registered' = Registered /\ hosts' = hosts /\ clients' = clients
         /\ Windows(h)' = Windows(h) /\ ~WsOpen(h)' /\ h \notin reconnecting
         /\ \A c \in Windows(h) : session'[c] = NoSession
         /\ \A g \in Registered \ {h} : Untouched(g)
         /\ \A c \in WindowConns : session'[c] = IF c \in Windows(h) THEN NoSession ELSE session[c]
<1>1. /\ UNCHANGED <<hosts, clients, host, members, running, toldCount>>
      /\ wired' = wired \ {h} /\ session' = Released(Windows(h))
      /\ \A g \in HostConns : hostSock'[g] = "open" => hostSock[g] = "open"
  BY DEF Waits, BeginReconnect
<1>2. Registered' = Registered /\ \A g \in HostConns : Windows(g)' = Windows(g)
  BY <1>1 DEF Registered, Current, Known, Windows
<1>3. \A c \in WindowConns : session'[c] = IF c \in Windows(h) THEN NoSession ELSE session[c]
  BY <1>1 DEF Released
<1>4. ASSUME NEW g \in Registered \ {h} PROVE Untouched(g)
  <2>1. \A c \in Windows(g) : c \in WindowConns /\ c \notin Windows(h)
    BY WindowsApart
  <2> QED
    BY <1>1, <1>2, <1>3, <2>1, WindowsApart DEF Untouched, WsOpen
<1>5. \A c \in Windows(h) : session'[c] = NoSession
  BY <1>3, WindowsApart
<1>6. h \notin reconnecting
  BY DEF Waits, Reg, RecordsSound
<1> QED
  BY <1>1, <1>2, <1>3, <1>4, <1>5, <1>6, WindowsApart DEF WsOpen

(* What a hello leaves of the records it does not replace. *)
LEMMA HostHelloOthers ==
  ASSUME Reg, NEW h \in HostConns, NEW id \in HostIds, NEW handoff \in BOOLEAN, NEW v2 \in BOOLEAN,
         HostHello(h, id, handoff, v2), NEW g \in Registered \ {hosts[id]}
  PROVE  g # h /\ Untouched(g)
<1>1. g # h /\ g \in HostConns /\ Known(g) /\ host'[g] = host[g] /\ host[g].set \in HostConns
      /\ Windows(g) = members[host[g].set] /\ host[g].set # None
  BY HostHelloFacts, RegFacts, NoneAssumption
<1>2. toldCount'[g] = toldCount[g]
  BY <1>1 DEF HostHello, HostHelloNew, HostHelloReplace, HostHelloHandoff, TellCount, Reg, TypeOK
<1>3. CASE HostHelloNew(h, id, handoff, v2)
  BY <1>1, <1>2, <1>3 DEF HostHelloNew, Untouched, Windows, WsOpen, sockets
<1>4. CASE hosts[id] # None
  <2>1. PICK old \in Registered : old = hosts[id]
    BY <1>4, RegFacts
  <2>2. old \in HostConns /\ host[old].set \in HostConns /\ host[g].set # host[old].set
    BY <2>1, RegFacts DEF Reg, RecordsSound
  <2>3. \A c \in Windows(g) : c \in WindowConns /\ c \notin Windows(old)
    BY <2>1, WindowsApart
  <2>4. CASE HostHelloReplace(h, id, handoff, v2)
    <3>1. /\ session' = Released(Windows(old) \cap clients)
          /\ members' = [members EXCEPT ![host[old].set] = {}] /\ running' = running
          /\ wired' = (wired \ {old}) \cup {h} /\ hostSock' = HostSocks({old})
      BY <2>1, <2>4 DEF HostHelloReplace
    <3>2. members'[host[g].set] = members[host[g].set]
      BY <1>1, <2>2, <3>1 DEF Reg, TypeOK
    <3>3. Windows(g)' = Windows(g)
      BY <1>1, <3>2 DEF Windows
    <3>4. WsOpen(g)' => WsOpen(g)
      BY <1>1, <3>1 DEF WsOpen, HostSocks, Closing
    <3> QED
      BY <1>1, <1>2, <2>3, <3>1, <3>3, <3>4 DEF Untouched, Released
  <2>5. CASE HostHelloHandoff(h, id, handoff, v2)
    <3>1. PICK W : W = Windows(old)
      OBVIOUS
    <3>2. PICK f \in FirstIndices(W, v2) :
           /\ session' = IF hostSock[h] = "open" THEN StartedSessions(h, f) ELSE Released(W)
           /\ members' = members /\ wired' = wired \cup {h} /\ hostSock' = HostSocks({old})
           /\ running' = [running EXCEPT
                ![old] = IF WsOpen(old) THEN @ \ {c \in W : session[c].on = old} ELSE @,
                ![h] = IF hostSock[h] = "open" THEN W ELSE {}]
      BY <2>1, <2>5, <3>1 DEF HostHelloHandoff
    <3>3. DOMAIN f = W
      BY DEF FirstIndices
    <3>4. Windows(g)' = Windows(g)
      BY <1>1, <3>2 DEF Windows
    <3>5. WsOpen(g)' => WsOpen(g)
      BY <1>1, <3>2 DEF WsOpen, HostSocks, Closing
    <3>6. \A c \in Windows(g) : session'[c] = session[c]
      BY <2>3, <3>1, <3>2, <3>3 DEF StartedSessions, Released
    <3>7. running'[g] = running[g]
      BY <1>1, <2>1, <2>2, <3>2 DEF Reg, TypeOK
    <3> QED
      BY <1>1, <1>2, <3>4, <3>5, <3>6, <3>7 DEF Untouched
  <2> QED
    BY <1>4, <2>4, <2>5 DEF HostHello, HostHelloNew
<1> QED
  BY <1>3, <1>4 DEF HostHello, HostHelloNew, HostHelloReplace, HostHelloHandoff

(* A hello that finds no record, or replaces one, makes a record without windows *)
(* that runs nothing.                                                            *)
LEMMA EmptyRecordServes ==
  ASSUME Reg, NEW h \in HostConns, NEW id \in HostIds, NEW handoff \in BOOLEAN, NEW v2 \in BOOLEAN,
         HostHelloNew(h, id, handoff, v2) \/ HostHelloReplace(h, id, handoff, v2)
  PROVE  Windows(h)' = {} /\ Serves(h)'
<1>1. /\ host' = [host EXCEPT ![h] = NewRecord(id, handoff, v2, h)]
      /\ running' = running /\ toldCount' = TellCount(h, 0) /\ ~Known(h)
      /\ members' = members \/ \E s : members' = [members EXCEPT ![s] = {}]
  BY DEF HostHelloNew, HostHelloReplace, HelloAllowed
<1>2. hostSock'[h] = "open" => hostSock[h] = "open"
  BY DEF HostHelloNew, HostHelloReplace, HostSocks, Closing, sockets
<1>3. members[h] = {} /\ running[h] = {}
  BY <1>1 DEF Reg, RecordsSound
<1>4. members'[h] = {}
  BY <1>1, <1>3 DEF Reg, TypeOK
<1>5. host'[h].set = h /\ h # None
  BY <1>1, NoneAssumption DEF NewRecord, Reg, TypeOK
<1>6. Windows(h)' = {}
  BY <1>4, <1>5 DEF Windows
<1>7. hostSock[h] = "open" => toldCount'[h] = 0
  BY <1>1 DEF TellCount, Reg, TypeOK
<1> QED
  BY <1>1, <1>2, <1>3, <1>6, <1>7, FS_EmptySet DEF Serves, WsOpen

(* A hand-off starts every window on the new connection, or, if that one is       *)
(* closing already, none.                                                        *)
LEMMA HandoffServes ==
  ASSUME Reg, NEW h \in HostConns, NEW id \in HostIds, NEW handoff \in BOOLEAN, NEW v2 \in BOOLEAN,
         HostHelloHandoff(h, id, handoff, v2)
  PROVE  /\ hosts[id] \in Registered /\ Windows(h)' = Windows(hosts[id]) /\ Windows(h)' # {}
         /\ clients' = clients /\ client' = client
         /\ \A c \in WindowConns : c \in Windows(h)' =>
              IF hostSock[h] = "open" THEN session'[c].on = h ELSE session'[c] = NoSession
         /\ \A c \in WindowConns : c \notin Windows(h)' => session'[c] = session[c]
         /\ Serves(h)'
<1>1. PICK old \in Registered : old = hosts[id]
  BY RegFacts DEF HostHelloHandoff
<1>2. PICK W \in SUBSET WindowConns : W = Windows(old) /\ W # {}
  BY <1>1, RegFacts DEF Reg, TypeOK, HostHelloHandoff, CanHandoff
<1>3. PICK f \in FirstIndices(W, v2) :
         /\ host' = [host EXCEPT ![h] = NewRecord(id, handoff, v2, host[old].set)]
         /\ session' = IF hostSock[h] = "open" THEN StartedSessions(h, f) ELSE Released(W)
         /\ members' = members /\ hostSock' = HostSocks({old})
         /\ running' = [running EXCEPT
              ![old] = IF WsOpen(old) THEN @ \ {c \in W : session[c].on = old} ELSE @,
              ![h] = IF hostSock[h] = "open" THEN W ELSE {}]
         /\ toldCount' = TellCount(h, Cardinality(W))
  BY <1>1, <1>2 DEF HostHelloHandoff
<1>4. host'[h].set = host[old].set /\ host[old].set # None /\ Windows(old) = members[host[old].set]
  BY <1>1, <1>3, RegFacts, NoneAssumption DEF NewRecord, Reg, TypeOK
<1>5. Windows(h)' = W
  BY <1>2, <1>3, <1>4 DEF Windows
<1>6. DOMAIN f = W
  BY DEF FirstIndices
<1>7. \A c \in WindowConns : session'[c] = IF c \in W
        THEN IF hostSock[h] = "open" THEN [on |-> h, index |-> f[c]] ELSE NoSession
        ELSE session[c]
  BY <1>3, <1>6 DEF StartedSessions, Released
<1>8. ASSUME NEW c \in W, hostSock[h] = "open"
      PROVE  session'[c].on = h /\ session'[c] # NoSession
  <2>1. session'[c] = [on |-> h, index |-> f[c]] /\ h # None
    BY <1>7, <1>8, NoneAssumption
  <2> QED
    BY <2>1 DEF NoSession
<1>9. ASSUME WsOpen(h)'
      PROVE  running'[h] = W /\ toldCount'[h] = Cardinality(W) /\ hostSock[h] = "open"
  <2>1. hostSock[h] = "open"
    BY <1>3, <1>9 DEF WsOpen, HostSocks, Closing
  <2> QED
    BY <1>3, <2>1 DEF TellCount, Reg, TypeOK
<1>10. Serves(h)'
  BY <1>5, <1>7, <1>8, <1>9 DEF Serves
<1>11. clients' = clients /\ client' = client
  BY DEF HostHelloHandoff
<1> QED
  BY <1>1, <1>2, <1>5, <1>7, <1>8, <1>10, <1>11

(* A window of device d is let in to record h, which can be reached, and served there. *)
Joins(c, d, h) ==
  /\ h \in Registered /\ h \notin reconnecting /\ WsOpen(h)
  /\ Registered' = Registered /\ hosts' = hosts /\ reconnecting' = reconnecting
  /\ c \notin clients /\ clients' = clients \cup {c}
  /\ ~Admitted(c) /\ \E b : client' = [client EXCEPT ![c] = [device |-> d, handoff |-> b]]
  /\ Windows(h)' = Windows(h) \cup {c}
  /\ session'[c].on = h /\ \A w \in WindowConns \ {c} : session'[w] = session[w]
  /\ running'[h] = running[h] \cup {c}
  /\ toldCount'[h] = Cardinality(Windows(h) \cup {c})

(* What the hello of a window changes, in the terms of the abstract Join. *)
LEMMA WindowHelloFacts ==
  ASSUME Reg, NEW c \in WindowConns, NEW d \in Devices, NEW handoff \in BOOLEAN,
         WindowHello(c, d, handoff)
  PROVE  \E h \in Registered : hosts[HostOf[d]] = h /\ Joins(c, d, h)
<1>1. PICK h \in Registered : hosts[HostOf[d]] = h /\ h \in HostConns
  BY DeviceAssumption, RegFacts DEF WindowHello, Registered
<1>2. /\ h \notin reconnecting /\ WsOpen(h) /\ ~Admitted(c)
      /\ client' = [client EXCEPT ![c] = [device |-> d, handoff |-> handoff]]
      /\ clients' = clients \cup {c} /\ UNCHANGED <<hosts, host, wired, hostSock, reconnecting>>
      /\ members' = [members EXCEPT ![host[h].set] = @ \cup {c}]
      /\ \E i : session' = [session EXCEPT ![c] = [on |-> h, index |-> i]]
      /\ running' = [running EXCEPT ![h] = @ \cup {c}]
      /\ toldCount' = [toldCount EXCEPT ![h] = Cardinality(Windows(h) \cup {c})]
  BY <1>1 DEF WindowHello, HelloExpected, sockets
<1>3. c \notin clients
  BY <1>2 DEF Reg, RegistryConsistent
<1>4. Registered' = Registered
  BY <1>2 DEF Registered, Current, Known
<1>5. host[h].set \in HostConns /\ host[h].set # None /\ Windows(h) = members[host[h].set]
  BY <1>1, RegFacts, NoneAssumption
<1>6. Windows(h)' = Windows(h) \cup {c}
  BY <1>2, <1>5 DEF Windows, Reg, TypeOK
<1>7. session'[c].on = h /\ \A w \in WindowConns \ {c} : session'[w] = session[w]
  BY <1>2 DEF Reg, TypeOK
<1>8. /\ running'[h] = running[h] \cup {c}
      /\ toldCount'[h] = Cardinality(Windows(h) \cup {c})
  BY <1>1, <1>2 DEF Reg, TypeOK
<1>9. Joins(c, d, h)
  BY <1>2, <1>3, <1>4, <1>6, <1>7, <1>8 DEF Joins
<1> QED
  BY <1>1, <1>9

(* The other records are left alone. *)
LEMMA WindowHelloOthers ==
  ASSUME Reg, NEW c \in WindowConns, NEW d \in Devices, NEW handoff \in BOOLEAN,
         WindowHello(c, d, handoff), NEW g \in Registered \ {hosts[HostOf[d]]}
  PROVE  Untouched(g)
<1>1. PICK h \in HostConns : h = hosts[HostOf[d]] /\ h \in Registered
  BY DeviceAssumption, RegFacts DEF WindowHello
<1>2. /\ UNCHANGED <<hosts, host, wired, hostSock>>
      /\ members' = [members EXCEPT ![host[h].set] = @ \cup {c}]
      /\ running' = [running EXCEPT ![h] = @ \cup {c}]
      /\ toldCount' = [toldCount EXCEPT ![h] = Cardinality(Windows(h) \cup {c})]
  BY <1>1 DEF WindowHello, sockets
<1>3. /\ host[g].set \in HostConns /\ host[g].set # None /\ Windows(g) = members[host[g].set]
      /\ host[g].set # host[h].set /\ g \in HostConns /\ g # h
  BY <1>1, RegFacts, NoneAssumption DEF Reg, RecordsSound
<1>4. Windows(g)' = Windows(g)
  BY <1>1, <1>2, <1>3, RegFacts DEF Windows, Reg, TypeOK
<1>5. c \notin clients /\ \A w \in WindowConns \ {c} : session'[w] = session[w]
  <2>1. ~Admitted(c) /\ \E r : session' = [session EXCEPT ![c] = r]
    BY <1>1 DEF WindowHello, HelloExpected
  <2> QED
    BY <2>1 DEF Reg, RegistryConsistent, TypeOK
<1>6. \A w \in Windows(g) : session'[w] = session[w]
  BY <1>5, WindowsApart
<1> QED
  BY <1>1, <1>2, <1>3, <1>4, <1>6 DEF Untouched, WsOpen, Reg, TypeOK

(* A step that only concerns sockets leaves every record alone. *)
LEMMA SocketsOnlyServing ==
  ASSUME Reg, SocketsOnly
  PROVE  /\ Registered' = Registered
         /\ \A h \in Registered : Untouched(h)
<1>1. /\ UNCHANGED <<hosts, host, members, wired, session, running, toldCount>>
      /\ \A h \in HostConns : hostSock'[h] = "open" => hostSock[h] = "open" \/ ~Known(h)
  BY DEF SocketsOnly, registry, records, wire
<1>2. Registered' = Registered /\ \A h : Windows(h)' = Windows(h)
  BY <1>1 DEF Registered, Current, Known, Windows
<1> QED
  BY <1>1, <1>2, RegFacts DEF Untouched, WsOpen

(* Every step keeps the records served. *)
LEMMA NextServing == Reg /\ GracePeriod /\ Serving /\ [Next]_vars => Serving'
<1> SUFFICES ASSUME Reg, GracePeriod, Serving, [Next]_vars PROVE Serving'
  OBVIOUS
<1>1. ASSUME NEW W \in SUBSET WindowConns, NEW H \in SUBSET Registered, Ends(W, H)
      PROVE  Serving'
  BY <1>1, EndsServing
<1>2. ASSUME NEW h \in Registered, Waits(h)
      PROVE  Serving'
  <2>1. \A g \in Registered \ {h} : Serves(g)'
    BY <1>2, WaitsFacts, UntouchedServes DEF Serving
  <2>2. Serves(h)'
    BY <1>2, WaitsFacts DEF Serves
  <2> QED
    BY <1>2, <2>1, <2>2, WaitsFacts DEF Serving
<1>3. ASSUME NEW h \in HostConns, NEW id \in HostIds, NEW handoff \in BOOLEAN, NEW v2 \in BOOLEAN,
             HostHello(h, id, handoff, v2)
      PROVE  Serving'
  <2>1. Registered' = (Registered \ {hosts[id]}) \cup {h}
    BY <1>3, HostHelloFacts
  <2>2. \A g \in Registered \ {hosts[id]} : Serves(g)'
    BY <1>3, HostHelloOthers, UntouchedServes DEF Serving
  <2>3. Serves(h)'
    BY <1>3, EmptyRecordServes, HandoffServes DEF HostHello
  <2> QED
    BY <2>1, <2>2, <2>3 DEF Serving
<1>4. ASSUME NEW c \in WindowConns, NEW d \in Devices, NEW handoff \in BOOLEAN,
             WindowHello(c, d, handoff)
      PROVE  Serving'
  <2>1. PICK h \in Registered : hosts[HostOf[d]] = h /\ Joins(c, d, h)
    BY <1>4, WindowHelloFacts
  <2>2. \A g \in Registered \ {h} : Serves(g)'
    <3>1. \A g \in Registered \ {h} : Untouched(g)
      BY <1>4, <2>1, WindowHelloOthers
    <3> QED
      BY <3>1, UntouchedServes DEF Serving
  <2>3. /\ h \in Registered /\ WsOpen(h) /\ Windows(h)' = Windows(h) \cup {c}
        /\ session'[c].on = h /\ \A w \in WindowConns \ {c} : session'[w] = session[w]
        /\ running'[h] = running[h] \cup {c}
        /\ toldCount'[h] = Cardinality(Windows(h) \cup {c}) /\ Registered' = Registered
    BY <2>1 DEF Joins
  <2>4. Serves(h) /\ Windows(h) \subseteq WindowConns /\ h # None /\ h \in HostConns
    BY <2>3, WindowsApart, NoneAssumption DEF Serving, Reg, TypeOK
  <2>5. \A w \in Windows(h) \cup {c} : session'[w].on = h
    BY <2>3, <2>4 DEF Serves
  <2>6. \A w \in Windows(h) \cup {c} : session'[w] # NoSession
    BY <2>4, <2>5 DEF NoSession
  <2>7. Serves(h)'
    BY <2>3, <2>4, <2>5, <2>6 DEF Serves
  <2> QED
    BY <2>2, <2>3, <2>7 DEF Serving
<1>5. CASE SocketsOnly
  BY <1>5, SocketsOnlyServing, UntouchedServes DEF Serving
<1> QED
  BY <1>1, <1>2, <1>3, <1>4, <1>5, StepKinds DEF StepKind

(* Serving holds in every reachable state. *)
LEMMA ServingAlways == Spec => []Serving
<1>1. Init => Serving
  <2> SUFFICES ASSUME Init PROVE Serving
    OBVIOUS
  <2>1. Registered = {}
    BY DEF Init, Registered, Current, Known, NoHost
  <2> QED
    BY <2>1 DEF Serving
<1> QED
  BY <1>1, NextServing, RegAlways, GraceHolds, PTL DEF Spec
-----------------------------------------------------------------------------
(* A connection that is open is the one its record has, unless a send threw.     *)
OpenWired == \A h \in HostConns : Known(h) /\ hostSock[h] = "open" => h \in wired

(* Every step keeps OpenWired: only a send that throws takes a record its open socket. *)
LEMMA NextOpenWired == ~SendMayThrow /\ Reg /\ GracePeriod /\ OpenWired /\ [Next]_vars => OpenWired'
<1> SUFFICES ASSUME ~SendMayThrow, Reg, GracePeriod, OpenWired, [Next]_vars PROVE OpenWired'
  OBVIOUS
<1>1. ASSUME NEW W \in SUBSET WindowConns, NEW H \in SUBSET Registered, Ends(W, H)
      PROVE  OpenWired'
  BY <1>1 DEF OpenWired, Ends, Detach, Known
<1>2. ASSUME NEW h \in Registered, Waits(h)
      PROVE  OpenWired'
  BY <1>2 DEF OpenWired, Waits, BeginReconnect, Known
<1>3. ASSUME NEW h \in HostConns, NEW id \in HostIds, NEW handoff \in BOOLEAN, NEW v2 \in BOOLEAN,
             HostHello(h, id, handoff, v2)
      PROVE  OpenWired'
  <2>1. \A g \in HostConns \ {h} : host'[g] = host[g]
    BY <1>3, HostHelloFacts
  <2>2. \/ wired' = wired \cup {h} /\ hostSock' = hostSock
        \/ \E old : /\ wired \ {old} \subseteq wired' /\ h \in wired' /\ hostSock' = HostSocks({old})
    BY <1>3 DEF HostHello, HostHelloNew, HostHelloReplace, HostHelloHandoff, sockets
  <2>3. ASSUME NEW g \in HostConns \ {h}, Known(g)', hostSock'[g] = "open"
        PROVE  g \in wired'
    BY <2>1, <2>2, <2>3 DEF OpenWired, Known, HostSocks, Closing
  <2>4. h \in wired'
    BY <2>2
  <2> QED
    BY <2>3, <2>4 DEF OpenWired
<1>4. ASSUME NEW c \in WindowConns, NEW d \in Devices, NEW handoff \in BOOLEAN,
             WindowHello(c, d, handoff)
      PROVE  OpenWired'
  BY <1>4 DEF OpenWired, WindowHello, Known, sockets
<1>5. CASE SocketsOnly
  BY <1>5 DEF OpenWired, SocketsOnly, registry, records, Known
<1> QED
  BY <1>1, <1>2, <1>3, <1>4, <1>5, StepKinds DEF StepKind

(* While a host's socket is open its connector has been told to run exactly the   *)
(* sessions of the windows attached to it, none missing after a hand-off and none  *)
(* left for a window that went away, and how many they are.  A send that throws    *)
(* ends the record and leaves its socket open, so the theorem is for sends that do *)
(* not: ws.send on an open socket reports its errors later.                        *)
THEOREM NoOrphans ==
  ASSUME ~SendMayThrow
  PROVE  Spec => []NoOrphanSessions
<1>1. Init => OpenWired
  BY DEF Init, OpenWired, Known, NoHost
<1>2. Reg /\ GracePeriod /\ OpenWired /\ [Next]_vars => OpenWired'
  BY NextOpenWired
<1>3. Reg /\ OpenWired /\ Serving => NoOrphanSessions
  BY DEF Reg, RecordsSound, OpenWired, Serving, Serves, Registered, WsOpen, NoOrphanSessions
<1> QED
  BY <1>1, <1>2, <1>3, RegAlways, GraceHolds, ServingAlways, PTL DEF Spec
-----------------------------------------------------------------------------
(* The relay implements Attachment, step by step.  The windows of a workstation  *)
(* are those of its record.                                                      *)
LEMMA OfIs ==
  ASSUME Reg, NEW i \in HostIds
  PROVE  /\ A!Of(i) = {c \in clients : HostIdOf(c) = i}
         /\ hosts[i] = None => A!Of(i) = {}
         /\ hosts[i] # None => A!Of(i) = Windows(hosts[i])
<1>1. i # None /\ clients \subseteq WindowConns
  BY NoneAssumption DEF Reg, TypeOK
<1>2. A!Of(i) = {c \in clients : HostIdOf(c) = i}
  BY <1>1 DEF A!Of, AttachedTo
<1>3. \A c \in clients : RecordOf(c) \in Registered /\ RecordOf(c) = hosts[HostIdOf(c)]
                         /\ host[RecordOf(c)].id = HostIdOf(c) /\ RecordOf(c) # None
  BY RegFacts DEF RecordOf, Reg, RegistryConsistent
<1>4. CASE hosts[i] = None
  BY <1>2, <1>3, <1>4
<1>5. CASE hosts[i] # None
  <2>1. hosts[i] \in Registered /\ host[hosts[i]].id = i
    BY <1>5, RegFacts
  <2>2. Windows(hosts[i]) = {c \in clients : RecordOf(c) = hosts[i]}
    BY <2>1, RegFacts
  <2> QED
    BY <1>2, <1>3, <1>5, <2>1, <2>2
<1> QED
  BY <1>2, <1>4, <1>5

(* The four states of a workstation, told apart by its record. *)
LEMMA StateFacts ==
  ASSUME Reg, GracePeriod, Serving, NEW i \in HostIds
  PROVE  /\ StateOf(i) = "down" <=> hosts[i] = None
         /\ StateOf(i) = "waiting" <=> hosts[i] # None /\ hosts[i] \in reconnecting
         /\ StateOf(i) \in {"waiting", "stalled"} =>
              Windows(hosts[i]) # {} /\ \A c \in Windows(hosts[i]) : session[c] = NoSession
         /\ StateOf(i) = "up" => \A c \in Windows(hosts[i]) : session[c] # NoSession
         /\ StateOf(i) \in {"down", "waiting", "stalled", "up"}
         /\ HostStates[i] = StateOf(i)
<1>1. hosts[i] # None => hosts[i] \in Registered /\ hosts[i] \in HostConns
  BY RegFacts DEF Registered
<1>2. hosts[i] # None /\ hosts[i] \in reconnecting =>
        Windows(hosts[i]) # {} /\ \A c \in Windows(hosts[i]) : session[c] = NoSession
  BY <1>1 DEF GracePeriod, CanHandoff, Registered
<1>3. hosts[i] # None => \A c, d \in Windows(hosts[i]) : session[c] = NoSession => session[d] = NoSession
  BY <1>1 DEF Serving, Serves
<1> QED
  BY <1>2, <1>3 DEF StateOf, HostStates

(* A workstation whose record a step leaves alone stays in its state. *)
LEMMA StateKept ==
  ASSUME NEW i \in HostIds, NEW h, hosts[i] = h, hosts'[i] = h,
         h # None => Untouched(h) /\ (h \in reconnecting' <=> h \in reconnecting)
  PROVE  StateOf(i)' = StateOf(i)
BY DEF StateOf, Untouched

(* Ending windows and records is a Leave. *)
LEMMA EndsLeaves ==
  ASSUME Reg, GracePeriod, Serving,
         NEW W \in SUBSET WindowConns, NEW H \in SUBSET Registered, Ends(W, H)
  PROVE  A!ANext
<1>1. PICK G : G = Gone(W, H)
  OBVIOUS
<1>2. PICK D : D = Dropped(W, H)
  OBVIOUS
<1>3. Detach(W, H) /\ UNCHANGED client
  BY DEF Ends
<1>4. /\ D \subseteq Registered
      /\ \A c : c \in G <=> c \in clients /\ (c \in W \/ RecordOf(c) \in D)
  BY <1>1, <1>2, <1>3, DetachEffect
<1>5. /\ hosts' = [i \in HostIds |-> IF hosts[i] \in D THEN None ELSE hosts[i]]
      /\ clients' = clients \ G /\ session' = Released(G) /\ reconnecting' = reconnecting
  BY <1>1, <1>2, <1>3 DEF Detach
<1>6. clients \subseteq WindowConns /\ \A c \in clients : Admitted(c) /\ HostIdOf(c) \in HostIds
  BY RegFacts DEF Reg, TypeOK, RegistryConsistent
<1>7. AttachedTo' = [c \in WindowConns |-> IF c \in G THEN None ELSE AttachedTo[c]]
  BY <1>3, <1>4, <1>5 DEF AttachedTo, HostIdOf
<1>8. Served' = Served \ G
  BY <1>5 DEF Served, Released
<1>9. LeftForGood' = LeftForGood \cup G
  BY <1>3, <1>4, <1>5, <1>6 DEF LeftForGood, Admitted
<1> DEFINE LW == Leaving(W)
           LD == {i \in HostIds : hosts[i] \in D}
<1>10. LW \in SUBSET WindowConns /\ LD \in SUBSET HostIds /\ LW = W \cap clients
  BY <1>6 DEF Leaving
<1>11. \A c \in LW : AttachedTo[c] # None
  BY <1>6, <1>10, NoneAssumption DEF AttachedTo
<1>12. A!Emptied(LW, "waiting") \subseteq LD
  <2> SUFFICES ASSUME NEW i \in HostIds, HostStates[i] = "waiting", A!Of(i) \subseteq LW
               PROVE  i \in LD
    BY DEF A!Emptied
  <2>1. hosts[i] \in Registered /\ hosts[i] \in reconnecting /\ Windows(hosts[i]) # {}
    BY StateFacts, RegFacts
  <2>2. hosts[i] # None
    BY <2>1, NoneAssumption DEF Registered
  <2>3. Windows(hosts[i]) = {c \in clients : RecordOf(c) = hosts[i]} /\ Windows(hosts[i]) \subseteq LW
    BY <2>1, <2>2, OfIs, RegFacts
  <2>4. LeavingFrom(W, hosts[i]) = Windows(hosts[i])
    BY <1>10, <2>3, Zenon DEF LeavingFrom
  <2> QED
    BY <1>2, <2>1, <2>4 DEF Dropped
<1>13. LD \cup A!Emptied(LW, "waiting") = LD
  BY <1>12
<1>14. LW \cup UNION {A!Of(i) : i \in LD} = G
  <2>1. \A i \in LD : A!Of(i) = {c \in clients : HostIdOf(c) = i}
    BY OfIs
  <2>2. \A c \in clients : HostIdOf(c) \in HostIds /\ RecordOf(c) = hosts[HostIdOf(c)]
    BY <1>6 DEF RecordOf
  <2> QED
    BY <1>4, <1>10, <2>1, <2>2
<1>15. ASSUME NEW i \in HostIds
       PROVE  StateOf(i)' = IF i \in LD THEN "down"
                            ELSE IF i \in A!Emptied(LW, "stalled") THEN "up"
                            ELSE HostStates[i]
  <2>1. CASE i \in LD
    BY <1>5, <2>1 DEF StateOf
  <2>2. CASE hosts[i] = None
    <3>1. hosts'[i] = None
      BY <1>5, <2>2
    <3>2. HostStates[i] = "down" /\ i \notin A!Emptied(LW, "stalled")
      BY <2>2, StateFacts DEF A!Emptied
    <3> QED
      BY <2>1, <3>1, <3>2 DEF StateOf
  <2>3. CASE i \notin LD /\ hosts[i] # None
    <3>1. PICK h \in Registered : h = hosts[i]
      BY <2>3, RegFacts
    <3>2. h \notin D /\ h # None
      BY <2>3, <3>1, NoneAssumption DEF Registered
    <3>3. hosts'[i] = h
      BY <1>5, <3>1, <3>2
    <3>4. h \in Registered'
      BY <1>2, <1>3, <3>1, <3>2, DetachEffect
    <3>5. Windows(h)' = Windows(h) \ W /\ \A c \in Windows(h) \ W : session'[c] = session[c]
      BY <3>4, EndsFacts
    <3>6. A!Of(i) = Windows(h) /\ Windows(h) \subseteq clients
      BY <3>1, <3>2, OfIs, RegFacts
    <3>7. i \in A!Emptied(LW, "stalled") <=> StateOf(i) = "stalled" /\ Windows(h) \ W = {}
      BY <1>10, <3>6 DEF A!Emptied, HostStates
    <3>8. StateOf(i)' = IF h \in reconnecting THEN "waiting"
                        ELSE IF \E c \in Windows(h) \ W : session[c] = NoSession THEN "stalled"
                        ELSE "up"
      BY <1>5, <3>2, <3>3, <3>5 DEF StateOf
    <3>9. StateOf(i) = IF h \in reconnecting THEN "waiting"
                       ELSE IF \E c \in Windows(h) : session[c] = NoSession THEN "stalled"
                       ELSE "up"
      BY <3>1, <3>2 DEF StateOf
    <3>10. \A c, d \in Windows(h) : session[c] = NoSession => session[d] = NoSession
      BY <3>1 DEF Serving, Serves
    <3> QED
      BY <2>3, <3>7, <3>8, <3>9, <3>10 DEF HostStates
  <2> QED
    BY <2>1, <2>2, <2>3
<1>16. HostStates' = [i \in HostIds |-> IF i \in LD THEN "down"
                                        ELSE IF i \in A!Emptied(LW, "stalled") THEN "up"
                                        ELSE HostStates[i]]
  BY <1>15 DEF HostStates
<1>17. A!Leave(LW, LD)
  <2> HIDE DEF LW, LD
  <2> QED
    BY <1>7, <1>8, <1>9, <1>11, <1>13, <1>14, <1>16 DEF A!Leave, A!Part
<1> HIDE DEF LW, LD
<1> QED
  BY <1>10, <1>17 DEF A!ANext

(* A record that begins to wait interrupts its workstation and no other. *)
LEMMA WaitsInterrupts ==
  ASSUME Reg, GracePeriod, Serving, NEW h \in Registered, Waits(h)
  PROVE  A!ANext
<1>1. PICK i \in HostIds : i = host[h].id /\ hosts[i] = h /\ h # None
  BY RegFacts, NoneAssumption DEF Registered
<1>2. /\ hosts' = hosts /\ clients' = clients /\ client' = client
      /\ reconnecting' = reconnecting \cup {h} /\ Windows(h) # {}
  BY DEF Waits, BeginReconnect, CanHandoff
<1>3. /\ \A g \in Registered \ {h} : Untouched(g)
      /\ \A c \in WindowConns : session'[c] = IF c \in Windows(h) THEN NoSession ELSE session[c]
  BY WaitsFacts
<1>4. A!Of(i) = Windows(h) /\ HostStates[i] # "down"
  BY <1>1, OfIs, StateFacts
<1>5. StateOf(i)' = "waiting"
  BY <1>1, <1>2 DEF StateOf
<1>6. ASSUME NEW j \in HostIds \ {i}
      PROVE  StateOf(j)' = HostStates[j]
  <2>1. PICK g : g = hosts[j]
    OBVIOUS
  <2>2. g # None => g \in Registered \ {h}
    BY <1>1, <2>1, RegFacts
  <2>3. StateOf(j)' = StateOf(j)
    BY <1>2, <1>3, <2>1, <2>2, StateKept
  <2> QED
    BY <2>3 DEF HostStates
<1>7. HostStates' = [HostStates EXCEPT ![i] = "waiting"]
  BY <1>5, <1>6 DEF HostStates
<1>8. Served' = Served \ A!Of(i)
  BY <1>3, <1>4 DEF Served
<1>9. AttachedTo' = AttachedTo /\ LeftForGood' = LeftForGood
  BY <1>2 DEF AttachedTo, LeftForGood, HostIdOf, Admitted
<1>10. A!Interrupt(i, "waiting")
  BY <1>2, <1>4, <1>7, <1>8, <1>9 DEF A!Interrupt
<1> QED
  BY <1>10 DEF A!ANext

(* A hello is of one workstation: the others stay in their states. *)
LEMMA HelloStates ==
  ASSUME Reg, NEW h \in HostConns, NEW id \in HostIds, NEW handoff \in BOOLEAN, NEW v2 \in BOOLEAN,
         HostHello(h, id, handoff, v2)
  PROVE  /\ HostStates' = [HostStates EXCEPT ![id] = StateOf(id)']
         /\ h # None /\ hosts'[id] = h /\ h \notin reconnecting'
<1>1. /\ \A j \in HostIds \ {id} : hosts'[j] = hosts[j]
      /\ ~Known(h) /\ hosts'[id] = h /\ reconnecting' = reconnecting
  BY HostHelloFacts DEF HostHello, HostHelloNew, HostHelloReplace, HostHelloHandoff
<1>2. h # None /\ h \notin reconnecting
  BY <1>1, NoneAssumption DEF Reg, RecordsSound
<1>3. ASSUME NEW j \in HostIds \ {id}
      PROVE  StateOf(j)' = StateOf(j)
  <2>1. PICK g : g = hosts[j]
    OBVIOUS
  <2>2. g # None => g \in Registered \ {hosts[id]}
    BY <2>1, RegFacts
  <2>3. g # None => Untouched(g)
    BY <2>2, HostHelloOthers
  <2> QED
    BY <1>1, <2>1, <2>3, StateKept
<1>4. HostStates' = [HostStates EXCEPT ![id] = StateOf(id)']
  BY <1>3 DEF HostStates
<1> QED
  BY <1>1, <1>2, <1>4

(* A hello of a workstation that is down brings it up; one that cannot hand its   *)
(* windows over is replaced and loses them.                                      *)
LEMMA HelloComesOrReplaces ==
  ASSUME Reg, GracePeriod, Serving,
         NEW h \in HostConns, NEW id \in HostIds, NEW handoff \in BOOLEAN, NEW v2 \in BOOLEAN,
         HostHelloNew(h, id, handoff, v2) \/ HostHelloReplace(h, id, handoff, v2)
  PROVE  A!ANext
<1>1. HostHello(h, id, handoff, v2)
  BY DEF HostHello
<1>2. Windows(h)' = {}
  BY EmptyRecordServes
<1>3. StateOf(id)' = "up"
  BY <1>1, <1>2, HelloStates DEF StateOf
<1>4. HostStates' = [HostStates EXCEPT ![id] = "up"]
  BY <1>1, <1>3, HelloStates
<1>5. CASE HostHelloNew(h, id, handoff, v2)
  <2>1. UNCHANGED <<clients, client, session>> /\ hosts[id] = None
    BY <1>5 DEF HostHelloNew
  <2>2. AttachedTo' = AttachedTo /\ LeftForGood' = LeftForGood /\ Served' = Served
    BY <2>1 DEF AttachedTo, LeftForGood, Served, HostIdOf, Admitted
  <2>3. HostStates[id] = "down"
    BY <2>1, StateFacts
  <2>4. A!Come(id)
    BY <1>4, <2>2, <2>3 DEF A!Come
  <2> QED
    BY <2>4 DEF A!ANext
<1>6. CASE HostHelloReplace(h, id, handoff, v2)
  <2>1. PICK G : G = Windows(hosts[id])
    OBVIOUS
  <2>2. hosts[id] # None
    BY <1>6 DEF HostHelloReplace
  <2>3. G \subseteq clients /\ G = Windows(hosts[id]) \cap clients /\ A!Of(id) = G
    BY <2>1, <2>2, OfIs, RegFacts
  <2>4. clients' = clients \ G /\ session' = Released(G) /\ client' = client
    BY <1>6, <2>3 DEF HostHelloReplace
  <2>5. clients \subseteq WindowConns /\ \A c \in clients : Admitted(c)
    BY DEF Reg, TypeOK, RegistryConsistent
  <2>6. AttachedTo' = [c \in WindowConns |-> IF c \in G THEN None ELSE AttachedTo[c]]
    BY <2>4 DEF AttachedTo, HostIdOf
  <2>7. Served' = Served \ G
    BY <2>4 DEF Served, Released
  <2>8. LeftForGood' = LeftForGood \cup G
    BY <2>3, <2>4, <2>5 DEF LeftForGood, Admitted
  <2>9. HostStates[id] # "down"
    BY <2>2, StateFacts
  <2>10. A!Replace(id)
    BY <1>4, <2>3, <2>6, <2>7, <2>8, <2>9 DEF A!Replace, A!Part
  <2> QED
    BY <2>10 DEF A!ANext
<1> QED
  BY <1>5, <1>6

(* A hand-off resumes a workstation that waits or is stalled, changes nothing for  *)
(* one that is up, and stalls any when the new connection is closing already.     *)
LEMMA HandoffResumes ==
  ASSUME Reg, GracePeriod, Serving,
         NEW h \in HostConns, NEW id \in HostIds, NEW handoff \in BOOLEAN, NEW v2 \in BOOLEAN,
         HostHelloHandoff(h, id, handoff, v2)
  PROVE  A!ANext \/ UNCHANGED A!avars
<1>1. HostHello(h, id, handoff, v2)
  BY DEF HostHello
<1>2. PICK W : W = Windows(hosts[id])
  OBVIOUS
<1>3. /\ hosts[id] \in Registered /\ Windows(h)' = W /\ W # {}
      /\ clients' = clients /\ client' = client
      /\ \A c \in WindowConns : c \in W =>
           IF hostSock[h] = "open" THEN session'[c].on = h ELSE session'[c] = NoSession
      /\ \A c \in WindowConns : c \notin W => session'[c] = session[c]
  BY <1>2, HandoffServes
<1>4. W \subseteq WindowConns /\ hosts[id] # None /\ A!Of(id) = W
  BY <1>2, <1>3, OfIs, WindowsApart, NoneAssumption DEF Registered, Reg, TypeOK
<1>5. AttachedTo' = AttachedTo /\ LeftForGood' = LeftForGood
  BY <1>3 DEF AttachedTo, LeftForGood, HostIdOf, Admitted
<1>6. StateOf(id)' = IF \E c \in W : session'[c] = NoSession THEN "stalled" ELSE "up"
  BY <1>1, <1>3, HelloStates DEF StateOf
<1>7. CASE hostSock[h] = "open"
  <2>1. \A c \in W : session'[c] # NoSession
    <3>1. h # None /\ NoSession.on = None
      BY <1>1, HelloStates DEF NoSession
    <3> QED
      BY <1>3, <1>4, <1>7, <3>1
  <2>2. HostStates' = [HostStates EXCEPT ![id] = "up"]
    BY <1>1, <1>6, <2>1, HelloStates
  <2>3. Served' = Served \cup W
    BY <1>3, <1>4, <2>1 DEF Served
  <2>4. CASE HostStates[id] \in {"waiting", "stalled"}
    <3>1. A!Resume(id)
      BY <1>4, <1>5, <2>2, <2>3, <2>4 DEF A!Resume
    <3> QED
      BY <3>1 DEF A!ANext
  <2>5. CASE HostStates[id] = "up"
    <3>1. W \subseteq Served
      BY <1>2, <1>4, <2>5, StateFacts DEF Served
    <3>2. Served' = Served
      BY <2>3, <3>1
    <3>3. HostStates' = HostStates
      BY <2>2, <2>5 DEF HostStates
    <3> QED
      BY <1>5, <3>2, <3>3 DEF A!avars
  <2> QED
    BY <1>4, <2>4, <2>5, StateFacts
<1>8. CASE hostSock[h] # "open"
  <2>1. \A c \in W : session'[c] = NoSession
    BY <1>3, <1>4, <1>8
  <2>2. HostStates' = [HostStates EXCEPT ![id] = "stalled"]
    BY <1>1, <1>3, <1>6, <2>1, HelloStates
  <2>3. Served' = Served \ W
    BY <1>3, <1>4, <2>1 DEF Served
  <2>4. HostStates[id] # "down"
    BY <1>4, StateFacts
  <2>5. A!Interrupt(id, "stalled")
    BY <1>3, <1>4, <1>5, <2>2, <2>3, <2>4 DEF A!Interrupt
  <2> QED
    BY <2>5 DEF A!ANext
<1> QED
  BY <1>7, <1>8

(* A window that is let in joins. *)
LEMMA WindowHelloJoins ==
  ASSUME Reg, GracePeriod, Serving, NEW c \in WindowConns, NEW d \in Devices,
         NEW handoff \in BOOLEAN, WindowHello(c, d, handoff)
  PROVE  A!ANext
<1>1. PICK i \in HostIds : i = HostOf[d]
  BY DeviceAssumption
<1>2. PICK h \in Registered : hosts[i] = h /\ Joins(c, d, h)
  BY <1>1, WindowHelloFacts
<1>3. /\ h \notin reconnecting /\ WsOpen(h)
      /\ hosts' = hosts /\ clients' = clients \cup {c} /\ reconnecting' = reconnecting
      /\ ~Admitted(c) /\ c \notin clients
      /\ \E b : client' = [client EXCEPT ![c] = [device |-> d, handoff |-> b]]
      /\ Windows(h)' = Windows(h) \cup {c}
      /\ session'[c].on = h /\ \A w \in WindowConns \ {c} : session'[w] = session[w]
  BY <1>2 DEF Joins
<1>4. h # None
  BY <1>2, NoneAssumption DEF Registered
<1>5. ASSUME NEW j \in HostIds \ {i}
      PROVE  StateOf(j)' = StateOf(j)
  <2>1. PICK g : g = hosts[j]
    OBVIOUS
  <2>2. g # None => g \in Registered \ {hosts[HostOf[d]]}
    BY <1>1, <1>2, <2>1, RegFacts
  <2>3. g # None => Untouched(g)
    BY <2>2, WindowHelloOthers
  <2> QED
    BY <1>3, <2>1, <2>3, StateKept
<1>6. Serves(h) /\ Windows(h) \subseteq WindowConns
  BY <1>2, WindowsApart DEF Serving, Reg, TypeOK
<1>7. \A w \in Windows(h) : session[w] # NoSession
  BY <1>3, <1>4, <1>6 DEF Serves, NoSession
<1>8. session'[c] # NoSession /\ \A w \in Windows(h) : w # c /\ session'[w] = session[w]
  <2>1. session'[c] # NoSession
    BY <1>3, <1>4 DEF NoSession
  <2> QED
    BY <1>2, <1>3, <2>1, WindowsApart
<1>9. HostStates[i] = "up" /\ StateOf(i)' = "up"
  BY <1>2, <1>3, <1>4, <1>7, <1>8 DEF StateOf, HostStates
<1>10. HostStates' = HostStates
  BY <1>5, <1>9 DEF HostStates
<1>11. AttachedTo[c] = None /\ AttachedTo' = [AttachedTo EXCEPT ![c] = i]
  <2>1. AttachedTo'[c] = i
    BY <1>1, <1>3 DEF AttachedTo, HostIdOf, Reg, TypeOK
  <2>2. \A w \in WindowConns \ {c} : AttachedTo'[w] = AttachedTo[w]
    BY <1>3 DEF AttachedTo, HostIdOf, Reg, TypeOK
  <2> QED
    BY <1>3, <2>1, <2>2 DEF AttachedTo
<1>12. Served' = Served \cup {c}
  BY <1>3, <1>8 DEF Served
<1>13. c \notin LeftForGood /\ LeftForGood' = LeftForGood
  BY <1>3 DEF LeftForGood, Admitted, Reg, TypeOK
<1>14. A!Join(c, i)
  BY <1>9, <1>10, <1>11, <1>12, <1>13 DEF A!Join
<1> QED
  BY <1>14 DEF A!ANext

(* Sockets alone change nothing. *)
LEMMA SocketsOnlyStutter ==
  ASSUME SocketsOnly
  PROVE  UNCHANGED A!avars
<1>1. UNCHANGED <<hosts, clients, client, session, reconnecting, host, members>>
  BY DEF SocketsOnly, registry, records
<1> QED
  BY <1>1 DEF A!avars, HostStates, StateOf, AttachedTo, Served, LeftForGood, HostIdOf, Admitted, Windows

(* The relay is empty at first. *)
LEMMA InitEmpty == Init => A!AInit
<1> SUFFICES ASSUME Init PROVE A!AInit
  OBVIOUS
<1>1. /\ hosts = [i \in HostIds |-> None] /\ clients = {}
      /\ \A c \in WindowConns : session[c] = NoSession /\ ~Admitted(c)
  BY DEF Init, Admitted, NoClient
<1> QED
  BY <1>1 DEF A!AInit, HostStates, StateOf, AttachedTo, Served, LeftForGood

(* The relay implements Attachment: whatever the order of hellos, closes,          *)
(* hand-offs, timeouts and sweeps, the windows of one host are served together,    *)
(* wait together, join only while it is up and leave once.                         *)
THEOREM Implements == Spec => ImplementsAttachment
<1>1. Reg /\ GracePeriod /\ Serving /\ [Next]_vars => [A!ANext]_(A!avars)
  <2> SUFFICES ASSUME Reg, GracePeriod, Serving, [Next]_vars
               PROVE  A!ANext \/ UNCHANGED A!avars
    OBVIOUS
  <2>1. ASSUME NEW h \in HostConns, NEW id \in HostIds, NEW handoff \in BOOLEAN, NEW v2 \in BOOLEAN,
               HostHello(h, id, handoff, v2)
        PROVE  A!ANext \/ UNCHANGED A!avars
    BY <2>1, HelloComesOrReplaces, HandoffResumes DEF HostHello
  <2> QED
    BY <2>1, EndsLeaves, WaitsInterrupts, WindowHelloJoins, SocketsOnlyStutter, StepKinds DEF StepKind
<1> QED
  BY <1>1, InitEmpty, RegAlways, GraceHolds, ServingAlways, PTL DEF Spec, ImplementsAttachment, A!ASpec
================================================================================
