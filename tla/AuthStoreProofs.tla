--------------------------- MODULE AuthStoreProofs ---------------------------
(***************************************************************************)
(* Proofs about AuthStore, for any number of workstations, devices and codes *)
(* and any lengths of the times to live.                                    *)
(***************************************************************************)
EXTENDS AuthStore, TLAPS

\* The relay and the file have the same devices, and what the file has missed of the
\* last time one was let in is less than SaveEvery, also after a restart forgot it.
Follows(d) ==
  /\ devices[d] = None <=> disk[d] = None
  /\ devices[d] = None => lastDeviceSaveAt[d] = None
  /\ devices[d] # None =>
       /\ used[d] # None /\ used[d] <= now
       /\ disk[d].seen <= devices[d].seen /\ devices[d].seen <= used[d]
       /\ used[d] < disk[d].seen + SaveEvery
       /\ IF lastDeviceSaveAt[d] = None
          THEN disk[d].seen = devices[d].seen
          ELSE lastDeviceSaveAt[d] <= disk[d].seen

DiskFollows == \A d \in Devices : Follows(d)

\* A device that is gone was revoked, pushed out or not used for its time to live.
GoneRightly ==
  /\ \A d \in revoked \cup pushedOut : devices[d] = None /\ used[d] # None
  /\ \A d \in Devices :
       used[d] # None /\ devices[d] = None /\ d \notin revoked \cup pushedOut
         => now + SaveEvery > used[d] + deviceTtlMs

AuthInv == TypeOK /\ DiskFollows /\ GoneRightly

-----------------------------------------------------------------------------

\* The types of what a device's record is.
StoreType ==
  /\ devices \in [Devices -> [host : Hosts, seen : Nat] \cup {None}]
  /\ disk \in [Devices -> [host : Hosts, seen : Nat] \cup {None}]
  /\ lastDeviceSaveAt \in [Devices -> Nat \cup {None}]

(* An empty store satisfies the invariant. *)
LEMMA InitHolds == Init => AuthInv
  BY AuthAssumption DEF Init, AuthInv, TypeOK, DiskFollows, Follows, GoneRightly

\* A device past its time to live has not been let in for nearly as long.
LEMMA ExpiredUnused ==
  ASSUME AuthInv, NEW d \in Expired
  PROVE  /\ d \in Devices /\ devices[d] # None
         /\ now + SaveEvery > used[d] + deviceTtlMs
<1>1. d \in Devices /\ devices[d] # None /\ devices[d].seen + deviceTtlMs <= now
  BY DEF Expired, Paired
<1>2. Follows(d)
  BY <1>1 DEF AuthInv, DiskFollows
<1>3. /\ devices[d].seen \in Nat /\ disk[d] # None /\ disk[d].seen \in Nat
      /\ used[d] \in Nat /\ now \in Nat
  BY <1>1, <1>2 DEF AuthInv, TypeOK, Follows
<1>4. disk[d].seen <= devices[d].seen /\ used[d] < disk[d].seen + SaveEvery
  BY <1>1, <1>2 DEF Follows
<1> QED
  BY <1>1, <1>3, <1>4, AuthAssumption

\* Deleting some devices, in memory and in the file or, if there are none, in neither,
\* keeps what the two say of each other.
LEMMA DeletingFollows ==
  ASSUME AuthInv, NEW D \in SUBSET Devices,
         devices' = Deleted(D), ForgetSaves(D),
         IF D # {} THEN Save ELSE UNCHANGED disk,
         UNCHANGED <<now, used>>
  PROVE  DiskFollows' /\ StoreType'
<1>1. StoreType'
  BY DEF AuthInv, TypeOK, StoreType, Deleted, ForgetSaves, Save
<1>2. ASSUME NEW d \in Devices PROVE Follows(d)'
  <2>1. Follows(d)
    BY DEF AuthInv, DiskFollows
  <2>2. CASE d \in D
    BY <2>2 DEF Follows, Deleted, ForgetSaves, Save
  <2>3. CASE d \notin D
    <3>1. devices'[d] = devices[d] /\ lastDeviceSaveAt'[d] = lastDeviceSaveAt[d]
      BY <2>3 DEF Deleted, ForgetSaves
    <3>2. disk'[d] \in {disk[d], devices[d]}
      BY <3>1 DEF Save
    <3>3. devices[d] # None => devices[d].seen \in Nat /\ disk[d].seen \in Nat /\ used[d] \in Nat
      BY <2>1 DEF Follows, AuthInv, TypeOK
    <3>4. lastDeviceSaveAt[d] # None => lastDeviceSaveAt[d] \in Nat
      BY DEF AuthInv, TypeOK
    <3> QED
      BY <2>1, <3>1, <3>2, <3>3, <3>4, AuthAssumption DEF Follows
  <2> QED
    BY <2>2, <2>3
<1> QED
  BY <1>1, <1>2 DEF DiskFollows

\* What cleanup leaves.
LEMMA CleanupKeeps ==
  ASSUME AuthInv, CleanDevices, UNCHANGED <<now, used, revoked, pushedOut>>
  PROVE  DiskFollows' /\ StoreType' /\ GoneRightly'
<1>1. Expired \in SUBSET Devices
  BY DEF Expired, Paired
<1>2. DiskFollows' /\ StoreType'
  BY <1>1, DeletingFollows DEF CleanDevices
<1>3. ASSUME NEW d \in Devices, devices'[d] = None, devices[d] # None
      PROVE  d \in Expired
  BY <1>3 DEF CleanDevices, Deleted
<1>4. ASSUME NEW d \in revoked \cup pushedOut
      PROVE  devices'[d] = None /\ used[d] # None
  BY DEF AuthInv, TypeOK, GoneRightly, CleanDevices, Deleted
<1>5. ASSUME NEW d \in Devices, used[d] # None, devices'[d] = None, d \notin revoked \cup pushedOut
      PROVE  now + SaveEvery > used[d] + deviceTtlMs
  BY <1>5, <1>3, ExpiredUnused DEF AuthInv, GoneRightly
<1> QED
  BY <1>2, <1>4, <1>5 DEF GoneRightly

-----------------------------------------------------------------------------
(* The handlers.                                                            *)

(* cleanup drops expired devices and what is left is unchanged. *)
LEMMA CleanupStep == AuthInv /\ Cleanup => AuthInv'
<1> SUFFICES ASSUME AuthInv, Cleanup PROVE AuthInv'
  OBVIOUS
<1>1. DiskFollows' /\ StoreType' /\ GoneRightly'
  BY CleanupKeeps DEF Cleanup
<1> QED
  BY <1>1 DEF AuthInv, TypeOK, StoreType, Cleanup, Valid

(* A new pairing code, and the cleanup before it, disturbs no device. *)
LEMMA StartPairingStep ==
  ASSUME AuthInv, NEW h \in Hosts, NEW c \in Codes, StartPairing(h, c)
  PROVE  AuthInv'
<1>1. DiskFollows' /\ StoreType' /\ GoneRightly'
  BY CleanupKeeps DEF StartPairing
<1>2. now + pairingTtlMs \in Nat
  BY AuthAssumption DEF AuthInv, TypeOK
<1>3. pairings' \in [Codes -> [host : Hosts, expiresAt : Nat] \cup {None}]
  BY <1>2 DEF AuthInv, TypeOK, StartPairing, Valid
<1> QED
  BY <1>1, <1>3 DEF AuthInv, TypeOK, StoreType, StartPairing

\* A save makes the file follow at once.
LEMMA SavedFollows ==
  ASSUME AuthInv, disk' = devices, UNCHANGED <<now, devices, lastDeviceSaveAt, used>>
  PROVE  DiskFollows'
<1> SUFFICES ASSUME NEW d \in Devices PROVE Follows(d)'
  BY DEF DiskFollows
<1>1. Follows(d)
  BY DEF AuthInv, DiskFollows
<1>2. devices[d] # None => devices[d].seen \in Nat /\ disk[d].seen \in Nat /\ used[d] \in Nat
  BY <1>1 DEF Follows, AuthInv, TypeOK
<1>3. lastDeviceSaveAt[d] # None => lastDeviceSaveAt[d] \in Nat
  BY DEF AuthInv, TypeOK
<1> QED
  BY <1>1, <1>2, <1>3, AuthAssumption DEF Follows

(* Enrolling a workstation saves what memory holds. *)
LEMMA RegisterHostStep ==
  ASSUME AuthInv, NEW h \in Hosts, RegisterHost(h)
  PROVE  AuthInv'
<1>1. DiskFollows'
  BY SavedFollows DEF RegisterHost
<1> QED
  BY <1>1 DEF AuthInv, TypeOK, GoneRightly, RegisterHost

(* A restart takes the file for memory, which lags by less than a save interval. *)
LEMMA RestartStep == AuthInv /\ Restart => AuthInv'
<1> SUFFICES ASSUME AuthInv, Restart PROVE AuthInv'
  OBVIOUS
<1>1. ASSUME NEW d \in Devices PROVE Follows(d)'
  <2>1. Follows(d)
    BY DEF AuthInv, DiskFollows
  <2>2. disk[d] # None => devices[d].seen \in Nat /\ disk[d].seen \in Nat /\ used[d] \in Nat
    BY <2>1 DEF Follows, AuthInv, TypeOK
  <2> QED
    BY <2>1, <2>2 DEF Follows, Restart
<1>2. \A d \in Devices : devices'[d] = None <=> devices[d] = None
  BY DEF AuthInv, DiskFollows, Follows, Restart
<1>3. GoneRightly'
  BY <1>2 DEF AuthInv, TypeOK, GoneRightly, Restart
<1>4. TypeOK'
  BY DEF AuthInv, TypeOK, Restart
<1> QED
  BY <1>1, <1>3, <1>4 DEF AuthInv, DiskFollows

(* Time passes: what the file says of each device is still recent enough. *)
LEMMA TickStep == AuthInv /\ Tick => AuthInv'
<1> SUFFICES ASSUME AuthInv, Tick PROVE AuthInv'
  OBVIOUS
<1>1. now \in Nat /\ now' = now + 1
  BY DEF AuthInv, TypeOK, Tick
<1>2. ASSUME NEW d \in Devices PROVE Follows(d)'
  <2>1. Follows(d) /\ (devices[d] # None => used[d] \in Nat)
    BY DEF AuthInv, DiskFollows, Follows, TypeOK
  <2> QED
    BY <1>1, <2>1 DEF Follows, Tick
<1>3. ASSUME NEW d \in Devices, used[d] # None, now + SaveEvery > used[d] + deviceTtlMs
      PROVE  now' + SaveEvery > used[d] + deviceTtlMs
  BY <1>1, <1>3, AuthAssumption DEF AuthInv, TypeOK
<1>4. GoneRightly'
  BY <1>3 DEF AuthInv, GoneRightly, Tick
<1> QED
  BY <1>1, <1>2, <1>4 DEF AuthInv, DiskFollows, TypeOK, Tick

(* Revoking deletes the device in memory and in the file. *)
LEMMA RevokeDeviceStep ==
  ASSUME AuthInv, NEW d \in Devices, RevokeDevice(d)
  PROVE  AuthInv'
<1>1. devices' = Deleted({d}) /\ ForgetSaves({d}) /\ Save
  BY DEF RevokeDevice, Revoke
<1>2. DiskFollows' /\ StoreType'
  BY <1>1, DeletingFollows DEF RevokeDevice
<1>3. used[d] # None
  BY DEF RevokeDevice, Paired, AuthInv, DiskFollows, Follows
<1>4. GoneRightly'
  BY <1>1, <1>3 DEF AuthInv, TypeOK, GoneRightly, RevokeDevice, Deleted
<1> QED
  BY <1>2, <1>4 DEF AuthInv, TypeOK, StoreType, RevokeDevice

(* Letting a device in extends it, and saves unless a save was recent. *)
LEMMA AuthenticateDeviceStep ==
  ASSUME AuthInv, NEW d \in Devices, NEW changed \in BOOLEAN, AuthenticateDevice(d, changed)
  PROVE  AuthInv'
<1>1. now \in Nat /\ d \in Paired
  BY DEF AuthInv, TypeOK, AuthenticateDevice
<1>2. StoreType'
  <2>1. devices' \in [Devices -> [host : Hosts, seen : Nat] \cup {None}]
    BY <1>1 DEF AuthInv, TypeOK, AuthenticateDevice, Paired
  <2>2. disk' \in {disk, devices'}
    BY DEF AuthenticateDevice, Throttle, NoteDeviceSeen, Save
  <2>3. lastDeviceSaveAt' \in [Devices -> Nat \cup {None}]
    BY <1>1 DEF AuthInv, TypeOK, AuthenticateDevice, Throttle
  <2> QED
    BY <2>1, <2>2, <2>3 DEF StoreType, AuthInv, TypeOK
<1>3. ASSUME NEW e \in Devices PROVE Follows(e)'
  <2>1. Follows(e)
    BY DEF AuthInv, DiskFollows
  <2>2. devices[e] # None => devices[e].seen \in Nat /\ disk[e].seen \in Nat /\ used[e] \in Nat
    BY <2>1 DEF Follows, AuthInv, TypeOK
  <2>3. lastDeviceSaveAt[e] # None => lastDeviceSaveAt[e] \in Nat
    BY DEF AuthInv, TypeOK
  <2>4. disk'[e] \in {disk[e], devices'[e]}
    BY DEF AuthenticateDevice, Throttle, NoteDeviceSeen, Save
  <2>5. CASE e # d
    <3>1. devices'[e] = devices[e] /\ used'[e] = used[e] /\ now' = now
          /\ lastDeviceSaveAt'[e] = lastDeviceSaveAt[e]
      BY <2>5 DEF AuthenticateDevice, Throttle, AuthInv, TypeOK
    <3> QED
      BY <2>1, <2>2, <2>3, <2>4, <3>1, AuthAssumption DEF Follows
  <2>6. CASE e = d
    <3>1. devices'[d] # None /\ devices'[d].seen = now /\ used'[d] = now /\ now' = now
      BY <1>1, <1>2, <2>6, AuthAssumption DEF AuthenticateDevice, AuthInv, TypeOK, StoreType, Paired
    <3>2. devices[d] # None /\ disk[d] # None /\ disk[d].seen <= now
      BY <1>1, <2>1, <2>2, <2>6 DEF Paired, Follows
    <3>3. CASE disk' = devices' /\ lastDeviceSaveAt'[d] \in {now, lastDeviceSaveAt[d]}
      BY <1>1, <2>1, <2>2, <2>3, <2>6, <3>1, <3>2, <3>3, AuthAssumption DEF Follows
    <3>4. CASE ~SaveDue(d) /\ disk' = disk /\ lastDeviceSaveAt' = lastDeviceSaveAt
      <4>1. lastDeviceSaveAt[d] \in Nat /\ now - lastDeviceSaveAt[d] < SaveEvery
        BY <1>1, <2>3, <2>6, <3>4, AuthAssumption DEF SaveDue
      <4>2. lastDeviceSaveAt[d] <= disk[d].seen
        BY <2>1, <2>6, <3>2, <3>4 DEF Follows, SaveDue
      <4> QED
        BY <1>1, <2>1, <2>2, <2>6, <3>1, <3>2, <3>4, <4>1, <4>2, AuthAssumption DEF Follows
    <3>5. SaveDue(d) => disk' = devices' /\ lastDeviceSaveAt'[d] = now
      BY DEF AuthenticateDevice, Throttle, Save, AuthInv, TypeOK
    <3>6. ~SaveDue(d) => /\ lastDeviceSaveAt' = lastDeviceSaveAt
                         /\ disk' = devices' \/ disk' = disk
      BY DEF AuthenticateDevice, Throttle, NoteDeviceSeen, Save
    <3> QED
      BY <2>6, <3>3, <3>4, <3>5, <3>6
  <2> QED
    BY <2>5, <2>6
<1>4. \A e \in Devices : devices'[e] = None <=> devices[e] = None
  BY <1>1, <1>2, AuthAssumption DEF AuthenticateDevice, AuthInv, TypeOK, StoreType, Paired
<1>5. used' \in [Devices -> Nat \cup {None}] /\ \A e \in Devices : e # d => used'[e] = used[e]
  BY <1>1 DEF AuthenticateDevice, AuthInv, TypeOK
<1>6. GoneRightly'
  BY <1>1, <1>4, <1>5 DEF AuthInv, TypeOK, GoneRightly, AuthenticateDevice, Paired
<1> QED
  BY <1>2, <1>3, <1>5, <1>6 DEF AuthInv, DiskFollows, TypeOK, StoreType, AuthenticateDevice

(* A device is added, others of its workstation are pushed out, and all is saved. *)
LEMMA CompletePairingStep ==
  ASSUME AuthInv, NEW c \in Codes, NEW d \in Devices, NEW Out \in SUBSET Devices,
         CompletePairing(c, d, Out)
  PROVE  AuthInv'
<1> DEFINE gone == Expired \cup Out
           new == [host |-> Valid[c].host, seen |-> now]
<1>1. /\ now \in Nat /\ new \in [host : Hosts, seen : Nat]
      /\ gone \in SUBSET Devices /\ Out \subseteq Paired \ Expired
      /\ used[d] = None /\ devices[d] = None /\ d \notin gone
  <2>1. now \in Nat /\ Valid[c].host \in Hosts
    BY DEF AuthInv, TypeOK, CompletePairing, Valid
  <2>2. used[d] = None /\ devices[d] = None
    BY DEF CompletePairing, AuthInv, DiskFollows, Follows
  <2>3. Out \subseteq Paired \ Expired
    BY DEF CompletePairing, MakeRoom, DevicesOf
  <2> QED
    BY <2>1, <2>2, <2>3 DEF Expired, Paired
<1>2. /\ devices' = [Deleted(gone) EXCEPT ![d] = new] /\ disk' = devices'
      /\ ForgetSaves(gone) /\ used' = [used EXCEPT ![d] = now]
      /\ pushedOut' = pushedOut \cup Out /\ UNCHANGED <<now, hosts, revoked>>
  BY DEF CompletePairing, Save
<1>3. StoreType'
  BY <1>1, <1>2 DEF AuthInv, TypeOK, StoreType, Deleted, ForgetSaves
<1>4. ASSUME NEW e \in Devices
      PROVE  /\ e # d => devices'[e] = IF e \in gone THEN None ELSE devices[e]
             /\ devices'[d] = new /\ used'[d] = now /\ (e # d => used'[e] = used[e])
             /\ lastDeviceSaveAt'[e] = IF e \in gone THEN None ELSE lastDeviceSaveAt[e]
  BY <1>1, <1>2 DEF AuthInv, TypeOK, Deleted, ForgetSaves
<1>5. ASSUME NEW e \in Devices PROVE Follows(e)'
  <2>1. Follows(e)
    BY DEF AuthInv, DiskFollows
  <2>2. devices[e] # None => devices[e].seen \in Nat /\ disk[e].seen \in Nat /\ used[e] \in Nat
    BY <2>1 DEF Follows, AuthInv, TypeOK
  <2>3. lastDeviceSaveAt[e] # None => lastDeviceSaveAt[e] \in Nat
    BY DEF AuthInv, TypeOK
  <2>4. CASE e = d
    <3>1. lastDeviceSaveAt'[d] = None
      BY <1>1, <1>4, <2>1, <2>4 DEF Follows
    <3>2. devices'[d] = new /\ disk'[d] = devices'[d] /\ used'[d] = now /\ now' = now
      BY <1>2, <1>4
    <3>3. new.seen = now
      OBVIOUS
    <3> HIDE DEF new
    <3>4. new # None
      BY <1>1, AuthAssumption
    <3> QED
      BY <1>1, <2>4, <3>3, <3>4, <3>1, <3>2, AuthAssumption DEF Follows
  <2>5. CASE e # d
    <3>1. devices'[e] = (IF e \in gone THEN None ELSE devices[e]) /\ disk'[e] = devices'[e]
          /\ lastDeviceSaveAt'[e] = (IF e \in gone THEN None ELSE lastDeviceSaveAt[e])
          /\ used'[e] = used[e] /\ now' = now
      BY <1>2, <1>4, <2>5
    <3> HIDE DEF gone
    <3>2. CASE e \in gone
      BY <3>1, <3>2 DEF Follows
    <3>3. CASE e \notin gone
      BY <2>1, <2>2, <2>3, <3>1, <3>3, AuthAssumption DEF Follows
    <3> QED
      BY <3>2, <3>3
  <2> QED
    BY <2>4, <2>5
<1>6. GoneRightly'
  <2>1. \A e \in Out : devices[e] # None /\ used[e] # None
    BY <1>1 DEF Paired, AuthInv, DiskFollows, Follows
  <2>2. ASSUME NEW e \in (revoked \cup pushedOut)'
        PROVE  devices'[e] = None /\ used'[e] # None
    <3>1. e \in Devices /\ e # d /\ used[e] # None
      BY <1>1, <1>2, <2>1 DEF AuthInv, TypeOK, GoneRightly
    <3>2. devices[e] = None \/ e \in gone
      BY <1>2 DEF AuthInv, GoneRightly
    <3> QED
      BY <1>4, <3>1, <3>2
  <2>3. ASSUME NEW e \in Devices, used'[e] # None, devices'[e] = None,
               e \notin (revoked \cup pushedOut)'
        PROVE  now' + SaveEvery > used'[e] + deviceTtlMs
    <3>1. e # d /\ used'[e] = used[e] /\ now' = now
      BY <1>1, <1>2, <1>4, <2>3, AuthAssumption
    <3>2. e \in Expired \/ devices[e] = None
      BY <1>2, <1>4, <2>3, <3>1
    <3> QED
      BY <1>2, <2>3, <3>1, <3>2, ExpiredUnused DEF AuthInv, GoneRightly
  <2> QED
    BY <2>2, <2>3 DEF GoneRightly
<1>7. /\ pairings' \in [Codes -> [host : Hosts, expiresAt : Nat] \cup {None}]
      /\ used' \in [Devices -> Nat \cup {None}]
  BY <1>1, <1>2 DEF AuthInv, TypeOK, CompletePairing, Valid
<1> QED
  BY <1>1, <1>2, <1>3, <1>5, <1>6, <1>7 DEF AuthInv, DiskFollows, TypeOK, StoreType

-----------------------------------------------------------------------------

(* Every step keeps the invariant. *)
LEMMA AuthInvStep == AuthInv /\ [Next]_vars => AuthInv'
<1> SUFFICES ASSUME AuthInv, [Next]_vars PROVE AuthInv'
  OBVIOUS
<1>1. ASSUME NEW h \in Hosts, RegisterHost(h) PROVE AuthInv'
  BY <1>1, RegisterHostStep
<1>2. ASSUME NEW h \in Hosts, NEW c \in Codes, StartPairing(h, c) PROVE AuthInv'
  BY <1>2, StartPairingStep
<1>3. ASSUME NEW c \in Codes, NEW d \in Devices, NEW Out \in SUBSET Devices,
             CompletePairing(c, d, Out)
      PROVE  AuthInv'
  BY <1>3, CompletePairingStep
<1>4. ASSUME NEW d \in Devices, RevokeDevice(d) PROVE AuthInv'
  BY <1>4, RevokeDeviceStep
<1>5. ASSUME NEW d \in Devices, NEW changed \in BOOLEAN, AuthenticateDevice(d, changed)
      PROVE  AuthInv'
  BY <1>5, AuthenticateDeviceStep
<1>6. CASE Cleanup
  BY <1>6, CleanupStep
<1>7. CASE Restart
  BY <1>7, RestartStep
<1>8. CASE Tick
  BY <1>8, TickStep
<1>9. CASE UNCHANGED vars
  BY <1>9 DEF vars, AuthInv, TypeOK, DiskFollows, Follows, GoneRightly
<1> QED
  BY <1>1, <1>2, <1>3, <1>4, <1>5, <1>6, <1>7, <1>8, <1>9 DEF Next

(* Memory and file agree as AuthInv says, always: the strengthening the rest rests on. *)
THEOREM AuthInvHolds == Spec => []AuthInv
  BY InitHolds, AuthInvStep, PTL DEF Spec

\* A device in use stays paired, through the throttled saves, cleanups and restarts.
THEOREM PairingsLast == Spec => []StaysPaired
<1>1. AuthInv => StaysPaired
  <2> SUFFICES ASSUME AuthInv, NEW d \in Devices, used[d] # None, d \notin revoked \cup pushedOut,
                      now + SaveEvery <= used[d] + deviceTtlMs
               PROVE  d \in Paired \ Expired
    BY DEF StaysPaired
  <2>1. now + SaveEvery \in Nat /\ used[d] + deviceTtlMs \in Nat
    BY AuthAssumption DEF AuthInv, TypeOK
  <2>2. devices[d] # None
    BY <2>1 DEF AuthInv, GoneRightly
  <2>3. d \notin Expired
    BY <2>1, ExpiredUnused
  <2> QED
    BY <2>2, <2>3 DEF Paired
<1> QED
  BY <1>1, AuthInvHolds, PTL

\* A device revoked or pushed out never comes back, whenever the relay dies.
THEOREM GoneStaysGone == Spec => []GoneForGood
<1>1. AuthInv => GoneForGood
  BY DEF AuthInv, TypeOK, DiskFollows, Follows, GoneRightly, GoneForGood
<1> QED
  BY <1>1, AuthInvHolds, PTL

\* A device pushed out gives way to a new one of its own workstation, and was let in
\* longer ago than each that stays, give or take what a restart may lose.
THEOREM OldestGoes == Spec => OldestGivesWay
<1> DEFINE GivesWay(d) ==
      \E new \in Devices :
        /\ used[new] = None /\ used'[new] # None
        /\ devices'[new].host = devices[d].host
        /\ \A k \in Devices \ {new} :
             devices'[k] # None /\ devices'[k].host = devices[d].host
               => used[d] < used[k] + SaveEvery
<1>1. AuthInv /\ [Next]_vars => \A d \in pushedOut' \ pushedOut : GivesWay(d)
  <2> SUFFICES ASSUME AuthInv, [Next]_vars, NEW o \in pushedOut' \ pushedOut PROVE GivesWay(o)
    OBVIOUS
  <2>1. PICK c \in Codes, d \in Devices, Out \in SUBSET Devices : CompletePairing(c, d, Out)
    BY DEF Next, vars, RegisterHost, StartPairing, RevokeDevice, AuthenticateDevice, Cleanup,
           Restart, Tick
  <2> DEFINE h == Valid[c].host
  <2>2. o \in Out /\ o \in Devices /\ Out \subseteq DevicesOf(h)
    BY <2>1 DEF CompletePairing, MakeRoom
  <2>3. devices[o] # None /\ devices[o].host = h
    BY <2>2 DEF DevicesOf, Paired
  <2>4. used[d] = None /\ used'[d] = now /\ now \in Nat /\ devices[d] = None
    BY <2>1 DEF CompletePairing, AuthInv, TypeOK, DiskFollows, Follows
  <2>5. devices' = [Deleted(Expired \cup Out) EXCEPT ![d] = [host |-> h, seen |-> now]]
    BY <2>1 DEF CompletePairing
  <2>6. devices'[d].host = h
    BY <2>5 DEF Deleted
  <2>7. ASSUME NEW k \in Devices \ {d}, devices'[k] # None, devices'[k].host = h
        PROVE  used[o] < used[k] + SaveEvery
    <3>1. devices'[k] = devices[k] /\ k \notin Expired \cup Out
      BY <2>5, <2>7 DEF Deleted
    <3>2. k \in DevicesOf(h) \ Out
      BY <2>7, <3>1 DEF DevicesOf, Paired
    <3>3. devices[o].seen <= devices[k].seen
      BY <2>1, <2>2, <3>2 DEF CompletePairing, MakeRoom
    <3>4. Follows(o) /\ Follows(k) /\ devices[k] # None
      BY <2>2, <2>7, <3>1 DEF AuthInv, DiskFollows
    <3>5. /\ devices[o].seen \in Nat /\ disk[o].seen \in Nat /\ used[o] \in Nat
          /\ devices[k].seen \in Nat /\ used[k] \in Nat
      BY <2>2, <2>3, <3>4 DEF AuthInv, TypeOK, Follows
    <3>6. /\ used[o] < disk[o].seen + SaveEvery /\ disk[o].seen <= devices[o].seen
          /\ devices[k].seen <= used[k]
      BY <2>3, <3>4 DEF Follows
    <3> QED
      BY <3>3, <3>5, <3>6, AuthAssumption
  <2> QED
    BY <2>3, <2>4, <2>6, <2>7, AuthAssumption
<1>2. AuthInv /\ [Next]_vars
        => [\A d \in pushedOut' \ pushedOut : GivesWay(d)]_vars
  BY <1>1
<1> QED
  BY <1>2, AuthInvHolds, PTL DEF Spec, OldestGivesWay
=============================================================================
