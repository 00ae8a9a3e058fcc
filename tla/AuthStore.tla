------------------------------ MODULE AuthStore ------------------------------
(***************************************************************************)
(* Who may use a relay: the workstations enrolled, the pairing codes, and    *)
(* the devices paired with them (packages/relay/src/auth-store.ts), with     *)
(* the restarts of the relay in between.                                     *)
(*                                                                         *)
(* A handler is one step and writes the file whole, by a rename; a relay     *)
(* that dies in one, or whose write throws, leaves the file of before or of  *)
(* after, as a Restart before or after the step does.  Tokens and codes      *)
(* cannot be guessed; a device id is random, so it is paired once.           *)
(***************************************************************************)
EXTENDS Naturals, FiniteSets

CONSTANTS
  Hosts, Devices, Codes,
  maxDevices, pairingTtlMs, deviceTtlMs,
  SaveEvery,      \* 60 * 1000
  MaxTime,        \* bound: the clock
  None

ASSUME AuthAssumption ==
  /\ {pairingTtlMs, deviceTtlMs, MaxTime} \subseteq Nat
  /\ {maxDevices, SaveEvery} \subseteq Nat \ {0}
  /\ None \notin Nat /\ None \notin [host : Hosts, seen : Nat]
  /\ None \notin [host : Hosts, expiresAt : Nat]
  /\ IsFiniteSet(Devices)

VARIABLES
  now,
  hosts,              \* state.hosts; saved with every change
  devices,            \* state.devices: its host, and when it was last seen
  disk,               \* the devices in the state file
  lastDeviceSaveAt,
  pairings,
  used,               \* when each device was last let in
  revoked, pushedOut  \* what became of devices

vars == <<now, hosts, devices, disk, lastDeviceSaveAt, pairings, used, revoked, pushedOut>>

Paired == {d \in Devices : devices[d] # None}

TypeOK ==
  /\ now \in Nat /\ hosts \subseteq Hosts
  /\ devices \in [Devices -> [host : Hosts, seen : Nat] \cup {None}]
  /\ disk \in [Devices -> [host : Hosts, seen : Nat] \cup {None}]
  /\ lastDeviceSaveAt \in [Devices -> Nat \cup {None}]
  /\ pairings \in [Codes -> [host : Hosts, expiresAt : Nat] \cup {None}]
  /\ used \in [Devices -> Nat \cup {None}]
  /\ revoked \subseteq Devices /\ pushedOut \subseteq Devices

Init ==
  /\ now = 0 /\ hosts = {}
  /\ devices = [d \in Devices |-> None] /\ disk = [d \in Devices |-> None]
  /\ lastDeviceSaveAt = [d \in Devices |-> None]
  /\ pairings = [c \in Codes |-> None]
  /\ used = [d \in Devices |-> None]
  /\ revoked = {} /\ pushedOut = {}

Save == disk' = devices'

\* delete state.devices[d] and lastDeviceSaveAt, for each d of D.
Deleted(D) == [d \in Devices |-> IF d \in D THEN None ELSE devices[d]]
ForgetSaves(D) ==
  lastDeviceSaveAt' = [d \in Devices |-> IF d \in D THEN None ELSE lastDeviceSaveAt[d]]

(* --- cleanup, which starting and completing a pairing begin with --- *)

\* expiresAt is set wherever lastSeenAt is, deviceTtlMs later.
Expired == {d \in Paired : devices[d].seen + deviceTtlMs <= now}

Valid == [c \in Codes |-> IF pairings[c] # None /\ pairings[c].expiresAt <= now
                          THEN None ELSE pairings[c]]

CleanDevices ==
  /\ devices' = Deleted(Expired)
  /\ ForgetSaves(Expired)
  /\ IF Expired # {} THEN Save ELSE UNCHANGED disk

\* The relay's sweep, and a pairing code that is not known or no longer valid.
Cleanup ==
  /\ CleanDevices
  /\ pairings' = Valid
  /\ UNCHANGED <<now, hosts, used, revoked, pushedOut>>

(* --- workstations --- *)

RegisterHost(h) ==
  /\ hosts' = hosts \cup {h}
  /\ disk' = devices
  /\ UNCHANGED <<now, devices, lastDeviceSaveAt, pairings, used, revoked, pushedOut>>

StartPairing(h, c) ==
  /\ h \in hosts
  /\ CleanDevices
  /\ Valid[c] = None
  /\ pairings' = [Valid EXCEPT ![c] = [host |-> h, expiresAt |-> now + pairingTtlMs]]
  /\ UNCHANGED <<now, hosts, used, revoked, pushedOut>>

(* --- devices --- *)

\* Mutant: the cap is of all devices of the relay.
DevicesOf_All(h) == Paired \ Expired

DevicesOf(h) == {d \in Paired \ Expired : devices[d].host = h}

\* Out are the devices of h that make room for one more: those seen longest ago.
MakeRoom(h, Out) ==
  LET all == DevicesOf(h) IN
  /\ Out \subseteq all
  /\ Cardinality(Out) = IF Cardinality(all) < maxDevices THEN 0
                        ELSE Cardinality(all) - maxDevices + 1
  /\ \A o \in Out, k \in all \ Out : devices[o].seen <= devices[k].seen

\* d is the new device.  The hello that brought the code may still be refused.
CompletePairing(c, d, Out) ==
  /\ Valid[c] # None /\ used[d] = None
  /\ MakeRoom(Valid[c].host, Out)
  /\ devices' = [Deleted(Expired \cup Out) EXCEPT ![d] = [host |-> Valid[c].host, seen |-> now]]
  /\ ForgetSaves(Expired \cup Out)
  /\ Save
  /\ pairings' = [Valid EXCEPT ![c] = None]
  /\ used' = [used EXCEPT ![d] = now]
  /\ pushedOut' = pushedOut \cup Out
  /\ UNCHANGED <<now, hosts, revoked>>

SaveDue(d) == lastDeviceSaveAt[d] = None \/ now - lastDeviceSaveAt[d] >= SaveEvery

\* A hello notes the device's name and address next, and saves those that changed.
NoteDeviceSeen(changed) == IF changed THEN Save ELSE UNCHANGED disk

\* Mutant: the minute runs from the last time the device was let in.
Throttle_Rearms(d, changed) ==
  /\ lastDeviceSaveAt' = [lastDeviceSaveAt EXCEPT ![d] = now]
  /\ NoteDeviceSeen(changed \/ SaveDue(d))

\* That a device was let in is saved at most once a minute.
Throttle(d, changed) ==
  IF SaveDue(d)
  THEN lastDeviceSaveAt' = [lastDeviceSaveAt EXCEPT ![d] = now] /\ Save
  ELSE UNCHANGED lastDeviceSaveAt /\ NoteDeviceSeen(changed)

\* A hello or a request with the device's token.
AuthenticateDevice(d, changed) ==
  /\ d \in Paired \ Expired
  /\ devices' = [devices EXCEPT ![d].seen = now]
  /\ Throttle(d, changed)
  /\ used' = [used EXCEPT ![d] = now]
  /\ UNCHANGED <<now, hosts, pairings, revoked, pushedOut>>

\* Mutant: the file keeps the device until something else is saved.
Revoke_Unsaved(d) ==
  /\ devices' = Deleted({d})
  /\ ForgetSaves({d})
  /\ UNCHANGED disk

Revoke(d) ==
  /\ devices' = Deleted({d})
  /\ ForgetSaves({d})
  /\ Save

RevokeDevice(d) ==
  /\ d \in Paired
  /\ Revoke(d)
  /\ revoked' = revoked \cup {d}
  /\ UNCHANGED <<now, hosts, pairings, used, pushedOut>>

(* --- the relay and its clock --- *)

\* The relay dies or is restarted: what is not in the file is gone.
Restart ==
  /\ devices' = disk
  /\ lastDeviceSaveAt' = [d \in Devices |-> None]
  /\ pairings' = [c \in Codes |-> None]
  /\ UNCHANGED <<now, hosts, disk, used, revoked, pushedOut>>

Tick ==
  /\ now < MaxTime
  /\ now' = now + 1
  /\ UNCHANGED <<hosts, devices, disk, lastDeviceSaveAt, pairings, used, revoked, pushedOut>>

Next ==
  \/ \E h \in Hosts : RegisterHost(h) \/ \E c \in Codes : StartPairing(h, c)
  \/ \E c \in Codes, d \in Devices, Out \in SUBSET Devices : CompletePairing(c, d, Out)
  \/ \E d \in Devices : RevokeDevice(d) \/ \E changed \in BOOLEAN : AuthenticateDevice(d, changed)
  \/ Cleanup \/ Restart \/ Tick

Spec == Init /\ [][Next]_vars

(* --- properties --- *)

\* A device in use stays paired: neither the throttled saves nor any restart, pairing
\* or cleanup costs it more than a minute of its time to live, unless the operator
\* revokes it or newer devices of its own workstation push it out.
StaysPaired ==
  \A d \in Devices :
    used[d] # None /\ d \notin revoked \cup pushedOut /\ now + SaveEvery <= used[d] + deviceTtlMs
      => d \in Paired \ Expired

\* A device revoked or pushed out never comes back, from memory or from the file,
\* whenever the relay dies ("Permanently invalidate a paired device").
GoneForGood == \A d \in revoked \cup pushedOut : devices[d] = None /\ disk[d] = None

\* Only a new device of the same workstation pushes one out, and one that was let in
\* longer ago than each that stays, give or take the minute a restart may lose.
OldestGivesWay ==
  [][\A d \in pushedOut' \ pushedOut : \E new \in Devices :
       /\ used[new] = None /\ used'[new] # None
       /\ devices'[new].host = devices[d].host
       /\ \A k \in Devices \ {new} :
            devices'[k] # None /\ devices'[k].host = devices[d].host
              => used[d] < used[k] + SaveEvery]_vars
=============================================================================
