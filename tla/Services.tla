------------------------------ MODULE Services ------------------------------
(***************************************************************************)
(* The processes of one workstation: a supervisor that runs the relay and   *)
(* the host connector and restarts them, the start, pair and stop commands  *)
(* that work without it, and the ledger of pids in runtime.json by which    *)
(* each finds what the others started.                                      *)
(* Source: packages/cli/src/{supervisor,service,runtime}.ts.                *)
(*                                                                         *)
(* A start token keeps a pid from naming a later process, so a process is   *)
(* named by its service and a count.  Delays (backoff, grace) are left to   *)
(* the order of events.  At most one supervisor runs at a time, and each    *)
(* supervisor event, with the spawn and the update of runtime.json it makes, *)
(* is one step: the call between spawn and persistPids is not interrupted.  *)
(* startServices reads the file, spawns and writes back what it read: two    *)
(* steps, beside a supervisor, a stop command or another start command.     *)
(***************************************************************************)
EXTENDS Naturals, FiniteSets, Functions

CONSTANTS
  Names,            \* the services
  MaxStarts,        \* bound: processes of one service
  MaxRuns,          \* bound: supervisors, one after another
  SpawnOutcomes,    \* a subset of {"runs", "throws", "errors"}
  Commands,         \* bound: the start commands at a time
  None

ASSUME ServicesAssumption ==
  /\ MaxStarts \in Nat /\ MaxRuns \in Nat
  /\ SpawnOutcomes \subseteq {"runs", "throws", "errors"}
  /\ None \notin Names \X (1 .. MaxStarts)

Procs == Names \X (1 .. MaxStarts)

VARIABLES
  phase,      \* of the supervisor
  run,        \* which supervisor it is
  strays,     \* what reclaimStrays found
  child,      \* entry.child
  timer,      \* the services with a restart timer
  stoodDown,  \* the services whose child exited with 12 or 13
  ledger,     \* runtime.json: managedPids, of services
  supPid,     \*               managedPids, of the supervisor
  field,      \*               relayPid, hostPid
  proc,       \* what became of each process
  cmd,        \* each startServices: whether it has read runtime.json, what it read
  apart       \* the processes started, or dropped from the ledger, by a
              \* startServices that was not alone (never read by the actions)

supervisor == <<phase, run, strays, child, timer, stoodDown>>
file == <<ledger, supPid, field>>
vars == <<supervisor, file, proc, cmd, apart>>

\* A told process was sent SIGTERM, a ghost is a ChildProcess that never ran.
Fates == {"unborn", "live", "told", "gone", "stood down", "ghost"}
Alive(pr) == {p \in Procs : pr[p] \in {"live", "told"}}
Fields == [Names -> Procs \cup {None}]
NoField == [n \in Names |-> None]
Idle == [at |-> "idle", ledger |-> {}, sup |-> 0, field |-> NoField, alone |-> FALSE]

TypeOK ==
  /\ phase \in {"off", "reclaiming", "up", "stopping"}
  /\ run \in 0 .. MaxRuns /\ supPid \in 0 .. MaxRuns
  /\ strays \in SUBSET Procs /\ ledger \in SUBSET Procs
  /\ timer \in SUBSET Names /\ stoodDown \in SUBSET Names
  /\ child \in Fields /\ field \in Fields
  /\ proc \in [Procs -> Fates]
  /\ cmd \in [Commands -> [at : {"idle", "read"}, ledger : SUBSET Procs, sup : 0 .. MaxRuns,
                            field : Fields, alone : BOOLEAN]]
  /\ apart \in SUBSET Procs

Init ==
  /\ phase = "off" /\ run = 0 /\ strays = {}
  /\ child = NoField /\ timer = {} /\ stoodDown = {}
  /\ ledger = {} /\ supPid = 0 /\ field = NoField
  /\ proc = [p \in Procs |-> "unborn"]
  /\ cmd = [c \in Commands |-> Idle] /\ apart = {}

CanStart(n) == \E k \in 1 .. MaxStarts : proc[<<n, k>>] = "unborn"
Fresh(n) == <<n, CHOOSE k \in 1 .. MaxStarts : proc[<<n, k>>] = "unborn">>
Become(S, was, fate) ==
  [p \in Procs |-> IF p \in S /\ proc[p] \in was THEN fate ELSE proc[p]]
Tell(S) == Become(S, {"live"}, "told")
KillLeft(S) == Become(S, {"live", "told"}, "gone")
Children == Range(child) \ {None}

(* A supervisor, a stop or another start command begins beside those that have read. *)
NotAlone == [c \in Commands |-> [cmd[c] EXCEPT !.alone = FALSE]]

-----------------------------------------------------------------------------
(* Mutants. *)
PersistOwn ==                       \* the ledger is replaced, not merged
  /\ ledger' = Range(child') \cap Alive(proc')
  /\ supPid' = run
  /\ field' = [n \in Names |->
       IF child'[n] # None /\ proc'[child'[n]] # "ghost" THEN child'[n] ELSE None]
LaunchBlind ==                      \* no reclaimStrays
  /\ phase = "off" /\ run < MaxRuns
  /\ phase' = "reclaiming" /\ run' = run + 1 /\ strays' = {}
  /\ stoodDown' = {}
  /\ cmd' = NotAlone
  /\ UNCHANGED <<child, timer, file, proc, apart>>
NoRestart(n) ==                     \* the exit handler arms no timer
  /\ stoodDown' = IF proc[child[n]] = "stood down" THEN stoodDown \cup {n} ELSE stoodDown
  /\ UNCHANGED timer
-----------------------------------------------------------------------------
(* The supervisor. *)

(* persistPids: merged into the ledger, which keeps what still runs. *)
Persist ==
  /\ ledger' = (ledger \cup Range(child')) \cap Alive(proc')
  /\ supPid' = run
  /\ field' = [n \in Names |->
       IF child'[n] # None /\ proc'[child'[n]] # "ghost" THEN child'[n] ELSE None]

(* spawnChild for the services N, where before is what became of the others:  *)
(* a child that runs, a throw that schedules a restart, or a child that only  *)
(* emits 'error'.                                                             *)
Spawn(N, before) ==
  \E o \in [N -> SpawnOutcomes] :
    LET born == {n \in N : o[n] # "throws"} IN
    /\ child' = [n \in Names |-> IF n \in born THEN Fresh(n) ELSE child[n]]
    /\ proc' = [p \in Procs |->
         IF \E n \in born : p = Fresh(n)
         THEN IF o[p[1]] = "runs" THEN "live" ELSE "ghost"
         ELSE before[p]]
    /\ timer' = (timer \ N) \cup (N \ born)
    /\ IF born = {} /\ phase = "up" THEN UNCHANGED file ELSE Persist

(* start: reclaimStrays signals every live process of the ledger. *)
Launch ==
  /\ phase = "off" /\ run < MaxRuns
  /\ phase' = "reclaiming" /\ run' = run + 1
  /\ strays' = ledger \cap Alive(proc)
  /\ proc' = Tell(strays')
  /\ stoodDown' = {}
  /\ cmd' = NotAlone
  /\ UNCHANGED <<child, timer, file, apart>>

(* The strays are gone, or are killed at the deadline; the children start. *)
Reclaimed ==
  /\ phase = "reclaiming"
  /\ \A n \in Names : CanStart(n)
  /\ phase' = "up" /\ strays' = {}
  /\ Spawn(Names, KillLeft(strays))
  /\ UNCHANGED <<run, stoodDown, cmd, apart>>

(* What the 'exit' handler decides while the supervisor is not stopping. *)
AfterExit(n) ==
  IF proc[child[n]] = "stood down"
  THEN stoodDown' = stoodDown \cup {n} /\ UNCHANGED timer
  ELSE timer' = timer \cup {n} /\ UNCHANGED stoodDown

(* Only a child that ran emits 'exit'. *)
ChildExit(n) ==
  /\ phase \in {"up", "stopping"}
  /\ child[n] # None /\ proc[child[n]] \in {"gone", "stood down"}
  /\ child' = [child EXCEPT ![n] = None]
  /\ UNCHANGED <<phase, run, strays, proc, cmd, apart>>
  /\ Persist
  /\ IF phase = "up" THEN AfterExit(n) ELSE UNCHANGED <<timer, stoodDown>>

Restart(n) ==
  /\ phase = "up" /\ n \in timer /\ CanStart(n)
  /\ Spawn({n}, proc)
  /\ UNCHANGED <<phase, run, strays, stoodDown, cmd, apart>>

(* The service manager's SIGTERM: stop, or, before the handlers are there, the *)
(* end of the supervisor.                                                      *)
Stop ==
  /\ \/ /\ phase = "up"
        /\ phase' = "stopping" /\ timer' = {}
        /\ proc' = Tell(Children)
        /\ UNCHANGED strays
     \/ /\ phase = "reclaiming"
        /\ phase' = "off" /\ strays' = {}
        /\ UNCHANGED <<timer, proc>>
  /\ UNCHANGED <<run, child, stoodDown, file, cmd, apart>>

(* The children are gone, or are killed when the grace period is over. *)
Stopped ==
  /\ phase = "stopping"
  /\ phase' = "off" /\ child' = NoField
  /\ proc' = KillLeft(Children)
  /\ ledger' = ledger \cap Alive(proc') /\ supPid' = 0 /\ field' = NoField
  /\ UNCHANGED <<run, strays, timer, stoodDown, cmd, apart>>

Crash ==
  /\ phase # "off"
  /\ phase' = "off" /\ child' = NoField /\ timer' = {} /\ strays' = {}
  /\ UNCHANGED <<run, stoodDown, file, proc, cmd, apart>>

(* A service process ends: told to or by a fault, or it stands down. *)
Die(p) ==
  /\ proc[p] \in {"live", "told"}
  /\ \E fate \in {"gone"} \cup (IF proc[p] = "live" THEN {"stood down"} ELSE {}) :
       proc' = [proc EXCEPT ![p] = fate]
  /\ UNCHANGED <<supervisor, file, cmd, apart>>
-----------------------------------------------------------------------------
(* The commands. *)

(* startServices reads runtime.json.  The start command leaves it alone when a *)
(* keep-alive manager is in use; the pair command does not.                    *)
StartRead(c) ==
  /\ cmd[c].at = "idle"
  /\ cmd' = [NotAlone EXCEPT ![c] =
       [at |-> "read", ledger |-> ledger \cap Alive(proc), sup |-> supPid, field |-> field,
        alone |-> phase = "off" /\ \A d \in Commands : cmd[d].at = "idle"]]
  /\ UNCHANGED <<supervisor, file, proc, apart>>

(* It starts every service whose recorded process was not running when it read, *)
(* and writes what it read with what it started.  Where it was not alone, that  *)
(* may be a stale copy, and another's update, begun before this write, may write *)
(* over it.                                                                     *)
StartServices(c) ==
  LET r == cmd[c]
      missing == {n \in Names : r.field[n] \notin r.ledger}
      new == {Fresh(n) : n \in missing}
  IN /\ r.at = "read"
     /\ \A n \in missing : CanStart(n)
     /\ proc' = Become(new, {"unborn"}, "live")
     /\ \/ /\ ledger' = (r.ledger \cap Alive(proc)) \cup new
           /\ supPid' = r.sup
           /\ field' = [n \in Names |-> IF n \in missing THEN Fresh(n) ELSE r.field[n]]
        \/ ~r.alone /\ UNCHANGED file
     /\ apart' = IF r.alone THEN apart ELSE apart \cup new \cup (ledger \ ledger')
     /\ cmd' = [cmd EXCEPT ![c] = Idle]
     /\ UNCHANGED supervisor

(* stopServices: SIGTERM to all the ledger names, the supervisor first.  Then  *)
(* nothing is on record.                                                       *)
StopServices ==
  /\ IF supPid = run /\ phase = "up"
     THEN /\ phase' = "stopping" /\ timer' = {}
          /\ proc' = Tell(ledger \cup Children)
          /\ UNCHANGED <<run, strays, child, stoodDown>>
     ELSE proc' = Tell(ledger) /\ UNCHANGED supervisor
  /\ ledger' = {} /\ supPid' = 0 /\ field' = NoField
  /\ cmd' = NotAlone
  /\ UNCHANGED apart

Next ==
  \/ Launch \/ Reclaimed \/ Stop \/ Stopped \/ Crash
  \/ \E n \in Names : ChildExit(n) \/ Restart(n)
  \/ \E p \in Procs : Die(p)
  \/ \E c \in Commands : StartRead(c) \/ StartServices(c)
  \/ StopServices

Spec == Init /\ [][Next]_vars

(* The exit events and the restart timers fire, and a spawn that is tried     *)
(* again and again succeeds in the end; nobody has to die, stop or start.     *)
Revive(n) == Restart(n) /\ child'[n] # None
LiveSpec ==
  /\ Spec
  /\ \A n \in Names : WF_vars(ChildExit(n)) /\ WF_vars(Restart(n)) /\ SF_vars(Revive(n))
-----------------------------------------------------------------------------
Live(n) == {p \in Procs : p[1] = n /\ proc[p] = "live"}

(* Never two copies of a service that nobody has told to stop: what a start    *)
(* command, or a supervisor that crashed, left behind is reclaimed before the  *)
(* supervisor starts its own (supervisor.ts reclaimStrays), and a start        *)
(* command does not start what runs.  Exempt is only what a start command that *)
(* was not alone started, and what it dropped from the ledger.                 *)
OneOfEach == \A n \in Names : Cardinality(Live(n) \ apart) <= 1

(* What anybody has started, and nobody has told to stop, is on the ledger when *)
(* its starter has written, and stays there whatever supervisor or command     *)
(* writes next.  "No writer can lose another writer's pids" (runtime.ts) has    *)
(* this one exception: a start command that was not alone between its read and *)
(* its write loses what it did not read.                                        *)
LosesUnread(c, p) == cmd[c].at = "read" /\ cmd'[c] = Idle /\ ~cmd[c].alone /\ p \notin cmd[c].ledger
LedgerKeeps ==
  [][\A p \in Procs :
       proc'[p] = "live" /\ (p \in ledger \/ proc[p] = "unborn") =>
         p \in ledger' \/ \E c \in Commands : LosesUnread(c, p)]_vars

(* What becomes of a service that ends under a supervisor.  One that stood down *)
(* (another instance owns this workstation, or the relay refuses its           *)
(* credentials) is not started again by that supervisor: two connectors would  *)
(* displace each other for ever.  Any other comes back, unless the supervisor  *)
(* itself ends or (bound) no more processes may be started.                    *)
RestartPolicy ==
  /\ [][\A n \in stoodDown : run' = run => child'[n] = None]_vars
  /\ \A n \in Names :
       (phase = "up" /\ \A p \in Alive(proc) : p[1] # n) ~>
         (Live(n) # {} \/ phase # "up" \/ n \in stoodDown \/ ~CanStart(n))
=============================================================================
