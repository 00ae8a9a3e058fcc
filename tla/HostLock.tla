------------------------------ MODULE HostLock ------------------------------
(***************************************************************************)
(* The lock file that keeps host connectors of one workstation apart        *)
(* (packages/cli/src/connector/lock.ts).  The functions are synchronous, so *)
(* the interleaving is between processes, at each call into the file system.*)
(*                                                                         *)
(* A process takes the lock at most once; what it wrote is named by it: a   *)
(* start token tells a process from a later one with the same pid.          *)
(***************************************************************************)
EXTENDS Naturals, FiniteSets

CONSTANTS
  Procs,        \* connector processes
  Nobody

ASSUME LockAssumption == Nobody \notin Procs

VARIABLES
  file,      \* the process whose file is at lockPath, or Nobody
  written,   \* the processes that have written their file's content
  pc,        \* where each process is
  attempt    \* the attempt of the loop it is in

lockVars == <<file, written, pc, attempt>>

Taking == {"open", "writing", "read", "remove"}
Releasing == {"releasing", "unlinking"}
Over == {"refused", "failed", "released", "dead"}
Alive(p) == pc[p] \notin {"new"} \cup Over
\* readOwner: null when the file is missing or its content is not there yet.
Owner == IF file \in written THEN file ELSE Nobody

LockTypeOK ==
  /\ file \in Procs \cup {Nobody}
  /\ written \in SUBSET Procs
  /\ pc \in [Procs -> {"new", "held"} \cup Taking \cup Releasing \cup Over]
  /\ attempt \in [Procs -> 1 .. 2]

LockInit ==
  /\ file = Nobody /\ written = {}
  /\ pc = [p \in Procs |-> "new"]
  /\ attempt = [p \in Procs |-> 1]

Goto(p, l) == pc' = [pc EXCEPT ![p] = l]

(* Mutants. *)
RefusedUnlinks(p) ==                  \* stopping a refused connector removes the lock
  /\ pc[p] = "read"
  /\ Goto(p, IF Owner # Nobody /\ Alive(Owner) THEN "unlinking" ELSE "remove")
  /\ UNCHANGED <<file, written, attempt>>
DeadRefuses(p) ==                     \* whether the owner still runs is not asked
  /\ pc[p] = "read"
  /\ Goto(p, IF Owner # Nobody THEN "refused" ELSE "remove")
  /\ UNCHANGED <<file, written, attempt>>

Start(p) ==
  /\ pc[p] = "new"
  /\ Goto(p, "open")
  /\ UNCHANGED <<file, written, attempt>>

(* openSync(lockPath, 'wx'); the start token is read (a call to ps or          *)
(* PowerShell, on some systems) before the content is written.                 *)
Open(p) ==
  /\ pc[p] = "open"
  /\ IF file = Nobody THEN file' = p /\ Goto(p, "writing")
     ELSE Goto(p, "read") /\ UNCHANGED file
  /\ UNCHANGED <<written, attempt>>

Write(p) ==
  /\ pc[p] = "writing"
  /\ written' = written \cup {p}
  /\ Goto(p, "held")
  /\ UNCHANGED <<file, attempt>>

ReadOwner(p) ==
  /\ pc[p] = "read"
  /\ Goto(p, IF Owner # Nobody /\ Alive(Owner) THEN "refused" ELSE "remove")
  /\ UNCHANGED <<file, written, attempt>>

(* rmSync(lockPath): of whatever file is there by now. *)
Remove(p) ==
  /\ pc[p] = "remove"
  /\ file' = Nobody
  /\ IF attempt[p] = 1
     THEN Goto(p, "open") /\ attempt' = [attempt EXCEPT ![p] = 2]
     ELSE Goto(p, "failed") /\ UNCHANGED attempt
  /\ UNCHANGED written

Release(p) ==
  /\ pc[p] = "held"
  /\ Goto(p, "releasing")
  /\ UNCHANGED <<file, written, attempt>>

ReadBeforeUnlink(p) ==
  /\ pc[p] = "releasing"
  /\ Goto(p, IF Owner \in {Nobody, p} THEN "unlinking" ELSE "released")
  /\ UNCHANGED <<file, written, attempt>>

Unlink(p) ==
  /\ pc[p] = "unlinking"
  /\ file' = Nobody
  /\ Goto(p, "released")
  /\ UNCHANGED <<written, attempt>>

Die(p) ==
  /\ Alive(p)
  /\ Goto(p, "dead")
  /\ UNCHANGED <<file, written, attempt>>

Step(p) ==
  \/ Open(p) \/ Write(p) \/ ReadOwner(p) \/ Remove(p)
  \/ ReadBeforeUnlink(p) \/ Unlink(p)

LockNext == \E p \in Procs : Start(p) \/ Step(p) \/ Release(p) \/ Die(p)

LockSpec == LockInit /\ [][LockNext]_lockVars

(* A process that is taking or giving up the lock goes on or dies. *)
LiveLockSpec == LockSpec /\ \A p \in Procs : WF_lockVars(Step(p) \/ Die(p))
-----------------------------------------------------------------------------
Holders == {p \in Procs : pc[p] = "held"}

(* A process whose next call relies on what an earlier one found: that the file *)
(* is its own, or that nobody, or only itself, owns it.                         *)
Midway(p) == pc[p] \in {"writing", "remove", "unlinking"}

(* p alone holds the lock, its file is in place, whole, and no rival is midway. *)
Settled(p) ==
  /\ Holders = {p} /\ Owner = p
  /\ \A q \in Procs : ~Midway(q)

(* "One host connector per workstation" (lock.ts:1), as far as it goes: once one *)
(* connector holds the lock and no rival is midway, then however many contend    *)
(* for it, are refused, stop or die, in whatever order their calls fall, it keeps *)
(* the lock alone and its file stays in place until it gives it up or dies.      *)
HeldLockIsKept ==
  [][\A p \in Procs : Settled(p) /\ pc'[p] = "held" => Settled(p)']_lockVars

(* A lock that a dead process left, whole or half-written, keeps nobody out:    *)
(* the process that starts next ends up with the lock unless it dies.           *)
DeadOwnersGiveWay ==
  \A p \in Procs :
    (pc[p] = "open" /\ attempt[p] = 1 /\ \A q \in Procs \ {p} : ~Alive(q)) ~>
      (pc[p] \in {"held", "dead"} \/ \E q \in Procs \ {p} : Alive(q))
=============================================================================
