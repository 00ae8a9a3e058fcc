--------------------------- MODULE ReleaseInstall ---------------------------
(***************************************************************************)
(* Updating the installed package: the release is unpacked beside it and    *)
(* swapped in by renaming directories, one call into the file system at a   *)
(* time, with the undoing of a swap that fails, the copy over a directory   *)
(* that Windows will not rename, npm as the fallback, and what the command  *)
(* and the settings screen do to the services around it.                    *)
(* Source: cli/src/updater/{release-install,in-place}.ts, updater.ts,       *)
(* update-command.ts, lifecycle.ts.                                         *)
(*                                                                         *)
(* Several updates may be under way, each in a process of its own; a process *)
(* may die at any step and a call may fail.                                 *)
(***************************************************************************)
EXTENDS Naturals, FiniteSets

CONSTANTS
  Updaters,   \* processes that update, once each
  Commands,   \* those that run `herdr-remote update`; the others are settings screens
  Parts,      \* what a release carries itself, replaced file by file by a copy
  Manifest,   \* package.json among them
  Modules,    \* dependencies npm nested in the package, which a release lacks
  Direct,     \* those a release itself depends on
  Needs,      \* what the manifest of each of them depends on
  Releases,   \* newer releases that a check may find
  MaxFaults,  \* bound: calls that fail for no reason of the model
  MaxDeaths,  \* bound: processes that die under way
  None

ASSUME InstallAssumption ==
  /\ Commands \subseteq Updaters /\ Manifest \in Parts
  /\ Direct \subseteq Modules /\ Needs \in [Modules -> SUBSET Modules]
  /\ \A S \in SUBSET Modules : \* npm nests nothing that nothing needs
       Direct \subseteq S /\ (\A m \in S : Needs[m] \subseteq S) => S = Modules
  /\ Releases \subseteq Nat \ {0, 1}
  /\ None \notin Nat \cup Modules /\ None \notin [own : [Parts -> Nat \cup {None}], modules : SUBSET Modules]
  /\ MaxFaults \in Nat /\ MaxDeaths \in Nat

VARIABLES
  windows,          \* the platform
  target,           \* the package directory
  stage, previous,  \* per updater, the directories beside it
  npmStage,         \* update-stage, which all of them share
  pc,
  version,          \* what its check found
  stopped, wasRunning,
  carried, reading, \* modules found to carry over; the one whose manifest is read next
  todo,             \* modules to look for or to move, or parts to copy
  sources,          \* npm sources left to try
  ok,               \* the outcome so far
  wanted, running,  \* services run at first; the release they run now
  faults, deaths,
  crossed           \* a package was renamed away while another looked through it

dirs == <<target, stage, previous, npmStage>>
services == <<wanted, running>>
locals == <<version, stopped, wasRunning, carried, reading>>
vars == <<windows, dirs, pc, locals, todo, sources, ok, services, faults, deaths, crossed>>

\* A package directory: the release of each part of it, and the modules nested in it.
OneRelease(tree) == tree.own[Manifest] # None /\ \A p, q \in Parts : tree.own[p] = tree.own[q]
Whole(tree) == OneRelease(tree) /\ tree.modules = Modules
Unpacked(v) == [own |-> [p \in Parts |-> v], modules |-> {}]
Installed(v) == [Unpacked(v) EXCEPT !.modules = Modules]
-----------------------------------------------------------------------------
Goto(u, label) == pc' = [pc EXCEPT ![u] = label]

(* A call that fails for no reason of the model. *)
Fault == faults < MaxFaults /\ faults' = faults + 1

(* Services come up from what is on disk; a release that is not whole does not start. *)
Starts == IF target # None /\ Whole(target) THEN target.own[Manifest] ELSE None

(* Mutants. *)
UndoRename_ModulesStay(u) ==   \* the release put back without its modules
  /\ pc[u] = "undo" /\ target = None
  /\ target' = previous[u] /\ previous' = [previous EXCEPT ![u] = None]
  /\ Goto(u, "clean")
  /\ UNCHANGED <<windows, crossed, npmStage, stage, locals, todo, sources, ok, services, faults, deaths>>
StartAgain_IfInstalled(u) ==   \* what was stopped is not started again on a failure
  /\ pc[u] = "finish" /\ ~(u \in Commands /\ ok[u])
  /\ running' = IF ok[u] /\ stopped[u] /\ running = None THEN Starts ELSE running
  /\ Goto(u, "over")
  /\ UNCHANGED <<windows, crossed, dirs, locals, todo, sources, ok, wanted, faults, deaths>>
-----------------------------------------------------------------------------
(* An update found a release.  On Windows the services stop for it. *)
Begin(u) ==
  /\ pc[u] = "idle"
  /\ \E v \in Releases : version' = [version EXCEPT ![u] = v]
  /\ wasRunning' = [wasRunning EXCEPT ![u] = running # None]
  /\ stopped' = [stopped EXCEPT ![u] = windows /\ running # None]
  /\ running' = IF windows THEN None ELSE running
  /\ \/ Goto(u, "unpack") /\ UNCHANGED sources
     \/ Goto(u, "npm") /\ sources' = [sources EXCEPT ![u] = 1] \* found on a registry
  /\ UNCHANGED <<windows, crossed, dirs, carried, reading, todo, ok, wanted, faults, deaths>>

(* Empties the stage, downloads the release and unpacks it there. *)
Unpack(u) ==
  /\ pc[u] = "unpack"
  /\ \/ /\ stage' = [stage EXCEPT ![u] = Unpacked(version[u])]
        /\ Goto(u, "inspect") /\ UNCHANGED sources
     \/ /\ UNCHANGED stage \* no answer, a broken archive, another version
        /\ sources' = [sources EXCEPT ![u] = 1] /\ Goto(u, "clean")
  /\ UNCHANGED <<windows, crossed, npmStage, target, previous, locals, todo, ok, services, faults, deaths>>

(* Whether the installed dependencies do, and which of them are carried over: *)
(* calls of their own, between which another update may rename the package.    *)
Nested == IF target = None THEN {} ELSE target.modules

NeedsNpm(u) == sources' = [sources EXCEPT ![u] = 2] /\ Goto(u, "clean") /\ UNCHANGED todo

ReadManifest(u) ==
  /\ pc[u] = "inspect"
  /\ \/ /\ target # None /\ target.own[Manifest] # None
        /\ todo' = [todo EXCEPT ![u] = Direct]
        /\ Goto(u, "match") /\ UNCHANGED sources
     \/ NeedsNpm(u) \* unreadable, or of other dependencies or commands
  /\ UNCHANGED <<windows, crossed, dirs, locals, ok, services, faults, deaths>>

Resolve(u) ==
  /\ pc[u] = "match"
  /\ \E d \in todo[u] :
       IF d \in Nested THEN todo' = [todo EXCEPT ![u] = @ \ {d}] /\ UNCHANGED <<pc, sources>>
                       ELSE NeedsNpm(u)
  /\ UNCHANGED <<windows, crossed, dirs, locals, ok, services, faults, deaths>>

Resolved(u) ==
  /\ pc[u] = "match" /\ todo[u] = {}
  /\ todo' = [todo EXCEPT ![u] = Direct]
  /\ Goto(u, "look")
  /\ UNCHANGED <<windows, crossed, dirs, locals, sources, ok, services, faults, deaths>>

\* carriedModules: existsSync, and what a module found needs itself.
LookUp(u) ==
  /\ pc[u] = "look" /\ reading[u] = None
  /\ \E m \in todo[u] :
       /\ todo' = [todo EXCEPT ![u] = @ \ {m}]
       /\ IF m \in Nested THEN /\ carried' = [carried EXCEPT ![u] = @ \cup {m}]
                               /\ reading' = [reading EXCEPT ![u] = m]
                          ELSE UNCHANGED <<carried, reading>>
  /\ UNCHANGED <<windows, crossed, dirs, pc, version, stopped, wasRunning, sources, ok, services, faults, deaths>>

ReadNeeds(u) ==
  /\ pc[u] = "look" /\ reading[u] # None
  /\ todo' = [todo EXCEPT ![u] =
       @ \cup ((IF reading[u] \in Nested THEN Needs[reading[u]] ELSE {}) \ carried[u])]
  /\ reading' = [reading EXCEPT ![u] = None]
  /\ UNCHANGED <<windows, crossed, dirs, pc, version, stopped, wasRunning, carried, sources, ok, services, faults, deaths>>

Collected(u) ==
  /\ pc[u] = "look" /\ reading[u] = None /\ todo[u] = {}
  /\ todo' = [todo EXCEPT ![u] = carried[u]]
  /\ Goto(u, "away")
  /\ UNCHANGED <<windows, crossed, dirs, locals, sources, ok, services, faults, deaths>>
-----------------------------------------------------------------------------
(* swap. *)

Failed(u) == sources' = [sources EXCEPT ![u] = 1] /\ UNCHANGED ok

RenameAway(u) ==
  /\ pc[u] = "away" /\ target # None
  /\ previous' = [previous EXCEPT ![u] = target] /\ target' = None
  /\ crossed' = (crossed \/ \E w \in Updaters \ {u} : pc[w] \in {"match", "look"})
  /\ Goto(u, "move")
  /\ UNCHANGED <<windows, npmStage, stage, locals, todo, sources, ok, services, faults, deaths>>

\* Something works in the directory: the release is copied over it instead.
RenameHeld(u) ==
  /\ pc[u] = "away" /\ windows /\ target # None
  /\ todo' = [todo EXCEPT ![u] = Parts] /\ Goto(u, "copy")
  /\ UNCHANGED <<windows, crossed, dirs, locals, sources, ok, services, faults, deaths>>

RenameFails(u) ==
  /\ pc[u] = "away"
  /\ IF target = None THEN UNCHANGED faults ELSE Fault
  /\ Failed(u) /\ Goto(u, "clean")
  /\ UNCHANGED <<windows, crossed, dirs, locals, todo, services, deaths>>

MoveModule(u) ==
  /\ pc[u] = "move"
  /\ \E m \in todo[u] \cap previous[u].modules :
       /\ previous' = [previous EXCEPT ![u].modules = @ \ {m}]
       /\ stage' = [stage EXCEPT ![u].modules = @ \cup {m}]
       /\ todo' = [todo EXCEPT ![u] = @ \ {m}]
  /\ UNCHANGED <<windows, crossed, npmStage, target, pc, locals, sources, ok, services, faults, deaths>>

RenameIn(u) ==
  /\ pc[u] = "move" /\ todo[u] = {} /\ target = None
  /\ target' = stage[u] /\ stage' = [stage EXCEPT ![u] = None]
  /\ ok' = [ok EXCEPT ![u] = TRUE]
  /\ Goto(u, "drop")
  /\ UNCHANGED <<windows, crossed, npmStage, previous, locals, todo, sources, services, faults, deaths>>

\* A module is not there or cannot be moved, or the stage cannot take the package's place.
SwapFails(u) ==
  /\ pc[u] = "move"
  /\ IF \/ ~(todo[u] \subseteq previous[u].modules)
        \/ todo[u] = {} /\ target # None
     THEN UNCHANGED faults ELSE Fault
  /\ Failed(u) /\ Goto(u, "undo")
  /\ UNCHANGED <<windows, crossed, dirs, locals, todo, services, deaths>>

UndoModule(u) ==
  /\ pc[u] = "undo"
  /\ \E m \in stage[u].modules :
       /\ stage' = [stage EXCEPT ![u].modules = @ \ {m}]
       /\ previous' = [previous EXCEPT ![u].modules = @ \cup {m}]
  /\ UNCHANGED <<windows, crossed, npmStage, target, pc, locals, todo, sources, ok, services, faults, deaths>>

UndoRename(u) ==
  /\ pc[u] = "undo" /\ stage[u].modules = {} /\ target = None
  /\ target' = previous[u] /\ previous' = [previous EXCEPT ![u] = None]
  /\ Goto(u, "clean")
  /\ UNCHANGED <<windows, crossed, npmStage, stage, locals, todo, sources, ok, services, faults, deaths>>

UndoFails(u) ==
  /\ pc[u] = "undo"
  /\ IF stage[u].modules = {} /\ target # None THEN UNCHANGED faults ELSE Fault
  /\ Goto(u, "clean")
  /\ UNCHANGED <<windows, crossed, dirs, locals, todo, sources, ok, services, deaths>>

DropPrevious(u) ==
  /\ pc[u] = "drop"
  /\ \/ previous' = [previous EXCEPT ![u] = None] /\ UNCHANGED faults
     \/ UNCHANGED previous /\ Fault
  /\ Goto(u, "clean")
  /\ UNCHANGED <<windows, crossed, npmStage, target, stage, locals, todo, sources, ok, services, deaths>>
-----------------------------------------------------------------------------
(* replaceTree: the files of a stage, over those of the package. *)

ByNpm(u) == sources[u] # None
Source(u) == IF ByNpm(u) THEN npmStage ELSE stage[u]

CopyPart(u) ==
  /\ pc[u] = "copy" /\ target # None /\ Source(u) # None
  /\ \E p \in todo[u] :
       /\ target' = [target EXCEPT !.own[p] = Source(u).own[p]]
       /\ todo' = [todo EXCEPT ![u] = @ \ {p}]
  /\ UNCHANGED <<windows, crossed, npmStage, stage, previous, pc, locals, sources, ok, services, faults, deaths>>

\* A running program's file is renamed aside first.
SetAside(u) ==
  /\ pc[u] = "copy" /\ target # None
  /\ \E p \in todo[u] :
       /\ target.own[p] # None
       /\ target' = [target EXCEPT !.own[p] = None]
  /\ UNCHANGED <<windows, crossed, npmStage, stage, previous, pc, locals, todo, sources, ok, services, faults, deaths>>

CopyFails(u) ==
  /\ pc[u] = "copy" /\ todo[u] # {}
  /\ IF target = None \/ Source(u) = None THEN UNCHANGED faults ELSE Fault
  /\ IF ByNpm(u) THEN Goto(u, "tidy") /\ UNCHANGED sources
                 ELSE Goto(u, "clean") /\ sources' = [sources EXCEPT ![u] = 1]
  /\ UNCHANGED <<windows, crossed, dirs, locals, todo, ok, services, deaths>>

\* Whatever the release does not have goes unless it is held, but for the modules
\* carried over.
CopyEnds(u) ==
  /\ pc[u] = "copy" /\ todo[u] = {}
  /\ \E kept \in SUBSET Nested :
       /\ Nested \cap carried[u] \subseteq kept
       /\ target' = IF target = None THEN None
                    ELSE [target EXCEPT !.modules = IF ByNpm(u) THEN Modules ELSE kept]
  /\ ok' = [ok EXCEPT ![u] = TRUE] /\ Goto(u, IF ByNpm(u) THEN "tidy" ELSE "clean")
  /\ UNCHANGED <<windows, crossed, npmStage, stage, previous, locals, todo, sources, services, faults, deaths>>

(* The stage goes at the end, whatever the outcome. *)
Continue(u) == Goto(u, IF ok[u] \/ sources[u] = 0 THEN "verify" ELSE "npm")

CleanStage(u) ==
  /\ pc[u] = "clean"
  /\ \/ stage' = [stage EXCEPT ![u] = None] /\ UNCHANGED faults
     \/ stage[u] # None /\ UNCHANGED stage /\ Fault
  /\ Continue(u)
  /\ UNCHANGED <<windows, crossed, npmStage, target, previous, locals, todo, sources, ok, services, deaths>>

CleanNpmStage(u) ==
  /\ pc[u] = "tidy"
  /\ \/ npmStage' = None /\ UNCHANGED faults
     \/ npmStage # None /\ UNCHANGED npmStage /\ Fault
  /\ Continue(u)
  /\ UNCHANGED <<windows, crossed, target, stage, previous, locals, todo, sources, ok, services, deaths>>
-----------------------------------------------------------------------------
(* performUpdate's fallback.  npm replaces the package as a whole or not at all; *)
(* where Windows holds it, npm fills a stage that is copied over it.              *)
Npm(u) ==
  /\ pc[u] = "npm"
  /\ sources' = [sources EXCEPT ![u] = @ - 1]
  /\ \/ /\ target' = Installed(version[u])
        /\ ok' = [ok EXCEPT ![u] = TRUE] /\ Goto(u, "verify")
     \/ /\ UNCHANGED <<target, ok>>
        /\ \/ Goto(u, "verify")
           \/ sources[u] > 1 /\ Goto(u, "npm")
           \/ windows /\ target # None /\ Goto(u, "empty")
  /\ UNCHANGED <<windows, crossed, npmStage, stage, previous, locals, todo, services, faults, deaths>>

\* installInPlace.  What is left of an earlier stage goes first: where that throws
\* nobody catches it, but the settings screen starts what it had stopped.
EmptyNpmStage(u) ==
  /\ pc[u] = "empty"
  /\ \/ npmStage' = None /\ Goto(u, "fill") /\ UNCHANGED faults
     \/ /\ npmStage # None /\ UNCHANGED npmStage /\ Fault
        /\ Goto(u, IF u \in Commands THEN "thrown" ELSE "finish")
  /\ UNCHANGED <<windows, crossed, target, stage, previous, locals, todo, sources, ok, services, deaths>>

FillNpmStage(u) ==
  /\ pc[u] = "fill"
  /\ \/ /\ npmStage' = Installed(version[u])
        /\ todo' = [todo EXCEPT ![u] = Parts] /\ Goto(u, "copy")
     \/ UNCHANGED <<npmStage, todo>> /\ Goto(u, "tidy")
  /\ UNCHANGED <<windows, crossed, target, stage, previous, locals, sources, ok, services, faults, deaths>>

(* verifiedInstall: success is what is on disk afterwards. *)
Verify(u) ==
  /\ pc[u] = "verify"
  /\ ok' = [ok EXCEPT ![u] =
       @ /\ ~(/\ target # None /\ target.own[Manifest] # None
              /\ target.own[Manifest] < version[u])]
  /\ Goto(u, "finish")
  /\ UNCHANGED <<windows, crossed, dirs, locals, todo, sources, services, faults, deaths>>

(* runUpdate restarts with the release installed, or starts again what it had *)
(* stopped; whileServicesStopped of the settings screen only starts again.    *)
Restart(u) ==
  /\ pc[u] = "finish" /\ u \in Commands /\ ok[u]
  /\ wasRunning[u] => Starts # None
  /\ running' = IF wasRunning[u] THEN Starts ELSE running
  /\ Goto(u, "over")
  /\ UNCHANGED <<windows, crossed, dirs, locals, todo, sources, ok, wanted, faults, deaths>>

\* It fails or takes too long, at whatever point, and the update is no success.
RestartFails(u) ==
  /\ pc[u] = "finish" /\ u \in Commands /\ ok[u] /\ wasRunning[u]
  /\ IF Starts = None THEN UNCHANGED faults ELSE Fault
  /\ running' \in {running, None, Starts}
  /\ ok' = [ok EXCEPT ![u] = FALSE] /\ Goto(u, "down")
  /\ UNCHANGED <<windows, crossed, dirs, locals, todo, sources, wanted, deaths>>

StartAgain(u) ==
  /\ pc[u] = "finish" /\ ~(u \in Commands /\ ok[u])
  /\ running' = IF stopped[u] /\ running = None THEN Starts ELSE running
  /\ Goto(u, "over")
  /\ UNCHANGED <<windows, crossed, dirs, locals, todo, sources, ok, wanted, faults, deaths>>

StartFails(u) ==
  /\ pc[u] = "finish" /\ ~(u \in Commands /\ ok[u]) /\ stopped[u]
  /\ Fault
  /\ ok' = [ok EXCEPT ![u] = FALSE] /\ Goto(u, "down")
  /\ UNCHANGED <<windows, crossed, dirs, locals, todo, sources, services, deaths>>

\* With services as it should, with an exception, and with a start that failed.
Ends == {"over", "thrown", "down"}

Die(u) ==
  /\ pc[u] \notin {"idle", "dead"} \cup Ends
  /\ deaths < MaxDeaths /\ deaths' = deaths + 1
  /\ Goto(u, "dead")
  /\ UNCHANGED <<windows, crossed, dirs, locals, todo, sources, ok, services, faults>>
-----------------------------------------------------------------------------
Init ==
  /\ windows \in BOOLEAN
  /\ target = Installed(1)
  /\ npmStage \in IF windows THEN {None, Installed(1)} ELSE {None} \* left behind before
  /\ stage = [u \in Updaters |-> None] /\ previous = stage
  /\ pc = [u \in Updaters |-> "idle"]
  /\ version = [u \in Updaters |-> 1]
  /\ stopped = [u \in Updaters |-> FALSE] /\ wasRunning = stopped /\ ok = stopped
  /\ todo = [u \in Updaters |-> {}] /\ carried = todo
  /\ sources = [u \in Updaters |-> None] /\ reading = sources
  /\ wanted \in BOOLEAN /\ running = IF wanted THEN 1 ELSE None
  /\ faults = 0 /\ deaths = 0 /\ crossed = FALSE

Step(u) ==
  \/ Begin(u) \/ Unpack(u) \/ ReadManifest(u) \/ Resolve(u) \/ Resolved(u)
  \/ LookUp(u) \/ ReadNeeds(u) \/ Collected(u)
  \/ RenameAway(u) \/ RenameHeld(u) \/ RenameFails(u) \/ MoveModule(u) \/ RenameIn(u) \/ SwapFails(u)
  \/ UndoModule(u) \/ UndoRename(u) \/ UndoFails(u) \/ DropPrevious(u)
  \/ CopyPart(u) \/ SetAside(u) \/ CopyFails(u) \/ CopyEnds(u)
  \/ CleanStage(u) \/ CleanNpmStage(u)
  \/ Npm(u) \/ EmptyNpmStage(u) \/ FillNpmStage(u) \/ Verify(u)
  \/ Restart(u) \/ RestartFails(u) \/ StartAgain(u) \/ StartFails(u) \/ Die(u)

Next == \E u \in Updaters : Step(u)
Spec == Init /\ [][Next]_vars
-----------------------------------------------------------------------------
Tree == [own : [Parts -> Nat \cup {None}], modules : SUBSET Modules]

TypeOK ==
  /\ {windows, wanted, crossed} \subseteq BOOLEAN
  /\ {target, npmStage} \subseteq Tree \cup {None}
  /\ {stage, previous} \subseteq [Updaters -> Tree \cup {None}]
  /\ pc \in [Updaters -> {"idle", "unpack", "inspect", "match", "look", "away", "move", "undo",
                          "drop", "copy", "clean", "tidy", "npm", "empty", "fill", "verify",
                          "finish", "dead"} \cup Ends]
  /\ version \in [Updaters -> Releases \cup {1}]
  /\ {stopped, wasRunning, ok} \subseteq [Updaters -> BOOLEAN]
  /\ carried \in [Updaters -> SUBSET Modules] /\ reading \in [Updaters -> Modules \cup {None}]
  /\ todo \in [Updaters -> (SUBSET Modules) \cup (SUBSET Parts)]
  /\ sources \in [Updaters -> {0, 1, 2, None}]
  /\ running \in Releases \cup {1, None}
  /\ faults \in 0 .. MaxFaults /\ deaths \in 0 .. MaxDeaths

AtRest == deaths = 0 /\ \A u \in Updaters : pc[u] \in {"idle"} \cup Ends

(* Where directories can be renamed nobody ever finds the files of two releases, *)
(* whoever else updates and whoever dies.  And unless an update renamed the      *)
(* package away while another was looking through it for its modules, a package  *)
(* that is there has all of them, and one call that fails, wherever it does,     *)
(* leaves one in place once the updates are over (swap and its undoing).          *)
ReleaseIsWhole ==
  ~windows =>
    /\ target # None => OneRelease(target)
    /\ ~crossed => /\ target # None => Whole(target)
                   /\ AtRest /\ faults <= 1 => target # None

(* Services that ran before an update, the only one, run after it unless a call *)
(* failed, and an update that reports success leaves them running, on what is    *)
(* on disk if it is the command; one that failed leaves them running as well     *)
(* wherever the package is whole, if it ended with no exception and no start     *)
(* that failed (runUpdate, whileServicesStopped).                               *)
ServicesComeBack ==
  \A u \in Updaters :
    wanted /\ AtRest /\ {w \in Updaters : pc[w] \in Ends} = {u} =>
      /\ faults = 0 \/ ok[u] => running # None
      /\ u \in Commands /\ ok[u] => running = target.own[Manifest]
      /\ pc[u] = "over" /\ target # None /\ Whole(target) => running # None
=============================================================================
