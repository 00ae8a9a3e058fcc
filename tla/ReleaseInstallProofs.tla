------------------------ MODULE ReleaseInstallProofs ------------------------
(* Where directories can be renamed an update never shows the files of two     *)
(* releases, and unless one renames the package while another looks through it *)
(* a package is always whole and one failing call never costs it; an update    *)
(* that runs alone brings the services back: for any number of updates, of     *)
(* parts, of modules and of failing calls, whichever of the updates die.        *)
EXTENDS ReleaseInstall, TLAPS

-----------------------------------------------------------------------------
(* Types.  A directory that is there is a tree of versions somebody found; an update *)
(* that moves modules has both its directories, and what it has left to look for, to   *)
(* move or to copy are modules or parts.                                             *)
Versions == Releases \cup {1}
Trees == [own : [Parts -> Versions \cup {None}], modules : SUBSET Modules]
Dirs == Trees \cup {None}
Labels == {"idle", "unpack", "inspect", "match", "look", "away", "move", "undo", "drop", "copy",
           "clean", "tidy", "npm", "empty", "fill", "verify", "finish", "dead"} \cup Ends
Todo == (SUBSET Modules) \cup (SUBSET Parts)

DirsTyped == target \in Dirs /\ npmStage \in Dirs /\ stage \in [Updaters -> Dirs] /\ previous \in [Updaters -> Dirs]
StepsTyped ==
  /\ pc \in [Updaters -> Labels] /\ todo \in [Updaters -> Todo]
  /\ carried \in [Updaters -> SUBSET Modules] /\ reading \in [Updaters -> Modules \cup {None}]
LocalsTyped ==
  /\ windows \in BOOLEAN /\ wanted \in BOOLEAN /\ crossed \in BOOLEAN
  /\ version \in [Updaters -> Versions]
  /\ stopped \in [Updaters -> BOOLEAN] /\ wasRunning \in [Updaters -> BOOLEAN] /\ ok \in [Updaters -> BOOLEAN]
  /\ sources \in [Updaters -> {0, 1, 2, None}] /\ running \in Versions \cup {None}
  /\ faults \in 0 .. MaxFaults /\ deaths \in 0 .. MaxDeaths
Equipped(u) ==
  /\ pc[u] \in {"inspect", "match", "look", "away", "move", "undo"} => stage[u] \in Trees
  /\ pc[u] \in {"move", "undo"} => previous[u] \in Trees
  /\ pc[u] \in {"match", "look", "away", "move"} => todo[u] \subseteq Modules
  /\ pc[u] = "copy" => todo[u] \subseteq Parts

(* How many ways an update has left, at each of its steps. *)
SourcesLeft(u) ==
  /\ pc[u] \in {"idle", "unpack", "inspect", "match", "look", "away"} => sources[u] = None
  /\ pc[u] = "undo" => sources[u] = 1
  /\ pc[u] = "copy" => sources[u] \in {None, 0, 1}
  /\ pc[u] = "clean" => ok[u] \/ sources[u] \in {1, 2}
  /\ pc[u] \in {"tidy", "empty", "fill"} => sources[u] \in {0, 1}
  /\ pc[u] = "npm" => sources[u] \in {1, 2}
  /\ pc[u] = "drop" => ok[u]

TypesInv == DirsTyped /\ StepsTyped /\ LocalsTyped /\ \A u \in Updaters : Equipped(u) /\ SourcesLeft(u)

LEMMA NoneIsNoTree == None \notin Trees /\ None \notin Versions /\ 1 \in Versions /\ 0 \notin Versions
<1>1. Versions \subseteq Nat /\ None \notin Nat BY InstallAssumption DEF Versions
<1>2. Trees \subseteq [own : [Parts -> Nat \cup {None}], modules : SUBSET Modules]
  <2> SUFFICES ASSUME NEW t \in Trees PROVE t \in [own : [Parts -> Nat \cup {None}], modules : SUBSET Modules]
    OBVIOUS
  <2>1. t.own \in [Parts -> Nat \cup {None}] BY <1>1 DEF Trees
  <2> QED BY <2>1 DEF Trees
<1>3. None \notin [own : [Parts -> Nat \cup {None}], modules : SUBSET Modules] BY InstallAssumption
<1>4. 1 \in Versions /\ 0 \notin Versions BY InstallAssumption DEF Versions
<1> QED BY <1>1, <1>2, <1>3, <1>4

(* What becomes of a tree when its modules, or one part of it, are replaced. *)
LEMMA TreeChanges ==
  ASSUME NEW t \in Trees
  PROVE  /\ \A S \in SUBSET Modules :
              /\ [t EXCEPT !.modules = S] \in Trees
              /\ [t EXCEPT !.modules = S].own = t.own /\ [t EXCEPT !.modules = S].modules = S
         /\ \A p \in Parts, v \in Versions \cup {None} :
              /\ [t EXCEPT !.own[p] = v] \in Trees
              /\ [t EXCEPT !.own[p] = v].own = [t.own EXCEPT ![p] = v]
              /\ [t EXCEPT !.own[p] = v].modules = t.modules
         /\ t.own \in [Parts -> Versions \cup {None}] /\ t.modules \subseteq Modules /\ t # None
  BY NoneIsNoTree DEF Trees

(* A release that is unpacked, and one that is installed, is one release. *)
LEMMA ReleasesAreTrees ==
  ASSUME NEW v \in Versions
  PROVE  /\ Unpacked(v) \in Trees /\ Installed(v) \in Trees
         /\ OneRelease(Unpacked(v)) /\ Unpacked(v).modules = {}
         /\ OneRelease(Installed(v)) /\ Installed(v).modules = Modules /\ Whole(Installed(v))
<1>1. Unpacked(v) \in Trees BY DEF Unpacked, Trees
<1>2. Installed(v) = [Unpacked(v) EXCEPT !.modules = Modules] BY DEF Installed
<1>3. OneRelease(Unpacked(v)) BY NoneIsNoTree, InstallAssumption DEF OneRelease, Unpacked
<1>4. Installed(v) \in Trees /\ Installed(v).own = Unpacked(v).own /\ Installed(v).modules = Modules
  BY <1>1, <1>2, TreeChanges
<1>5. OneRelease(Installed(v)) BY <1>3, <1>4 DEF OneRelease
<1> QED BY <1>1, <1>3, <1>4, <1>5 DEF Unpacked, Whole

LEMMA StartsTyped == ASSUME target \in Dirs PROVE Starts \in Versions \cup {None}
<1>1. CASE target = None BY <1>1 DEF Starts
<1>2. CASE target # None
  <2>1. target \in Trees BY <1>2 DEF Dirs
  <2>2. target.own[Manifest] \in Versions \cup {None} BY <2>1, InstallAssumption, TreeChanges
  <2> QED BY <2>2 DEF Starts
<1> QED BY <1>1, <1>2

(* A step of one update leaves what another has in hand, and few calls fail at once. *)
LEMMA Frame ==
  ASSUME DirsTyped, StepsTyped, LocalsTyped, NEW u \in Updaters, Step(u)
  PROVE  /\ \A w \in Updaters \ {u} :
              /\ pc'[w] = pc[w] /\ todo'[w] = todo[w] /\ carried'[w] = carried[w] /\ reading'[w] = reading[w]
              /\ stage'[w] = stage[w] /\ previous'[w] = previous[w] /\ version'[w] = version[w]
              /\ sources'[w] = sources[w] /\ ok'[w] = ok[w]
         /\ pc' \in [Updaters -> Labels] /\ pc'[u] # "idle"
         /\ windows' = windows /\ wanted' = wanted
         /\ faults' = faults \/ (faults < MaxFaults /\ faults' = faults + 1)
         /\ deaths' = deaths \/ (deaths < MaxDeaths /\ deaths' = deaths + 1)
         /\ crossed' = crossed \/ RenameAway(u)
  <1> USE DEF DirsTyped, StepsTyped, LocalsTyped, Step, Begin, Unpack, ReadManifest, Resolve, Resolved, LookUp, ReadNeeds,
         Collected, NeedsNpm, RenameAway, RenameHeld, RenameFails, MoveModule, RenameIn, SwapFails,
         UndoModule, UndoRename, UndoFails, DropPrevious, CopyPart, SetAside, CopyFails, CopyEnds,
         CleanStage, CleanNpmStage, Npm, EmptyNpmStage, FillNpmStage, Verify, Restart, RestartFails,
         StartAgain, StartFails, Die
  <1>1. \A w \in Updaters \ {u} : pc'[w] = pc[w]
    BY DEF Goto, Continue
  <1>2. pc' \in [Updaters -> Labels] /\ pc'[u] # "idle"
    BY DEF Goto, Continue, Labels, Ends
  <1>3. \A w \in Updaters \ {u} : todo'[w] = todo[w]
    OBVIOUS
  <1>4. \A w \in Updaters \ {u} : carried'[w] = carried[w] /\ reading'[w] = reading[w] /\ version'[w] = version[w]
    BY DEF locals
  <1>5. \A w \in Updaters \ {u} : stage'[w] = stage[w] /\ previous'[w] = previous[w]
    BY DEF dirs
  <1>6. \A w \in Updaters \ {u} : sources'[w] = sources[w] /\ ok'[w] = ok[w]
    BY DEF Failed
  <1>7. windows' = windows /\ wanted' = wanted
    BY DEF services
  <1>8. /\ faults' = faults \/ (faults < MaxFaults /\ faults' = faults + 1)
        /\ deaths' = deaths \/ (deaths < MaxDeaths /\ deaths' = deaths + 1)
    BY DEF Fault
  <1>9. crossed' = crossed \/ RenameAway(u)
    OBVIOUS
  <1> QED BY <1>1, <1>2, <1>3, <1>4, <1>5, <1>6, <1>7, <1>8, <1>9

(* An update counts its ways down to the last. *)
LEMMA SourcesStep ==
  ASSUME TypesInv, NEW u \in Updaters, Step(u)
  PROVE  SourcesLeft(u)'
  <1>1. DOMAIN pc = Updaters /\ DOMAIN sources = Updaters /\ DOMAIN ok = Updaters /\ SourcesLeft(u)
    BY DEF TypesInv, StepsTyped, LocalsTyped
  <1> USE DEF SourcesLeft, Goto
  <1>2. CASE Begin(u) \/ Unpack(u) \/ Verify(u) \/ Restart(u) \/ RestartFails(u) \/ StartAgain(u)
             \/ StartFails(u) \/ Die(u)
    BY <1>1, <1>2 DEF Begin, Unpack, Verify, Restart, RestartFails, StartAgain, StartFails, Die
  <1>3. CASE ReadManifest(u) \/ Resolve(u) \/ Resolved(u) \/ LookUp(u) \/ ReadNeeds(u) \/ Collected(u)
    BY <1>1, <1>3 DEF ReadManifest, Resolve, Resolved, LookUp, ReadNeeds, Collected, NeedsNpm
  <1>4. CASE RenameAway(u) \/ RenameHeld(u) \/ RenameFails(u) \/ MoveModule(u) \/ RenameIn(u)
             \/ SwapFails(u) \/ UndoModule(u) \/ UndoRename(u) \/ UndoFails(u) \/ DropPrevious(u)
    BY <1>1, <1>4 DEF RenameAway, RenameHeld, RenameFails, MoveModule, RenameIn,
         SwapFails, UndoModule, UndoRename, UndoFails, DropPrevious, Failed
  <1>5. CASE CopyPart(u) \/ SetAside(u) \/ CopyFails(u) \/ CopyEnds(u)
    BY <1>1, <1>5 DEF CopyPart, SetAside, CopyFails, CopyEnds, ByNpm
  <1>6. CASE CleanStage(u) \/ CleanNpmStage(u)
    BY <1>1, <1>6 DEF CleanStage, CleanNpmStage, Continue
  <1>7. CASE Npm(u) \/ EmptyNpmStage(u) \/ FillNpmStage(u)
    BY <1>1, <1>7 DEF Npm, EmptyNpmStage, FillNpmStage
  <1> QED BY <1>2, <1>3, <1>4, <1>5, <1>6, <1>7 DEF Step

(* A module goes from one of an update's directories to the other. *)
LEMMA ModulesTyped ==
  ASSUME TypesInv, NEW u \in Updaters, MoveModule(u) \/ UndoModule(u)
  PROVE  DirsTyped' /\ Equipped(u)'
<1>1. DirsTyped /\ Equipped(u) /\ pc' = pc /\ pc[u] \in {"move", "undo"} /\ UNCHANGED <<target, npmStage>>
  BY DEF TypesInv, MoveModule, UndoModule
<1>2. stage[u] \in Trees /\ previous[u] \in Trees BY <1>1 DEF Equipped
<1>3. stage \in [Updaters -> Dirs] /\ previous \in [Updaters -> Dirs] /\ todo \in [Updaters -> Todo]
  BY <1>1 DEF TypesInv, DirsTyped, StepsTyped
<1>4. ASSUME NEW s \in SUBSET Modules, NEW r \in SUBSET Modules,
             stage' = [stage EXCEPT ![u].modules = s], previous' = [previous EXCEPT ![u].modules = r]
      PROVE  DirsTyped' /\ stage'[u] \in Trees /\ previous'[u] \in Trees
  <2> DEFINE t == [stage[u] EXCEPT !.modules = s]
             q == [previous[u] EXCEPT !.modules = r]
  <2>1. t \in Trees /\ q \in Trees BY <1>2, TreeChanges
  <2>2. stage' = [stage EXCEPT ![u] = t] /\ previous' = [previous EXCEPT ![u] = q] BY <1>4
  <2> HIDE DEF t, q
  <2> QED BY <1>1, <1>3, <2>1, <2>2 DEF DirsTyped, Dirs
<1>5. CASE MoveModule(u)
  <2>1. PICK m \in todo[u] \cap previous[u].modules :
          /\ previous' = [previous EXCEPT ![u].modules = @ \ {m}]
          /\ stage' = [stage EXCEPT ![u].modules = @ \cup {m}]
          /\ todo' = [todo EXCEPT ![u] = @ \ {m}]
    BY <1>5 DEF MoveModule
  <2>2. todo[u] \subseteq Modules /\ pc[u] = "move" BY <1>1, <1>5 DEF Equipped, MoveModule
  <2>3. stage[u].modules \cup {m} \in SUBSET Modules /\ previous[u].modules \ {m} \in SUBSET Modules
    BY <1>2, <2>2, TreeChanges
  <2>4. DirsTyped' /\ stage'[u] \in Trees /\ previous'[u] \in Trees BY <2>1, <2>3, <1>4
  <2>5. todo'[u] \subseteq Modules BY <1>3, <2>1, <2>2
  <2> QED BY <1>1, <2>2, <2>4, <2>5 DEF Equipped
<1>6. CASE UndoModule(u)
  <2>1. PICK m \in stage[u].modules :
          /\ stage' = [stage EXCEPT ![u].modules = @ \ {m}]
          /\ previous' = [previous EXCEPT ![u].modules = @ \cup {m}]
    BY <1>6 DEF UndoModule
  <2>2. stage[u].modules \ {m} \in SUBSET Modules /\ previous[u].modules \cup {m} \in SUBSET Modules
    BY <1>2, TreeChanges
  <2>3. DirsTyped' /\ stage'[u] \in Trees /\ previous'[u] \in Trees BY <2>1, <2>2, <1>4
  <2>4. pc[u] = "undo" BY <1>6 DEF UndoModule
  <2> QED BY <1>1, <2>3, <2>4 DEF Equipped
<1> QED BY <1>5, <1>6

(* A part of the package is written over, or moved aside, and in the end what it has too many goes. *)
LEMMA CopyTyped ==
  ASSUME TypesInv, NEW u \in Updaters, CopyPart(u) \/ SetAside(u) \/ CopyEnds(u)
  PROVE  DirsTyped' /\ Equipped(u)'
<1>1. /\ DirsTyped /\ Equipped(u) /\ StepsTyped /\ UNCHANGED <<npmStage, stage, previous>> /\ pc[u] = "copy"
  BY DEF TypesInv, CopyPart, SetAside, CopyEnds
<1>2. todo[u] \subseteq Parts BY <1>1 DEF Equipped
<1>3. target' \in Dirs
  <2>1. CASE CopyPart(u)
    <3>1. PICK p \in todo[u] : target' = [target EXCEPT !.own[p] = Source(u).own[p]] BY <2>1 DEF CopyPart
    <3>2. target \in Trees /\ Source(u) \in Trees
      <4>1. target # None /\ Source(u) # None BY <2>1 DEF CopyPart
      <4>2. target \in Dirs /\ Source(u) \in Dirs BY <1>1 DEF DirsTyped, Source
      <4> QED BY <4>1, <4>2 DEF Dirs
    <3>3. p \in Parts /\ Source(u).own[p] \in Versions \cup {None} BY <1>2, <3>2, TreeChanges
    <3> QED BY <3>1, <3>2, <3>3, TreeChanges DEF Dirs
  <2>2. CASE SetAside(u)
    <3>1. PICK p \in todo[u] : target' = [target EXCEPT !.own[p] = None] BY <2>2 DEF SetAside
    <3>2. target \in Trees BY <1>1, <2>2 DEF SetAside, DirsTyped, Dirs
    <3> QED BY <1>2, <3>1, <3>2, TreeChanges DEF Dirs
  <2>3. CASE CopyEnds(u)
    <3>1. PICK kept \in SUBSET Nested :
            target' = IF target = None THEN None
                      ELSE [target EXCEPT !.modules = IF ByNpm(u) THEN Modules ELSE kept]
      BY <2>3 DEF CopyEnds
    <3>2. target \in Dirs BY <1>1 DEF DirsTyped
    <3>3. CASE target = None BY <3>1, <3>3 DEF Dirs
    <3>4. CASE target # None
      <4> DEFINE S == IF ByNpm(u) THEN Modules ELSE kept
      <4>1. target \in Trees BY <3>2, <3>4 DEF Dirs
      <4>2. S \in SUBSET Modules BY <3>4, <4>1, TreeChanges DEF Nested
      <4>3. target' = [target EXCEPT !.modules = S] BY <3>1, <3>4
      <4> HIDE DEF S
      <4> QED BY <4>1, <4>2, <4>3, TreeChanges DEF Dirs
    <3> QED BY <3>3, <3>4
  <2> QED BY <2>1, <2>2, <2>3
<1>4. DirsTyped' BY <1>1, <1>3 DEF DirsTyped
<1>5. Equipped(u)'
  <2>1. CASE CopyPart(u) \/ SetAside(u)
    <3>1. pc' = pc /\ todo'[u] \subseteq todo[u]
      BY <1>1, <2>1 DEF CopyPart, SetAside, StepsTyped
    <3> QED BY <1>1, <1>2, <3>1 DEF Equipped
  <2>2. CASE CopyEnds(u)
    <3>1. pc'[u] \in {"tidy", "clean"} BY <1>1, <2>2 DEF CopyEnds, Goto, StepsTyped
    <3> QED BY <3>1 DEF Equipped
  <2> QED BY <2>1, <2>2
<1> QED BY <1>4, <1>5

(* An update that looks through the package changes none of its directories. *)
LEMMA LooksTyped ==
  ASSUME TypesInv, NEW u \in Updaters,
         ReadManifest(u) \/ Resolve(u) \/ Resolved(u) \/ LookUp(u) \/ ReadNeeds(u) \/ Collected(u)
  PROVE  DirsTyped' /\ Equipped(u)' /\ todo'[u] \in Todo
<1>1. DirsTyped /\ StepsTyped /\ Equipped(u) BY DEF TypesInv
<1>2. UNCHANGED dirs BY DEF ReadManifest, Resolve, Resolved, LookUp, ReadNeeds, Collected
<1>3. DirsTyped' /\ stage' = stage BY <1>1, <1>2 DEF DirsTyped, dirs
<1>4. pc[u] \in {"inspect", "match", "look"} /\ pc'[u] \in {"match", "look", "away", "clean"}
  BY <1>1 DEF StepsTyped, Goto, ReadManifest, Resolve, Resolved, LookUp, ReadNeeds, Collected, NeedsNpm
<1>5. todo'[u] \subseteq Modules \/ (todo'[u] = todo[u] /\ pc'[u] = "clean")
  <2>1. CASE ReadManifest(u) \/ Resolved(u) \/ Collected(u)
    BY <1>1, <2>1, InstallAssumption DEF StepsTyped, ReadManifest, Resolved, Collected, NeedsNpm, Goto
  <2>2. CASE Resolve(u) \/ LookUp(u)
    <3>1. todo[u] \subseteq Modules BY <1>1, <2>2 DEF Resolve, LookUp, Equipped
    <3>2. todo'[u] \subseteq todo[u] BY <1>1, <2>2 DEF Resolve, LookUp, NeedsNpm, StepsTyped
    <3> QED BY <3>1, <3>2
  <2>3. CASE ReadNeeds(u)
    <3>1. todo[u] \subseteq Modules /\ reading[u] \in Modules BY <1>1, <2>3 DEF ReadNeeds, Equipped, StepsTyped
    <3>2. Needs[reading[u]] \subseteq Modules BY <3>1, InstallAssumption
    <3>3. todo'[u] = todo[u] \cup ((IF reading[u] \in Nested THEN Needs[reading[u]] ELSE {}) \ carried[u])
      BY <1>1, <2>3 DEF ReadNeeds, StepsTyped
    <3> QED BY <3>1, <3>2, <3>3
  <2> QED BY <2>1, <2>2, <2>3
<1>6. todo'[u] \in Todo BY <1>1, <1>5 DEF StepsTyped, Todo
<1> QED BY <1>1, <1>3, <1>4, <1>5, <1>6 DEF Equipped

(* All other steps move, make or drop whole directories. *)
LEMMA WholeTyped ==
  ASSUME TypesInv, NEW u \in Updaters, Step(u), ~MoveModule(u), ~UndoModule(u),
         ~CopyPart(u), ~SetAside(u), ~CopyEnds(u),
         ~(ReadManifest(u) \/ Resolve(u) \/ Resolved(u) \/ LookUp(u) \/ ReadNeeds(u) \/ Collected(u))
  PROVE  DirsTyped' /\ Equipped(u)'
<1>1. DirsTyped /\ StepsTyped /\ Equipped(u) /\ version[u] \in Versions BY DEF TypesInv, LocalsTyped
<1>2. Unpacked(version[u]) \in Trees /\ Installed(version[u]) \in Trees BY <1>1, ReleasesAreTrees
<1>3. CASE Begin(u) \/ RenameHeld(u) \/ RenameFails(u) \/ SwapFails(u) \/ UndoFails(u) \/ CopyFails(u)
           \/ Verify(u) \/ Restart(u) \/ RestartFails(u) \/ StartAgain(u) \/ StartFails(u) \/ Die(u)
  <2>1. UNCHANGED dirs
    BY <1>3 DEF Begin, RenameHeld, RenameFails, SwapFails, UndoFails, CopyFails, Verify, Restart,
         RestartFails, StartAgain, StartFails, Die
  <2>2. DirsTyped' /\ UNCHANGED <<target, stage, previous>> BY <1>1, <2>1 DEF DirsTyped, dirs
  <2>3. CASE ~RenameHeld(u) /\ ~SwapFails(u)
    <3>1. pc'[u] \in {"unpack", "npm", "clean", "tidy", "finish", "over", "down", "dead"}
      BY <1>1, <1>3, <2>3 DEF Begin, RenameFails, UndoFails, CopyFails, Verify, Restart, RestartFails,
           StartAgain, StartFails, Die, Goto, StepsTyped
    <3> QED BY <2>2, <3>1 DEF Equipped
  <2>5. CASE RenameHeld(u)
    <3>1. pc'[u] = "copy" /\ todo'[u] = Parts BY <1>1, <2>5 DEF RenameHeld, Goto, StepsTyped
    <3> QED BY <2>2, <3>1 DEF Equipped
  <2>6. CASE SwapFails(u)
    <3>1. pc[u] = "move" /\ pc'[u] = "undo" BY <1>1, <2>6 DEF SwapFails, Goto, StepsTyped
    <3> QED BY <1>1, <2>2, <3>1 DEF Equipped
  <2> QED BY <1>3, <2>3, <2>5, <2>6
<1>4. CASE Unpack(u)
  <2>1. DirsTyped' BY <1>1, <1>2, <1>4 DEF Unpack, DirsTyped, Dirs
  <2>2. pc'[u] \in {"inspect", "clean"} /\ (pc'[u] = "inspect" => stage'[u] \in Trees)
    BY <1>1, <1>2, <1>4 DEF Unpack, Goto, StepsTyped, DirsTyped
  <2> QED BY <2>1, <2>2 DEF Equipped
<1>5. CASE RenameAway(u)
  <2>1. target \in Trees BY <1>1, <1>5 DEF RenameAway, DirsTyped, Dirs
  <2>2. DirsTyped' BY <1>1, <1>5 DEF RenameAway, DirsTyped, Dirs
  <2>3. pc[u] = "away" /\ pc'[u] = "move" /\ UNCHANGED <<stage, todo>> /\ previous'[u] = target
    BY <1>1, <1>5 DEF RenameAway, Goto, StepsTyped, DirsTyped
  <2> QED BY <1>1, <2>1, <2>2, <2>3 DEF Equipped
<1>6. CASE RenameIn(u) \/ UndoRename(u) \/ DropPrevious(u) \/ CleanStage(u) \/ CleanNpmStage(u) \/ EmptyNpmStage(u)
  <2>1. DirsTyped'
    BY <1>1, <1>6 DEF RenameIn, UndoRename, DropPrevious, CleanStage, CleanNpmStage, EmptyNpmStage, DirsTyped, Dirs
  <2>2. pc'[u] \in {"drop", "clean", "verify", "npm", "fill", "thrown", "finish"}
    BY <1>1, <1>6 DEF RenameIn, UndoRename, DropPrevious, CleanStage, CleanNpmStage, EmptyNpmStage,
         Continue, Goto, StepsTyped
  <2> QED BY <2>1, <2>2 DEF Equipped
<1>7. CASE Npm(u) \/ FillNpmStage(u)
  <2>1. DirsTyped' BY <1>1, <1>2, <1>7 DEF Npm, FillNpmStage, DirsTyped, Dirs
  <2>2. pc'[u] \in {"verify", "copy", "npm", "empty", "tidy"} /\ (pc'[u] = "copy" => todo'[u] = Parts)
    BY <1>1, <1>7 DEF Npm, FillNpmStage, Goto, StepsTyped
  <2> QED BY <2>1, <2>2 DEF Equipped
<1> QED BY <1>3, <1>4, <1>5, <1>6, <1>7 DEF Step

LEMMA StepsStay ==
  ASSUME TypesInv, NEW u \in Updaters, Step(u)
  PROVE  StepsTyped'
<1>1. StepsTyped /\ Equipped(u) /\ DirsTyped /\ LocalsTyped BY DEF TypesInv
<1>2. pc' \in [Updaters -> Labels] BY <1>1, Frame
<1>3. todo' = todo \/ \E S : todo' = [todo EXCEPT ![u] = S]
  BY DEF Step, Begin, Unpack, ReadManifest, Resolve, Resolved, LookUp, ReadNeeds,
         Collected, NeedsNpm, RenameAway, RenameHeld, RenameFails, MoveModule, RenameIn, SwapFails,
         UndoModule, UndoRename, UndoFails, DropPrevious, CopyPart, SetAside, CopyFails, CopyEnds,
         CleanStage, CleanNpmStage, Npm, EmptyNpmStage, FillNpmStage, Verify, Restart, RestartFails,
         StartAgain, StartFails, Die
<1>4. todo'[u] \in Todo
  <2>1. CASE ReadManifest(u) \/ Resolve(u) \/ Resolved(u) \/ LookUp(u) \/ ReadNeeds(u) \/ Collected(u)
    BY <2>1, LooksTyped
  <2>2. CASE RenameHeld(u) \/ FillNpmStage(u)
    <3>1. todo'[u] = todo[u] \/ todo'[u] = Parts BY <1>1, <2>2 DEF RenameHeld, FillNpmStage, StepsTyped
    <3>2. Parts \in Todo /\ todo[u] \in Todo BY <1>1 DEF Todo, StepsTyped
    <3> QED BY <3>1, <3>2
  <2>3. CASE MoveModule(u) \/ CopyPart(u)
    <3>1. todo'[u] \subseteq todo[u] BY <1>1, <2>3 DEF MoveModule, CopyPart, StepsTyped
    <3> QED BY <1>1, <3>1 DEF StepsTyped, Todo
  <2>4. CASE ~(RenameHeld(u) \/ FillNpmStage(u) \/ MoveModule(u) \/ CopyPart(u) \/ ReadManifest(u)
               \/ Resolve(u) \/ Resolved(u) \/ LookUp(u) \/ ReadNeeds(u) \/ Collected(u))
    <3>1. UNCHANGED todo
      BY <2>4 DEF Step, Begin, Unpack, RenameAway, RenameFails, RenameIn, SwapFails, UndoModule, UndoRename,
         UndoFails, DropPrevious, SetAside, CopyFails, CopyEnds, CleanStage, CleanNpmStage, Npm,
         EmptyNpmStage, Verify, Restart, RestartFails, StartAgain, StartFails, Die
    <3> QED BY <1>1, <3>1 DEF StepsTyped
  <2> QED BY <2>1, <2>2, <2>3, <2>4
<1>5. todo' \in [Updaters -> Todo] BY <1>1, <1>3, <1>4 DEF StepsTyped
<1>6. carried' \in [Updaters -> SUBSET Modules] /\ reading' \in [Updaters -> Modules \cup {None}]
  <2>1. CASE LookUp(u)
    <3>1. todo[u] \subseteq Modules BY <1>1, <2>1 DEF LookUp, Equipped
    <3>2. PICK m \in todo[u] :
            \/ carried' = [carried EXCEPT ![u] = @ \cup {m}] /\ reading' = [reading EXCEPT ![u] = m]
            \/ UNCHANGED <<carried, reading>>
      BY <2>1 DEF LookUp
    <3> QED BY <1>1, <3>1, <3>2 DEF StepsTyped
  <2>2. CASE ReadNeeds(u) BY <1>1, <2>2 DEF ReadNeeds, StepsTyped
  <2>3. CASE ~LookUp(u) /\ ~ReadNeeds(u)
    <3>1. UNCHANGED <<carried, reading>> BY <2>3 DEF Step, Begin, Unpack, ReadManifest, Resolve, Resolved, LookUp, ReadNeeds,
         Collected, NeedsNpm, RenameAway, RenameHeld, RenameFails, MoveModule, RenameIn, SwapFails,
         UndoModule, UndoRename, UndoFails, DropPrevious, CopyPart, SetAside, CopyFails, CopyEnds,
         CleanStage, CleanNpmStage, Npm, EmptyNpmStage, FillNpmStage, Verify, Restart, RestartFails,
         StartAgain, StartFails, Die, locals
    <3> QED BY <1>1, <3>1 DEF StepsTyped
  <2> QED BY <2>1, <2>2, <2>3
<1> QED BY <1>2, <1>5, <1>6 DEF StepsTyped

(* The outcome, the sources left and what runs. *)
LEMMA LocalsStay ==
  ASSUME TypesInv, NEW u \in Updaters, Step(u)
  PROVE  LocalsTyped'
<1>1. LocalsTyped /\ DirsTyped /\ StepsTyped /\ SourcesLeft(u) BY DEF TypesInv
<1>2. Starts \in Versions \cup {None} BY <1>1, StartsTyped DEF DirsTyped
<1>3. windows' = windows /\ wanted' = wanted BY <1>1, Frame
<1>4. /\ version' \in [Updaters -> Versions]
      /\ stopped' \in [Updaters -> BOOLEAN] /\ wasRunning' \in [Updaters -> BOOLEAN]
  <2>1. CASE Begin(u) BY <1>1, <2>1 DEF LocalsTyped, Begin, Versions
  <2>2. CASE ~Begin(u)
    <3>1. UNCHANGED <<version, stopped, wasRunning>> BY <2>2 DEF Step, Begin, Unpack, ReadManifest, Resolve, Resolved, LookUp, ReadNeeds,
         Collected, NeedsNpm, RenameAway, RenameHeld, RenameFails, MoveModule, RenameIn, SwapFails,
         UndoModule, UndoRename, UndoFails, DropPrevious, CopyPart, SetAside, CopyFails, CopyEnds,
         CleanStage, CleanNpmStage, Npm, EmptyNpmStage, FillNpmStage, Verify, Restart, RestartFails,
         StartAgain, StartFails, Die, locals
    <3> QED BY <1>1, <3>1 DEF LocalsTyped
  <2> QED BY <2>1, <2>2
<1>5. ok' = ok \/ \E b \in BOOLEAN : ok' = [ok EXCEPT ![u] = b]
  <2>1. CASE Verify(u)
    <3>1. ok[u] \in BOOLEAN BY <1>1 DEF LocalsTyped
    <3> QED BY <2>1, <3>1 DEF Verify
  <2>2. CASE ~Verify(u) BY <2>2 DEF Step, Begin, Unpack, ReadManifest, Resolve, Resolved, LookUp, ReadNeeds,
         Collected, NeedsNpm, RenameAway, RenameHeld, RenameFails, MoveModule, RenameIn, SwapFails,
         UndoModule, UndoRename, UndoFails, DropPrevious, CopyPart, SetAside, CopyFails, CopyEnds,
         CleanStage, CleanNpmStage, Npm, EmptyNpmStage, FillNpmStage, Verify, Restart, RestartFails,
         StartAgain, StartFails, Die, Failed
  <2> QED BY <2>1, <2>2
<1>6. sources' = sources \/ \E k \in {0, 1, 2} : sources' = [sources EXCEPT ![u] = k]
  <2>1. CASE Npm(u)
    <3>1. sources[u] \in {1, 2} BY <1>1, <2>1 DEF SourcesLeft, Npm
    <3>2. sources[u] - 1 \in {0, 1, 2} BY <3>1
    <3> QED BY <2>1, <3>2 DEF Npm
  <2>2. CASE ~Npm(u) BY <2>2 DEF Step, Begin, Unpack, ReadManifest, Resolve, Resolved, LookUp, ReadNeeds,
         Collected, NeedsNpm, RenameAway, RenameHeld, RenameFails, MoveModule, RenameIn, SwapFails,
         UndoModule, UndoRename, UndoFails, DropPrevious, CopyPart, SetAside, CopyFails, CopyEnds,
         CleanStage, CleanNpmStage, Npm, EmptyNpmStage, FillNpmStage, Verify, Restart, RestartFails,
         StartAgain, StartFails, Die, Failed
  <2> QED BY <2>1, <2>2
<1>7. running' \in {running, None, Starts}
  BY DEF Step, Begin, Unpack, ReadManifest, Resolve, Resolved, LookUp, ReadNeeds,
         Collected, NeedsNpm, RenameAway, RenameHeld, RenameFails, MoveModule, RenameIn, SwapFails,
         UndoModule, UndoRename, UndoFails, DropPrevious, CopyPart, SetAside, CopyFails, CopyEnds,
         CleanStage, CleanNpmStage, Npm, EmptyNpmStage, FillNpmStage, Verify, Restart, RestartFails,
         StartAgain, StartFails, Die, services
<1>8. crossed' \in BOOLEAN BY <1>1, Frame DEF LocalsTyped, RenameAway
<1>9. ok' \in [Updaters -> BOOLEAN] BY <1>1, <1>5 DEF LocalsTyped
<1>10. sources' \in [Updaters -> {0, 1, 2, None}] BY <1>1, <1>6 DEF LocalsTyped
<1>11. running' \in Versions \cup {None} BY <1>1, <1>2, <1>7 DEF LocalsTyped
<1>12. faults' \in 0 .. MaxFaults /\ deaths' \in 0 .. MaxDeaths
  BY <1>1, Frame, InstallAssumption DEF LocalsTyped
<1> QED BY <1>1, <1>3, <1>4, <1>8, <1>9, <1>10, <1>11, <1>12 DEF LocalsTyped

LEMMA InitInstall == Init => TypesInv
<1> SUFFICES ASSUME Init PROVE TypesInv OBVIOUS
<1>1. target \in Dirs /\ npmStage \in Dirs /\ None \in Dirs BY ReleasesAreTrees, NoneIsNoTree DEF Init, Dirs
<1>2. DirsTyped BY <1>1 DEF Init, DirsTyped
<1>3. StepsTyped BY DEF Init, StepsTyped, Labels, Todo
<1>4. LocalsTyped
  <2>1. /\ windows \in BOOLEAN /\ wanted \in BOOLEAN /\ crossed \in BOOLEAN
        /\ stopped \in [Updaters -> BOOLEAN] /\ wasRunning \in [Updaters -> BOOLEAN] /\ ok \in [Updaters -> BOOLEAN]
        /\ sources \in [Updaters -> {0, 1, 2, None}]
    BY DEF Init
  <2>2. version \in [Updaters -> Versions] /\ running \in Versions \cup {None}
    BY NoneIsNoTree DEF Init
  <2>3. faults \in 0 .. MaxFaults /\ deaths \in 0 .. MaxDeaths BY InstallAssumption DEF Init
  <2> QED BY <2>1, <2>2, <2>3 DEF LocalsTyped
<1>5. \A u \in Updaters : Equipped(u) /\ SourcesLeft(u) BY DEF Init, Equipped, SourcesLeft
<1> QED BY <1>2, <1>3, <1>4, <1>5 DEF TypesInv

LEMMA NextInstall ==
  ASSUME TypesInv, [Next]_vars
  PROVE  TypesInv'
<1>1. CASE UNCHANGED vars
  BY <1>1 DEF vars, dirs, locals, services, TypesInv, DirsTyped, StepsTyped, LocalsTyped, Equipped, SourcesLeft
<1>2. ASSUME NEW u \in Updaters, Step(u) PROVE TypesInv'
  <2>1. DirsTyped' /\ Equipped(u)' BY <1>2, ModulesTyped, CopyTyped, LooksTyped, WholeTyped
  <2>2. ASSUME NEW w \in Updaters \ {u} PROVE Equipped(w)' /\ SourcesLeft(w)'
    BY <1>2, Frame DEF TypesInv, Equipped, SourcesLeft
  <2>3. StepsTyped' /\ LocalsTyped' /\ SourcesLeft(u)' BY <1>2, StepsStay, LocalsStay, SourcesStep
  <2> QED BY <2>1, <2>2, <2>3 DEF TypesInv
<1> QED BY <1>1, <1>2 DEF Next

(* Whoever updates, fails and dies: no update moves a module out of or into a        *)
(* directory that is not there (release-install.ts, swap), copies what is not a part   *)
(* of the release (in-place.ts), or tries a source it has not (updater.ts); and what   *)
(* services run is a release that somebody found.                                    *)
THEOREM ReleaseTypes == Spec => []TypeOK
<1>1. TypesInv => TypeOK
  <2> SUFFICES ASSUME TypesInv PROVE TypeOK OBVIOUS
  <2>1. Dirs \subseteq Tree \cup {None}
    <3>1. Versions \subseteq Nat BY InstallAssumption DEF Versions
    <3>2. Trees \subseteq Tree
      <4> SUFFICES ASSUME NEW t \in Trees PROVE t \in Tree OBVIOUS
      <4>1. t.own \in [Parts -> Nat \cup {None}] BY <3>1 DEF Trees
      <4> QED BY <4>1 DEF Trees, Tree
    <3> QED BY <3>2 DEF Dirs
  <2>2. {target, npmStage} \subseteq Tree \cup {None} BY <2>1 DEF TypesInv, DirsTyped
  <2>3. {stage, previous} \subseteq [Updaters -> Tree \cup {None}] BY <2>1 DEF TypesInv, DirsTyped
  <2>4. /\ version \in [Updaters -> Releases \cup {1}] /\ running \in Releases \cup {1, None}
        /\ {windows, wanted, crossed} \subseteq BOOLEAN
        /\ {stopped, wasRunning, ok} \subseteq [Updaters -> BOOLEAN]
        /\ sources \in [Updaters -> {0, 1, 2, None}]
        /\ faults \in 0 .. MaxFaults /\ deaths \in 0 .. MaxDeaths
    BY DEF TypesInv, LocalsTyped, Versions
  <2>5. pc \in [Updaters -> Labels] BY DEF TypesInv, StepsTyped
  <2>6. /\ todo \in [Updaters -> (SUBSET Modules) \cup (SUBSET Parts)]
        /\ carried \in [Updaters -> SUBSET Modules] /\ reading \in [Updaters -> Modules \cup {None}]
    BY DEF TypesInv, StepsTyped, Todo
  <2> QED BY <2>2, <2>3, <2>4, <2>5, <2>6 DEF Labels, TypeOK
<1> QED BY InitInstall, NextInstall, <1>1, PTL DEF Spec

(***************************************************************************)
(* The package, where directories can be renamed.                          *)
(***************************************************************************)

(* A release unpacked is in hand until it is put in place; nothing is copied. *)
InHand(u) ==
  /\ pc[u] \in {"inspect", "match", "look", "away"} => stage[u] = Unpacked(version[u])
  /\ pc[u] \in {"move", "undo"} => OneRelease(stage[u]) /\ OneRelease(previous[u])
  /\ pc[u] \notin {"copy", "empty", "fill"}

(* Modules found, and those that are still looked for, are all that the ones found need. *)
Follows(u) ==
  /\ Direct \subseteq carried[u] \cup todo[u]
  /\ \A m \in carried[u] : m = reading[u] \/ Needs[m] \subseteq carried[u] \cup todo[u]

(* Nobody renamed the package away in between: what is carried over is all of its *)
(* modules, and from the moment the old release is away each is in one of the two. *)
Complete(u) ==
  /\ pc[u] \in {"idle", "unpack", "inspect", "match"} => carried[u] = {} /\ reading[u] = None
  /\ pc[u] \in {"match", "look"} => target # None
  /\ pc[u] = "look" => Follows(u)
  /\ pc[u] = "away" => todo[u] = Modules
  /\ pc[u] \in {"move", "undo"} => stage[u].modules \cup previous[u].modules = Modules
  /\ pc[u] = "move" => todo[u] \subseteq previous[u].modules /\ Modules \subseteq stage[u].modules \cup todo[u]

(* The package is away only while an update that took it away goes on, or is    *)
(* undoing what a failed call stopped.                                         *)
Held ==
  target = None /\ deaths = 0 /\ faults <= 1 =>
    \/ \E u \in Updaters : pc[u] = "move"
    \/ faults = 1 /\ \E u \in Updaters : pc[u] = "undo"

InPlace == target # None => OneRelease(target)
AllModules == target # None => target.modules = Modules

SwapInv ==
  windows \/
    /\ InPlace /\ \A u \in Updaters : InHand(u)
    /\ ~crossed => AllModules /\ Held /\ \A u \in Updaters : Complete(u)

LEMMA InitSwap == Init => SwapInv
  <1> SUFFICES ASSUME Init PROVE SwapInv
    OBVIOUS
  <1>1. target = Installed(1) /\ 1 \in Versions BY NoneIsNoTree DEF Init
  <1>2. target # None /\ InPlace /\ AllModules
    BY <1>1, ReleasesAreTrees, NoneIsNoTree DEF InPlace, AllModules
  <1>3. \A u \in Updaters : InHand(u) /\ Complete(u) BY DEF Init, InHand, Complete
  <1> QED BY <1>2, <1>3 DEF SwapInv, Held

(* What an update does leaves what another has in hand. *)
LEMMA OthersKeep ==
  ASSUME TypesInv, SwapInv, ~windows, NEW u \in Updaters, NEW w \in Updaters, u # w, Step(u)
  PROVE  InHand(w)' /\ (~crossed' => Complete(w)')
  <1>1. InHand(w) /\ (~crossed => Complete(w)) BY DEF SwapInv
  <1>2. UNCHANGED <<pc[w], todo[w], carried[w], reading[w], stage[w], previous[w], version[w]>>
    BY Frame DEF TypesInv
  <1>3. InHand(w)' BY <1>1, <1>2 DEF InHand
  <1>4. ASSUME ~crossed' PROVE Complete(w)'
    <2>1. ~crossed /\ Complete(w) BY <1>1, <1>4, Frame DEF TypesInv, RenameAway
    <2>2. ASSUME pc[w] \in {"match", "look"} PROVE target' # None
      <3>1. target # None BY <2>1, <2>2 DEF Complete
      <3>2. ~RenameAway(u) BY <1>4, <2>2 DEF RenameAway
      <3>3. CASE target' = target BY <3>1, <3>3
      <3>4. CASE target' # target
        <4>1. RenameIn(u) \/ UndoRename(u) \/ Npm(u)
          <5>1. ~CopyPart(u) /\ ~SetAside(u) /\ ~CopyEnds(u) BY DEF CopyPart, SetAside, CopyEnds, SwapInv, InHand
          <5> QED BY <3>2, <3>4, <5>1 DEF Step, Begin, Unpack, ReadManifest, Resolve, Resolved, LookUp, ReadNeeds,
               Collected, RenameHeld, RenameFails, MoveModule, SwapFails, UndoModule, UndoFails, DropPrevious,
               CopyFails, CleanStage, CleanNpmStage, EmptyNpmStage, FillNpmStage, Verify, Restart, RestartFails,
               StartAgain, StartFails, Die, dirs
        <4>2. target = None \/ Npm(u) BY <4>1 DEF RenameIn, UndoRename
        <4>3. Npm(u) BY <3>1, <4>2
        <4>4. target' = Installed(version[u]) BY <3>4, <4>3 DEF Npm
        <4>5. version[u] \in Versions BY DEF TypesInv, LocalsTyped
        <4> QED BY <4>4, <4>5, ReleasesAreTrees, NoneIsNoTree
      <3> QED BY <3>3, <3>4
    <2> QED BY <1>2, <2>1, <2>2 DEF Complete, Follows
  <1> QED BY <1>3, <1>4

(* A release stays one release when modules are put into it or taken from it. *)
LEMMA ModulesMoved ==
  ASSUME NEW tree \in Trees, NEW S \in SUBSET Modules, OneRelease(tree)
  PROVE  OneRelease([tree EXCEPT !.modules = S])
  BY TreeChanges DEF OneRelease

(* A module moved, and moved back. *)
LEMMA MovesInHand ==
  ASSUME TypesInv, SwapInv, ~windows, NEW u \in Updaters, MoveModule(u) \/ UndoModule(u)
  PROVE  InHand(u)' /\ (~crossed => Complete(u)')
  <1>1. Equipped(u) /\ InHand(u) /\ (~crossed => Complete(u)) BY DEF TypesInv, SwapInv
  <1>2. DOMAIN stage = Updaters /\ DOMAIN previous = Updaters /\ DOMAIN todo = Updaters
    BY DEF TypesInv, DirsTyped, StepsTyped
  <1>3. pc' = pc /\ pc[u] \in {"move", "undo"} BY DEF MoveModule, UndoModule
  <1>4. stage[u] \in Trees /\ previous[u] \in Trees /\ OneRelease(stage[u]) /\ OneRelease(previous[u])
    BY <1>1, <1>3 DEF Equipped, InHand
  <1>5. ASSUME NEW S \in SUBSET Modules, NEW P \in SUBSET Modules,
               stage' = [stage EXCEPT ![u].modules = S], previous' = [previous EXCEPT ![u].modules = P]
        PROVE  InHand(u)' /\ stage'[u].modules = S /\ previous'[u].modules = P
    <2>1. stage'[u] = [stage[u] EXCEPT !.modules = S] /\ previous'[u] = [previous[u] EXCEPT !.modules = P]
      BY <1>2, <1>5, Zenon
    <2>2. OneRelease([stage[u] EXCEPT !.modules = S]) /\ OneRelease([previous[u] EXCEPT !.modules = P])
      BY <1>4, ModulesMoved
    <2>3. [stage[u] EXCEPT !.modules = S].modules = S /\ [previous[u] EXCEPT !.modules = P].modules = P
      BY <1>4, TreeChanges
    <2>4. OneRelease(stage'[u]) /\ OneRelease(previous'[u]) BY <2>1, <2>2, Zenon
    <2>5. stage'[u].modules = S /\ previous'[u].modules = P BY <2>1, <2>3, Zenon
    <2> QED BY <1>3, <2>4, <2>5 DEF InHand
  <1>6. CASE MoveModule(u)
    <2>1. PICK m \in todo[u] \cap previous[u].modules :
            /\ previous' = [previous EXCEPT ![u].modules = @ \ {m}]
            /\ stage' = [stage EXCEPT ![u].modules = @ \cup {m}]
            /\ todo' = [todo EXCEPT ![u] = @ \ {m}]
      BY <1>6 DEF MoveModule
    <2> DEFINE S == stage[u].modules \cup {m}
               P == previous[u].modules \ {m}
    <2>2. S \in SUBSET Modules /\ P \in SUBSET Modules BY <1>4, TreeChanges
    <2>3. InHand(u)' /\ stage'[u].modules = S /\ previous'[u].modules = P BY <1>5, <2>1, <2>2
    <2>4. todo'[u] = todo[u] \ {m} /\ pc[u] = "move" BY <1>2, <1>6, <2>1 DEF MoveModule
    <2>5. ASSUME ~crossed PROVE Complete(u)'
      <3>1. /\ stage[u].modules \cup previous[u].modules = Modules
            /\ todo[u] \subseteq previous[u].modules /\ Modules \subseteq stage[u].modules \cup todo[u]
        BY <1>1, <2>4, <2>5 DEF Complete
      <3>2. S \cup P = Modules /\ todo'[u] \subseteq P /\ Modules \subseteq S \cup todo'[u] BY <2>4, <3>1
      <3> QED BY <1>3, <2>3, <2>4, <3>2 DEF Complete
    <2> QED BY <2>3, <2>5
  <1>7. CASE UndoModule(u)
    <2>1. PICK m \in stage[u].modules :
            /\ stage' = [stage EXCEPT ![u].modules = @ \ {m}]
            /\ previous' = [previous EXCEPT ![u].modules = @ \cup {m}]
      BY <1>7 DEF UndoModule
    <2> DEFINE S == stage[u].modules \ {m}
               P == previous[u].modules \cup {m}
    <2>2. S \in SUBSET Modules /\ P \in SUBSET Modules BY <1>4, TreeChanges
    <2>3. InHand(u)' /\ stage'[u].modules = S /\ previous'[u].modules = P BY <1>5, <2>1, <2>2
    <2>4. pc[u] = "undo" BY <1>7 DEF UndoModule
    <2>5. ASSUME ~crossed PROVE Complete(u)'
      <3>1. stage[u].modules \cup previous[u].modules = Modules BY <1>1, <2>4, <2>5 DEF Complete
      <3>2. S \cup P = Modules BY <3>1
      <3> QED BY <1>3, <2>3, <2>4, <3>2 DEF Complete
    <2> QED BY <2>3, <2>5
  <1> QED BY <1>6, <1>7

(* Looking through a whole release for what is carried over finds all of it. *)
LEMMA LooksInHand ==
  ASSUME TypesInv, SwapInv, ~windows, NEW u \in Updaters,
         ReadManifest(u) \/ Resolve(u) \/ Resolved(u) \/ LookUp(u) \/ ReadNeeds(u) \/ Collected(u)
  PROVE  InHand(u)' /\ (~crossed => Complete(u)')
  <1>1. /\ InHand(u) /\ (~crossed => Complete(u) /\ AllModules) /\ Equipped(u)
        /\ StepsTyped BY DEF TypesInv, SwapInv
  <1>2. UNCHANGED <<stage, previous, target, version>>
    BY DEF ReadManifest, Resolve, Resolved, LookUp, ReadNeeds, Collected, dirs, locals
  <1>3. pc[u] \in {"inspect", "match", "look"} /\ pc'[u] \in {"match", "look", "away", "clean"}
    BY <1>1 DEF StepsTyped, Goto, ReadManifest, Resolve, Resolved, LookUp, ReadNeeds, Collected, NeedsNpm
  <1>4. InHand(u)' BY <1>1, <1>2, <1>3 DEF InHand
  <1>5. ASSUME ~crossed PROVE Complete(u)'
    <2>1. Complete(u) BY <1>1, <1>5
    <2>2. target # None => Nested = Modules BY <1>1, <1>5 DEF AllModules, Nested
    <2>3. CASE ReadManifest(u) \/ Resolve(u)
      <3>1. UNCHANGED <<carried, reading>> BY <2>3 DEF ReadManifest, Resolve, locals
      <3>2. pc'[u] \in {"match", "clean"} /\ pc[u] \in {"inspect", "match"}
        BY <1>1, <2>3 DEF StepsTyped, ReadManifest, Resolve, NeedsNpm, Goto
      <3>3. pc'[u] = "match" => target # None
        BY <1>1, <2>1, <2>3 DEF StepsTyped, ReadManifest, Resolve, NeedsNpm, Goto, Complete
      <3> QED BY <1>2, <2>1, <3>1, <3>2, <3>3 DEF Complete
    <2>4. CASE Resolved(u)
      <3>1. /\ UNCHANGED <<carried, reading>> /\ pc[u] = "match" /\ pc'[u] = "look" /\ todo'[u] = Direct
        BY <1>1, <2>4 DEF StepsTyped, Resolved, Goto, locals
      <3>2. carried[u] = {} /\ target # None BY <2>1, <3>1 DEF Complete
      <3> QED BY <1>2, <3>1, <3>2 DEF Complete, Follows
    <2>5. CASE LookUp(u)
      <3>1. PICK m \in todo[u] :
              /\ todo' = [todo EXCEPT ![u] = @ \ {m}]
              /\ IF m \in Nested THEN /\ carried' = [carried EXCEPT ![u] = @ \cup {m}]
                                      /\ reading' = [reading EXCEPT ![u] = m]
                                 ELSE UNCHANGED <<carried, reading>>
        BY <2>5 DEF LookUp
      <3>2. pc[u] = "look" /\ pc' = pc /\ reading[u] = None BY <2>5 DEF LookUp
      <3>3. target # None /\ Follows(u) /\ m \in Modules BY <1>1, <2>1, <3>2 DEF Complete, Equipped
      <3>4. m \in Nested BY <2>2, <3>3
      <3>5. carried'[u] = carried[u] \cup {m} /\ reading'[u] = m /\ todo'[u] = todo[u] \ {m}
        BY <1>1, <3>1, <3>4 DEF StepsTyped
      <3>6. carried'[u] \cup todo'[u] = carried[u] \cup todo[u] BY <3>5
      <3>7. ASSUME NEW n \in carried'[u], n # reading'[u] PROVE Needs[n] \subseteq carried'[u] \cup todo'[u]
        <4>1. n \in carried[u] BY <3>5, <3>7
        <4>2. n \in Modules /\ n # None BY <1>1, <4>1, InstallAssumption DEF StepsTyped
        <4> QED BY <3>2, <3>3, <3>6, <4>1, <4>2 DEF Follows
      <3>8. Direct \subseteq carried'[u] \cup todo'[u] BY <3>3, <3>6 DEF Follows
      <3>9. Follows(u)' BY <3>7, <3>8 DEF Follows
      <3> QED BY <1>2, <3>2, <3>3, <3>9 DEF Complete
    <2>6. CASE ReadNeeds(u)
      <3>1. /\ pc[u] = "look" /\ pc' = pc /\ reading[u] # None /\ carried' = carried /\ reading'[u] = None
            /\ todo'[u] = todo[u] \cup ((IF reading[u] \in Nested THEN Needs[reading[u]] ELSE {}) \ carried[u])
        BY <1>1, <2>6 DEF StepsTyped, ReadNeeds
      <3>2. target # None /\ Follows(u) /\ reading[u] \in Modules
        BY <1>1, <2>1, <3>1 DEF Complete, StepsTyped
      <3>3. carried'[u] \cup todo'[u] = carried[u] \cup todo[u] \cup Needs[reading[u]]
        BY <2>2, <3>1, <3>2
      <3>4. Follows(u)' BY <3>1, <3>2, <3>3 DEF Follows
      <3> QED BY <1>2, <3>1, <3>2, <3>4 DEF Complete
    <2>7. CASE Collected(u)
      <3>1. /\ pc[u] = "look" /\ reading[u] = None /\ todo[u] = {} /\ pc'[u] = "away" /\ todo'[u] = carried[u]
        BY <1>1, <2>7 DEF StepsTyped, Collected, Goto
      <3>2. Follows(u) /\ carried[u] \in SUBSET Modules BY <1>1, <2>1, <3>1 DEF Complete, StepsTyped
      <3>3. Direct \subseteq carried[u] BY <3>1, <3>2 DEF Follows
      <3>4. ASSUME NEW m \in carried[u] PROVE Needs[m] \subseteq carried[u]
        <4>1. m \in Modules /\ m # None BY <3>2, InstallAssumption
        <4> QED BY <3>1, <3>2, <4>1 DEF Follows
      <3>5. carried[u] = Modules BY <3>2, <3>3, <3>4, InstallAssumption
      <3> QED BY <3>1, <3>5 DEF Complete
    <2> QED BY <2>3, <2>4, <2>5, <2>6, <2>7
  <1> QED BY <1>4, <1>5

(* An update that goes on has a release in hand, and all modules in one of its *)
(* two directories, whichever call it makes next.                             *)
LEMMA StepInHand ==
  ASSUME TypesInv, SwapInv, ~windows, NEW u \in Updaters, Step(u)
  PROVE  InHand(u)' /\ (~crossed' => Complete(u)')
  <1>1. InPlace /\ InHand(u) /\ (~crossed => Complete(u) /\ AllModules) BY DEF SwapInv
  <1>2. DOMAIN stage = Updaters /\ DOMAIN previous = Updaters /\ DOMAIN todo = Updaters
        /\ DOMAIN pc = Updaters /\ DOMAIN carried = Updaters /\ DOMAIN reading = Updaters
        /\ version[u] \in Versions /\ DOMAIN version = Updaters
    BY DEF TypesInv, DirsTyped, StepsTyped, LocalsTyped
  <1>3. CASE Begin(u) \/ Unpack(u) \* the stage holds the release found
    <2>1. /\ pc'[u] \in {"unpack", "inspect", "clean", "npm"} /\ pc[u] \in {"idle", "unpack"} /\ crossed' = crossed
          /\ carried' = carried /\ reading' = reading
      BY <1>2, <1>3 DEF Begin, Unpack, Goto, locals
    <2>2. pc'[u] = "inspect" => stage'[u] = Unpacked(version'[u])
      BY <1>2, <1>3 DEF Begin, Unpack, Goto, locals
    <2> QED BY <1>1, <2>1, <2>2 DEF InHand, Complete
  <1>4. CASE ReadManifest(u) \/ Resolve(u) \/ Resolved(u) \/ LookUp(u) \/ ReadNeeds(u) \/ Collected(u)
    <2>1. crossed' = crossed BY <1>4 DEF ReadManifest, Resolve, Resolved, LookUp, ReadNeeds, Collected
    <2> QED BY <1>4, <2>1, LooksInHand
  <1>5. CASE RenameAway(u)
    <2>1. /\ stage'[u] = Unpacked(version[u]) /\ previous'[u] = target /\ todo'[u] = todo[u]
          /\ pc[u] = "away" /\ pc'[u] = "move" /\ target # None
      BY <1>1, <1>2, <1>5 DEF RenameAway, InHand, Goto
    <2>2. OneRelease(stage'[u]) /\ stage'[u].modules = {} /\ OneRelease(previous'[u])
      BY <1>1, <1>2, <2>1, ReleasesAreTrees DEF InPlace
    <2>3. ASSUME ~crossed' PROVE Complete(u)'
      <3>1. ~crossed BY <1>5, <2>3 DEF RenameAway
      <3>2. todo[u] = Modules /\ target.modules = Modules BY <1>1, <2>1, <3>1 DEF Complete, AllModules
      <3> QED BY <2>1, <2>2, <3>2 DEF Complete
    <2> QED BY <2>1, <2>2, <2>3 DEF InHand
  <1>6. CASE MoveModule(u) \/ UndoModule(u)
    <2>1. crossed' = crossed BY <1>6 DEF MoveModule, UndoModule
    <2> QED BY <1>6, <2>1, MovesInHand
  <1>7. CASE SwapFails(u)
    <2>1. /\ pc[u] = "move" /\ pc'[u] = "undo" /\ UNCHANGED <<stage, previous>> /\ crossed' = crossed
      BY <1>2, <1>7 DEF SwapFails, Goto, dirs
    <2> QED BY <1>1, <2>1 DEF InHand, Complete
  <1>8. CASE RenameFails(u) \/ RenameIn(u) \/ UndoRename(u) \/ UndoFails(u)
             \/ DropPrevious(u) \/ CleanStage(u) \/ CleanNpmStage(u) \/ Npm(u)
             \/ Verify(u) \/ Restart(u) \/ RestartFails(u) \/ StartAgain(u) \/ StartFails(u) \/ Die(u)
    <2>1. pc'[u] \notin {"idle", "unpack", "inspect", "match", "look", "away", "move", "undo", "copy",
                         "empty", "fill"}
      BY <1>2, <1>8 DEF RenameFails, RenameIn, UndoRename, UndoFails, DropPrevious, CleanStage,
         CleanNpmStage, Npm, Verify, Restart, RestartFails, StartAgain, StartFails, Die,
         Goto, Continue
    <2> QED BY <2>1 DEF InHand, Complete
  <1> QED BY <1>1, <1>3, <1>4, <1>5, <1>6, <1>7, <1>8
        DEF Step, RenameHeld, CopyPart, SetAside, CopyFails, CopyEnds, EmptyNpmStage, FillNpmStage, InHand

(* A package is at its place whole, whoever put it there. *)
LEMMA StepInPlace ==
  ASSUME TypesInv, SwapInv, ~windows, NEW u \in Updaters, Step(u)
  PROVE  InPlace' /\ (~crossed' => AllModules')
  <1>1. /\ InPlace /\ InHand(u) /\ (~crossed => AllModules /\ Complete(u)) /\ Equipped(u)
    BY DEF SwapInv, TypesInv
  <1>2. ~crossed' => ~crossed BY Frame DEF TypesInv, LocalsTyped, RenameAway
  <1>3. CASE RenameAway(u) BY <1>3 DEF RenameAway, InPlace, AllModules
  <1>4. CASE RenameIn(u)
    <2>1. target' = stage[u] /\ OneRelease(stage[u]) /\ stage[u] \in Trees
      BY <1>1, <1>4 DEF RenameIn, InHand, Equipped
    <2>2. ~crossed => stage[u].modules = Modules
      BY <1>1, <1>4 DEF RenameIn, Complete
    <2> QED BY <1>2, <2>1, <2>2 DEF InPlace, OneRelease, AllModules
  <1>5. CASE UndoRename(u)
    <2>1. target' = previous[u] /\ OneRelease(previous[u]) /\ previous[u] \in Trees
      BY <1>1, <1>5 DEF UndoRename, InHand, Equipped
    <2>2. ~crossed => previous[u].modules = Modules
      BY <1>1, <1>5 DEF UndoRename, Complete
    <2> QED BY <1>2, <2>1, <2>2 DEF InPlace, OneRelease, AllModules
  <1>6. CASE Npm(u)
    <2>1. version[u] \in Versions BY DEF TypesInv, LocalsTyped
    <2>2. target' = target \/ target' = Installed(version[u]) BY <1>6 DEF Npm
    <2>3. CASE target' = target BY <1>1, <1>2, <2>3 DEF InPlace, OneRelease, AllModules
    <2>4. CASE target' = Installed(version[u])
      BY <2>1, <2>4, ReleasesAreTrees DEF InPlace, OneRelease, AllModules
    <2> QED BY <2>2, <2>3, <2>4
  <1>7. CASE ~(RenameAway(u) \/ RenameIn(u) \/ UndoRename(u) \/ Npm(u))
    <2>1. ~CopyPart(u) /\ ~SetAside(u) /\ ~CopyEnds(u) BY <1>1 DEF CopyPart, SetAside, CopyEnds, InHand
    <2>2. target' = target
      BY <1>7, <2>1 DEF Step, Begin, Unpack, ReadManifest, Resolve, Resolved, LookUp, ReadNeeds,
         Collected, NeedsNpm, RenameAway, RenameHeld, RenameFails, MoveModule, RenameIn, SwapFails,
         UndoModule, UndoRename, UndoFails, DropPrevious, CopyPart, SetAside, CopyFails, CopyEnds,
         CleanStage, CleanNpmStage, Npm, EmptyNpmStage, FillNpmStage, Verify, Restart, RestartFails,
         StartAgain, StartFails, Die, dirs
    <2> QED BY <1>1, <1>2, <2>2 DEF InPlace, OneRelease, AllModules
  <1> QED BY <1>3, <1>4, <1>5, <1>6, <1>7

(* While the package is away somebody answers for it: a step that leaves "move" *)
(* puts a release in its place, or fails and is undone; a second failure is one *)
(* more than the claim allows.                                                 *)
LEMMA StepHeld ==
  ASSUME TypesInv, SwapInv, ~windows, NEW u \in Updaters, Step(u), ~crossed'
  PROVE  Held'
  <1>1. ~crossed BY Frame DEF TypesInv, LocalsTyped, RenameAway
  <1>2. /\ Held /\ Complete(u) /\ InHand(u) /\ Equipped(u) /\ DOMAIN pc = Updaters
        /\ faults \in Nat /\ deaths \in Nat
    BY <1>1, InstallAssumption DEF SwapInv, TypesInv, StepsTyped, LocalsTyped
  <1>3. /\ \A w \in Updaters \ {u} : pc'[w] = pc[w]
        /\ faults' = faults \/ faults' = faults + 1
        /\ deaths' = deaths \/ deaths' = deaths + 1
    BY Frame DEF TypesInv
  <1>4. CASE RenameAway(u)
    BY <1>2, <1>4 DEF RenameAway, Goto, Held
  <1>5. CASE RenameIn(u) \/ UndoRename(u)
    <2>1. target' # None
      BY <1>2, <1>5, TreeChanges DEF RenameIn, UndoRename, Equipped
    <2> QED BY <2>1 DEF Held
  <1>6. CASE Npm(u)
    <2>1. version[u] \in Versions BY DEF TypesInv, LocalsTyped
    <2>2. CASE target' = Installed(version[u])
      <3>1. target' # None BY <2>1, <2>2, ReleasesAreTrees, NoneIsNoTree
      <3> QED BY <3>1 DEF Held
    <2>3. CASE target' = target
      BY <1>2, <1>3, <1>6, <2>3 DEF Held, Npm
    <2> QED BY <1>6, <2>2, <2>3 DEF Npm
  <1>7. CASE MoveModule(u) \/ UndoModule(u)
    BY <1>2, <1>7 DEF MoveModule, UndoModule, Held
  <1>8. CASE SwapFails(u)
    <2>1. pc[u] = "move" /\ pc'[u] = "undo" /\ deaths' = deaths /\ target' = target
      BY <1>2, <1>8 DEF SwapFails, Goto, dirs
    <2>2. todo[u] \subseteq previous[u].modules BY <1>2, <2>1 DEF Complete
    <2>3. target # None \/ faults' = faults + 1 BY <1>8, <2>2 DEF SwapFails, Fault
    <2>4. CASE target # None BY <2>1, <2>4 DEF Held
    <2>5. CASE faults' = faults + 1 BY <1>2, <2>1, <2>5 DEF Held
    <2> QED BY <2>3, <2>4, <2>5
  <1>9. CASE UndoFails(u)
    <2>1. pc[u] = "undo" /\ deaths' = deaths /\ target' = target
      BY <1>9 DEF UndoFails, dirs
    <2>2. target # None \/ faults' = faults + 1 BY <1>9 DEF UndoFails, Fault
    <2>3. CASE target # None BY <2>1, <2>3 DEF Held
    <2>4. CASE faults' = faults + 1 BY <1>2, <1>3, <2>1, <2>4 DEF Held
    <2> QED BY <2>2, <2>3, <2>4
  <1>10. CASE Die(u)
    BY <1>2, <1>10 DEF Die, Held
  <1>11. CASE pc[u] \notin {"move", "undo"} /\ target' = target
    BY <1>2, <1>3, <1>11 DEF Held
  <1>12. ~(RenameHeld(u) \/ CopyPart(u) \/ SetAside(u) \/ CopyFails(u) \/ CopyEnds(u))
    BY <1>2 DEF RenameHeld, CopyPart, SetAside, CopyFails, CopyEnds, InHand
  <1>13. CASE Begin(u) \/ Unpack(u) \/ ReadManifest(u) \/ Resolve(u) \/ Resolved(u) \/ LookUp(u)
              \/ ReadNeeds(u) \/ Collected(u) \/ RenameFails(u) \/ DropPrevious(u) \/ CleanStage(u)
              \/ CleanNpmStage(u) \/ EmptyNpmStage(u) \/ FillNpmStage(u) \/ Verify(u) \/ Restart(u)
              \/ RestartFails(u) \/ StartAgain(u) \/ StartFails(u)
    <2>1. pc[u] \notin {"move", "undo"} /\ target' = target
      BY <1>13 DEF Begin, Unpack, ReadManifest, Resolve, Resolved, LookUp, ReadNeeds, Collected,
           RenameFails, DropPrevious, CleanStage, CleanNpmStage, EmptyNpmStage, FillNpmStage, Verify,
           Restart, RestartFails, StartAgain, StartFails, dirs
    <2> QED BY <1>11, <2>1
  <1> QED BY <1>4, <1>5, <1>6, <1>7, <1>8, <1>9, <1>10, <1>12, <1>13 DEF Step

LEMMA NextSwap == TypesInv /\ SwapInv /\ [Next]_vars => SwapInv'
  <1> SUFFICES ASSUME TypesInv, SwapInv, [Next]_vars PROVE SwapInv'
    OBVIOUS
  <1>1. CASE UNCHANGED vars
    BY <1>1 DEF SwapInv, InPlace, AllModules, OneRelease, Held, InHand, Complete, Follows, vars, dirs, locals, services
  <1>2. CASE Next
    <2>1. PICK u \in Updaters : Step(u) BY <1>2 DEF Next
    <2>2. windows' = windows BY <2>1, Frame DEF TypesInv
    <2>3. CASE windows BY <2>2, <2>3 DEF SwapInv
    <2>4. CASE ~windows
      <3>1. InPlace' /\ (~crossed' => AllModules' /\ Held') BY <2>1, <2>4, StepInPlace, StepHeld
      <3>2. \A w \in Updaters : InHand(w)' /\ (~crossed' => Complete(w)') BY <2>1, <2>4, StepInHand, OthersKeep
      <3> QED BY <3>1, <3>2 DEF SwapInv
    <2> QED BY <2>3, <2>4
  <1> QED BY <1>1, <1>2

LEMMA SwapWhole == SwapInv => ReleaseIsWhole
  <1> SUFFICES ASSUME SwapInv, ~windows
      PROVE  /\ target # None => OneRelease(target)
             /\ ~crossed => /\ target # None => Whole(target)
                            /\ AtRest /\ faults <= 1 => target # None
    BY DEF ReleaseIsWhole
  <1>1. AtRest => \A u \in Updaters : pc[u] \notin {"move", "undo"} BY DEF AtRest, Ends
  <1> QED BY <1>1 DEF SwapInv, InPlace, AllModules, Held, Whole, AtRest

(* Where directories can be renamed, a package found at its place has the files *)
(* of one release, whoever updates, fails and dies; and unless an update renamed *)
(* it away while another looked through it, it has all its modules, and there is *)
(* one after updates that nobody's death and at most one failing call disturbed  *)
(* (carriedModules, swap and its undoing).                                      *)
THEOREM ReleaseStaysWhole == Spec => []ReleaseIsWhole
  BY InitInstall, NextInstall, InitSwap, NextSwap, SwapWhole, PTL DEF Spec

(***************************************************************************)
(* The services of a workstation on which one update runs.                 *)
(***************************************************************************)

(* The update is the only one, nobody died, and services were to run. *)
Alone(u) == wanted /\ deaths = 0 /\ \A w \in Updaters \ {u} : pc[w] = "idle"

(* What became of the services so far. *)
Stopping(u) ==
  /\ pc[u] = "idle" => running = 1
  /\ pc[u] \notin {"idle"} \cup Ends =>
       wasRunning[u] /\ (stopped[u] <=> windows) /\ running = IF windows THEN None ELSE 1
  /\ pc[u] = "over" /\ target # None /\ Whole(target) =>
       running # None /\ (u \in Commands /\ ok[u] => running = target.own[Manifest])
  /\ pc[u] \in {"thrown", "down"} => ~ok[u] /\ faults > 0

(* The package is whole before the swap and after a success, and, as long as no call *)
(* failed, whenever it is neither swapped nor copied; while it is, what will be there *)
(* or is not yet copied is at hand.                                                 *)
Before == {"idle", "unpack", "inspect", "match", "look", "away"}
After == {"drop", "clean", "tidy", "verify", "finish"} \cup Ends
Fresh(u) == [p \in Parts |-> version[u]]
Kept(u) ==
  /\ pc[u] # "dead"
  /\ pc[u] \notin After => ~ok[u]
  /\ pc[u] \in Before \/ ok[u] \/ (faults = 0 /\ pc[u] \notin {"move", "copy"}) =>
       target # None /\ Whole(target)
  /\ pc[u] \in {"inspect", "match", "look", "away"} => stage[u] = Unpacked(version[u])
  /\ pc[u] \in {"idle", "unpack", "inspect", "match"} => carried[u] = {} /\ reading[u] = None
  /\ pc[u] = "look" => Follows(u)
  /\ pc[u] = "away" => todo[u] = Modules /\ carried[u] = Modules
  /\ pc[u] = "move" =>
       /\ stage[u].own = Fresh(u) /\ target = None
       /\ todo[u] \subseteq previous[u].modules /\ stage[u].modules = Modules \ todo[u]
  /\ faults = 0 => pc[u] # "undo"
  /\ pc[u] \in {"empty", "fill"} => target # None
  /\ pc[u] = "copy" =>
       /\ target # None /\ Source(u) # None /\ Source(u).own = Fresh(u)
       /\ \A p \in Parts \ todo[u] : target.own[p] = version[u]
       /\ ~ByNpm(u) => target.modules = Modules /\ carried[u] = Modules

BackInv == \A u \in Updaters : Alone(u) => Stopping(u) /\ Kept(u)

LEMMA BackInit == Init => BackInv
  <1> SUFFICES ASSUME Init, NEW u \in Updaters, Alone(u) PROVE Stopping(u) /\ Kept(u)
    BY DEF BackInv
  <1>1. Stopping(u) BY DEF Init, Alone, Stopping, Ends
  <1>2. target # None /\ Whole(target) /\ pc[u] = "idle" BY ReleasesAreTrees, NoneIsNoTree DEF Init
  <1>3. Kept(u) BY <1>2 DEF Init, Kept, After, Ends
  <1> QED BY <1>1, <1>3

(* A release whose parts are of one version, with all modules, is whole. *)
LEMMA FreshIsWhole ==
  ASSUME TypesInv, NEW u \in Updaters, NEW tree,
         \A p \in Parts : tree.own[p] = version[u], tree.modules = Modules
  PROVE  Whole(tree)
  <1>1. version[u] # None BY NoneIsNoTree DEF TypesInv, LocalsTyped
  <1> QED BY <1>1, InstallAssumption DEF Whole, OneRelease

(* Services stop at most once for an update, and what it starts at its end is what *)
(* is on disk, if that is a whole release.                                         *)
LEMMA StoppingStep ==
  ASSUME TypesInv, BackInv, NEW u \in Updaters, Step(u), Alone(u), Alone(u)'
  PROVE  Stopping(u)'
  <1>1. Stopping(u) /\ Kept(u) /\ deaths = 0 /\ deaths' = 0 BY DEF BackInv, Alone
  <1>2. None # 1 /\ DOMAIN pc = Updaters /\ DOMAIN ok = Updaters /\ faults \in Nat
        /\ DOMAIN wasRunning = Updaters /\ DOMAIN stopped = Updaters
    BY InstallAssumption DEF TypesInv, StepsTyped, LocalsTyped
  <1>3. CASE Begin(u)
    BY <1>1, <1>2, <1>3 DEF Stopping, Begin, Goto, Ends
  <1>4. CASE Restart(u) \/ StartAgain(u)
    <2>1. /\ pc[u] = "finish" /\ pc'[u] = "over" /\ target' = target /\ ok' = ok
          /\ wasRunning[u] /\ (stopped[u] <=> windows) /\ running = IF windows THEN None ELSE 1
      BY <1>1, <1>2, <1>4 DEF Stopping, Restart, StartAgain, Goto, dirs, Ends
    <2>2. ASSUME target # None, Whole(target)
          PROVE  running' # None /\ (u \in Commands /\ ok[u] => running' = target.own[Manifest])
      <3>1. Starts = target.own[Manifest] /\ Starts # None BY <2>2 DEF Starts, Whole, OneRelease
      <3> QED BY <1>2, <1>4, <2>1, <3>1 DEF Restart, StartAgain
    <2>3. Whole(target)' = Whole(target) BY <2>1 DEF Whole, OneRelease
    <2> QED BY <2>1, <2>2, <2>3 DEF Stopping, Ends
  <1>5. CASE RestartFails(u)
    <2>1. ok[u] /\ pc'[u] = "down" /\ ~ok'[u] BY <1>2, <1>5 DEF RestartFails, Goto
    <2>2. target # None /\ Whole(target) BY <1>1, <2>1 DEF Kept
    <2>3. Starts # None BY <2>2 DEF Starts, Whole, OneRelease
    <2>4. faults' > 0 BY <1>2, <1>5, <2>3 DEF RestartFails, Fault
    <2> QED BY <2>1, <2>4 DEF Stopping, Ends
  <1>6. CASE StartFails(u)
    <2>1. pc'[u] = "down" /\ ~ok'[u] /\ faults' > 0 BY <1>2, <1>6 DEF StartFails, Goto, Fault
    <2> QED BY <2>1 DEF Stopping, Ends
  <1>7. CASE EmptyNpmStage(u) /\ pc'[u] = "thrown"
    <2>1. ~ok'[u] BY <1>1, <1>7 DEF Kept, EmptyNpmStage, After, Ends
    <2>2. faults' > 0 BY <1>2, <1>7 DEF EmptyNpmStage, Fault, Goto
    <2> QED BY <1>7, <2>1, <2>2 DEF Stopping, Ends
  <1>8. CASE Die(u)
    BY <1>1, <1>8 DEF Die
  <1>9. CASE ~(\/ Begin(u) \/ Restart(u) \/ StartAgain(u) \/ RestartFails(u) \/ StartFails(u) \/ Die(u)
               \/ EmptyNpmStage(u) /\ pc'[u] = "thrown")
    <2>1. pc[u] \notin {"idle"} \cup Ends /\ pc'[u] \notin {"idle"} \cup Ends
      BY <1>1, <1>2, <1>9 DEF Ends, Step, Begin, Unpack, ReadManifest, Resolve, Resolved, LookUp, ReadNeeds,
         Collected, NeedsNpm, RenameAway, RenameHeld, RenameFails, MoveModule, RenameIn, SwapFails,
         UndoModule, UndoRename, UndoFails, DropPrevious, CopyPart, SetAside, CopyFails, CopyEnds,
         CleanStage, CleanNpmStage, Npm, EmptyNpmStage, FillNpmStage, Verify, Restart, RestartFails,
         StartAgain, StartFails, Die, Goto, Continue
    <2>2. UNCHANGED <<windows, stopped, wasRunning, running>>
      BY <1>9 DEF Step, Begin, Unpack, ReadManifest, Resolve, Resolved, LookUp, ReadNeeds,
         Collected, NeedsNpm, RenameAway, RenameHeld, RenameFails, MoveModule, RenameIn, SwapFails,
         UndoModule, UndoRename, UndoFails, DropPrevious, CopyPart, SetAside, CopyFails, CopyEnds,
         CleanStage, CleanNpmStage, Npm, EmptyNpmStage, FillNpmStage, Verify, Restart, RestartFails,
         StartAgain, StartFails, Die, locals, services
    <2> QED BY <1>1, <2>1, <2>2 DEF Stopping, Ends
  <1> QED BY <1>3, <1>4, <1>5, <1>6, <1>7, <1>8, <1>9

(* An update that is alone finds the package whole when it looks through it. *)
LEMMA LooksKept ==
  ASSUME TypesInv, BackInv, NEW u \in Updaters, Alone(u),
         ReadManifest(u) \/ Resolve(u) \/ Resolved(u) \/ LookUp(u) \/ ReadNeeds(u) \/ Collected(u)
  PROVE  Kept(u)'
  <1>1. Kept(u) /\ StepsTyped /\ Equipped(u) BY DEF BackInv, TypesInv
  <1>2. UNCHANGED <<stage, target, version, ok, faults>>
    BY DEF ReadManifest, Resolve, Resolved, LookUp, ReadNeeds, Collected, dirs, locals
  <1>3. pc[u] \in {"inspect", "match", "look"} /\ pc'[u] \in {"match", "look", "away", "clean"}
    BY <1>1 DEF StepsTyped, Goto, ReadManifest, Resolve, Resolved, LookUp, ReadNeeds, Collected, NeedsNpm
  <1>4. /\ target # None /\ Whole(target) /\ ~ok[u] /\ Nested = Modules
        /\ stage[u] = Unpacked(version[u])
    BY <1>1, <1>3 DEF Kept, Before, After, Ends, Nested, Whole
  <1>5. target' # None /\ Whole(target)' BY <1>2, <1>4 DEF Whole, OneRelease
  <1>6. SUFFICES /\ pc'[u] = "match" => carried'[u] = {} /\ reading'[u] = None
                 /\ pc'[u] = "look" => Follows(u)'
                 /\ pc'[u] = "away" => todo'[u] = Modules /\ carried'[u] = Modules
    BY <1>2, <1>3, <1>4, <1>5 DEF Kept, After, Ends
  <1>7. CASE ReadManifest(u) \/ Resolve(u)
    <2>1. UNCHANGED <<carried, reading>> /\ pc'[u] \in {"match", "clean"} /\ pc[u] \in {"inspect", "match"}
      BY <1>1, <1>7 DEF ReadManifest, Resolve, NeedsNpm, Goto, StepsTyped, locals
    <2> QED BY <1>1, <2>1 DEF Kept
  <1>8. CASE Resolved(u)
    <2>1. /\ UNCHANGED <<carried, reading>> /\ pc[u] = "match" /\ pc'[u] = "look" /\ todo'[u] = Direct
      BY <1>1, <1>8 DEF StepsTyped, Resolved, Goto, locals
    <2> QED BY <1>1, <2>1 DEF Kept, Follows
  <1>9. CASE LookUp(u)
    <2>1. pc[u] = "look" /\ pc' = pc /\ reading[u] = None BY <1>9 DEF LookUp
    <2>2. Follows(u) /\ todo[u] \subseteq Modules BY <1>1, <2>1 DEF Kept, Equipped
    <2>3. PICK m \in todo[u] :
            /\ todo' = [todo EXCEPT ![u] = @ \ {m}]
            /\ IF m \in Nested THEN /\ carried' = [carried EXCEPT ![u] = @ \cup {m}]
                                    /\ reading' = [reading EXCEPT ![u] = m]
                               ELSE UNCHANGED <<carried, reading>>
      BY <1>9 DEF LookUp
    <2>4. carried'[u] = carried[u] \cup {m} /\ reading'[u] = m /\ todo'[u] = todo[u] \ {m}
      BY <1>1, <1>4, <2>2, <2>3 DEF StepsTyped
    <2>5. carried'[u] \cup todo'[u] = carried[u] \cup todo[u] BY <2>4
    <2>6. ASSUME NEW n \in carried'[u], n # reading'[u] PROVE Needs[n] \subseteq carried'[u] \cup todo'[u]
      <3>1. n \in carried[u] BY <2>4, <2>6
      <3>2. n \in Modules /\ n # None BY <1>1, <3>1, InstallAssumption DEF StepsTyped
      <3> QED BY <2>1, <2>2, <2>5, <3>1, <3>2 DEF Follows
    <2>7. Direct \subseteq carried'[u] \cup todo'[u] BY <2>2, <2>5 DEF Follows
    <2>8. Follows(u)' BY <2>6, <2>7 DEF Follows
    <2> QED BY <2>1, <2>8
  <1>10. CASE ReadNeeds(u)
    <2>1. /\ pc[u] = "look" /\ pc' = pc /\ reading[u] # None /\ carried' = carried /\ reading'[u] = None
          /\ todo'[u] = todo[u] \cup ((IF reading[u] \in Nested THEN Needs[reading[u]] ELSE {}) \ carried[u])
      BY <1>1, <1>10 DEF StepsTyped, ReadNeeds
    <2>2. Follows(u) /\ reading[u] \in Modules BY <1>1, <2>1 DEF Kept, StepsTyped
    <2>3. carried'[u] \cup todo'[u] = carried[u] \cup todo[u] \cup Needs[reading[u]]
      BY <1>4, <2>1, <2>2
    <2>4. Follows(u)' BY <2>1, <2>2, <2>3 DEF Follows
    <2> QED BY <2>1, <2>4
  <1>11. CASE Collected(u)
    <2>1. /\ pc[u] = "look" /\ reading[u] = None /\ todo[u] = {} /\ pc'[u] = "away"
          /\ todo'[u] = carried[u] /\ carried' = carried
      BY <1>1, <1>11 DEF StepsTyped, Collected, Goto, locals
    <2>2. Follows(u) /\ carried[u] \in SUBSET Modules BY <1>1, <2>1 DEF Kept, StepsTyped
    <2>3. Direct \subseteq carried[u] BY <2>1, <2>2 DEF Follows
    <2>4. ASSUME NEW m \in carried[u] PROVE Needs[m] \subseteq carried[u]
      <3>1. m \in Modules /\ m # None BY <2>2, InstallAssumption
      <3> QED BY <2>1, <2>2, <3>1 DEF Follows
    <2>5. carried[u] = Modules BY <2>2, <2>3, <2>4, InstallAssumption
    <2> QED BY <2>1, <2>5
  <1> QED BY <1>7, <1>8, <1>9, <1>10, <1>11

(* A package that is copied over takes the release part by part, and keeps what is carried over. *)
LEMMA CopyKept ==
  ASSUME TypesInv, BackInv, NEW u \in Updaters, Alone(u),
         CopyPart(u) \/ SetAside(u) \/ CopyEnds(u)
  PROVE  Kept(u)'
  <1>1. /\ Kept(u) /\ DirsTyped /\ StepsTyped /\ Equipped(u) /\ DOMAIN ok = Updaters /\ version[u] \in Versions
    BY DEF BackInv, TypesInv, LocalsTyped
  <1>2. pc[u] = "copy" /\ UNCHANGED <<stage, npmStage, sources, version, carried, faults>>
    BY DEF CopyPart, SetAside, CopyEnds, locals
  <1>3. /\ target # None /\ Source(u) # None /\ Source(u).own = Fresh(u) /\ todo[u] \subseteq Parts
        /\ \A q \in Parts \ todo[u] : target.own[q] = version[u]
        /\ ~ByNpm(u) => target.modules = Modules /\ carried[u] = Modules
        /\ ~ok[u]
    BY <1>1, <1>2 DEF Kept, Equipped, After, Ends
  <1>4. target \in Trees BY <1>1, <1>3 DEF DirsTyped, Dirs
  <1>5. Source(u)' = Source(u) /\ Fresh(u)' = Fresh(u) /\ (ByNpm(u)' <=> ByNpm(u)) BY <1>2 DEF Source, ByNpm, Fresh
  <1>6. CASE CopyPart(u) \/ SetAside(u)
    <2>1. PICK p \in todo[u], v \in Versions \cup {None} :
            /\ target' = [target EXCEPT !.own[p] = v]
            /\ (v = version[u] /\ todo' = [todo EXCEPT ![u] = @ \ {p}]) \/ todo' = todo
      <3>1. CASE CopyPart(u)
        <4>1. PICK p \in todo[u] : /\ target' = [target EXCEPT !.own[p] = Source(u).own[p]]
                                   /\ todo' = [todo EXCEPT ![u] = @ \ {p}]
          BY <3>1 DEF CopyPart
        <4>2. Source(u).own[p] = version[u] BY <1>3, <4>1 DEF Fresh
        <4> QED BY <1>1, <4>1, <4>2
      <3>2. CASE SetAside(u) BY <3>2 DEF SetAside
      <3> QED BY <1>6, <3>1, <3>2
    <2>2. target' \in Trees /\ target'.own = [target.own EXCEPT ![p] = v] /\ target'.modules = target.modules
      BY <1>3, <1>4, <2>1, TreeChanges
    <2>3. target' # None BY <2>2, NoneIsNoTree
    <2>4. ASSUME NEW q \in Parts \ todo'[u] PROVE target'.own[q] = version[u]
      <3>1. target.own \in [Parts -> Versions \cup {None}] BY <1>4, TreeChanges
      <3> QED BY <1>1, <1>3, <2>1, <2>2, <3>1 DEF StepsTyped
    <2>5. pc' = pc /\ ok' = ok BY <1>6 DEF CopyPart, SetAside
    <2> QED BY <1>2, <1>3, <1>5, <2>2, <2>3, <2>4, <2>5 DEF Kept, Before, After, Ends
  <1>7. CASE CopyEnds(u)
    <2>1. PICK kept \in SUBSET Nested :
            /\ Nested \cap carried[u] \subseteq kept
            /\ target' = [target EXCEPT !.modules = IF ByNpm(u) THEN Modules ELSE kept]
      BY <1>3, <1>7 DEF CopyEnds
    <2>2. ~ByNpm(u) => kept = Modules BY <1>3, <2>1 DEF Nested
    <2>3. target' = [target EXCEPT !.modules = Modules] BY <2>1, <2>2
    <2>4. target'.own = target.own /\ target'.modules = Modules /\ target' \in Trees BY <1>4, <2>3, TreeChanges
    <2>5. todo[u] = {} /\ pc'[u] \in {"tidy", "clean"} BY <1>1, <1>7 DEF CopyEnds, Goto, StepsTyped
    <2>6. Whole(target')
      <3>1. \A p \in Parts : target'.own[p] = version[u] BY <1>3, <2>4, <2>5
      <3> QED BY <2>4, <3>1, FreshIsWhole
    <2>7. target' # None /\ Whole(target)' BY <2>4, <2>6, NoneIsNoTree DEF Whole, OneRelease
    <2> QED BY <2>5, <2>7 DEF Kept, Before, After, Ends
  <1> QED BY <1>6, <1>7

(* Each step of the only update leaves the package whole, or the rest of it at hand. *)
LEMMA KeptStep ==
  ASSUME TypesInv, BackInv, NEW u \in Updaters, Step(u), Alone(u), Alone(u)'
  PROVE  Kept(u)'
  <1>1. Kept(u) /\ deaths = 0 /\ deaths' = 0 BY DEF BackInv, Alone
  <1>2. /\ DirsTyped /\ StepsTyped /\ Equipped(u) /\ SourcesLeft(u) /\ version[u] \in Versions
        /\ DOMAIN ok = Updaters /\ DOMAIN version = Updaters /\ faults \in Nat /\ DOMAIN sources = Updaters
    BY InstallAssumption DEF TypesInv, LocalsTyped
  <1>3. faults' = faults \/ faults' = faults + 1 BY Frame DEF TypesInv
  <1>4. faults' = 0 => faults = 0 BY <1>2, <1>3
  <1>5. CASE Begin(u) \/ Unpack(u)
    <2>1. /\ target' = target /\ ok' = ok /\ UNCHANGED <<carried, reading>> /\ pc[u] \in {"idle", "unpack"}
          /\ pc'[u] \in {"unpack", "inspect", "clean", "npm"}
          /\ pc'[u] = "inspect" => stage'[u] = Unpacked(version'[u])
      BY <1>2, <1>5 DEF Begin, Unpack, Goto, locals, dirs, StepsTyped, DirsTyped
    <2>2. target' # None /\ Whole(target)' BY <1>1, <2>1 DEF Kept, Before, Whole, OneRelease
    <2> QED BY <1>1, <2>1, <2>2 DEF Kept, After, Ends
  <1>6. CASE ReadManifest(u) \/ Resolve(u) \/ Resolved(u) \/ LookUp(u) \/ ReadNeeds(u) \/ Collected(u)
    BY <1>6, LooksKept
  <1>7. CASE RenameAway(u)
    <2>1. /\ pc[u] = "away" /\ pc'[u] = "move" /\ target' = None /\ previous'[u] = target
          /\ UNCHANGED <<stage, todo, version, ok>>
      BY <1>2, <1>7 DEF RenameAway, Goto, locals, StepsTyped, DirsTyped
    <2>2. /\ stage[u] = Unpacked(version[u]) /\ todo[u] = Modules /\ target.modules = Modules /\ ~ok[u]
      BY <1>1, <2>1 DEF Kept, Before, After, Ends, Whole
    <2>3. stage[u].own = Fresh(u) /\ stage[u].modules = {} BY <2>2 DEF Unpacked, Fresh
    <2>4. Fresh(u)' = Fresh(u) BY <2>1 DEF Fresh
    <2> QED BY <2>1, <2>2, <2>3, <2>4 DEF Kept, Before, After, Ends
  <1>8. CASE RenameHeld(u)
    <2>1. /\ pc[u] = "away" /\ pc'[u] = "copy" /\ todo'[u] = Parts
          /\ UNCHANGED <<target, stage, npmStage, sources, version, ok, carried>>
      BY <1>2, <1>8 DEF RenameHeld, Goto, dirs, locals, StepsTyped
    <2>2. /\ target # None /\ target.modules = Modules /\ carried[u] = Modules /\ ~ok[u]
          /\ stage[u] = Unpacked(version[u])
      BY <1>1, <2>1 DEF Kept, Before, After, Ends, Whole
    <2>3. Source(u)' = stage[u] /\ ~ByNpm(u)' BY <1>2, <2>1 DEF SourcesLeft, Source, ByNpm
    <2>4. Source(u)' # None /\ Source(u)'.own = Fresh(u)'
      <3>1. Unpacked(version[u]) # None /\ Unpacked(version[u]).own = Fresh(u)
        BY <1>2, ReleasesAreTrees, NoneIsNoTree DEF Fresh, Unpacked
      <3>2. Fresh(u)' = Fresh(u) BY <2>1 DEF Fresh
      <3> QED BY <2>2, <2>3, <3>1, <3>2
    <2> QED BY <2>1, <2>2, <2>3, <2>4 DEF Kept, Before, After, Ends
  <1>9. CASE MoveModule(u)
    <2>1. PICK m \in todo[u] \cap previous[u].modules :
            /\ previous' = [previous EXCEPT ![u].modules = @ \ {m}]
            /\ stage' = [stage EXCEPT ![u].modules = @ \cup {m}]
            /\ todo' = [todo EXCEPT ![u] = @ \ {m}]
      BY <1>9 DEF MoveModule
    <2>2. pc[u] = "move" /\ UNCHANGED <<pc, target, version, ok, faults>> BY <1>9 DEF MoveModule, locals
    <2>3. /\ stage[u] \in Trees /\ previous[u] \in Trees /\ todo[u] \subseteq Modules
          /\ stage[u].own = Fresh(u) /\ target = None /\ ~ok[u]
          /\ todo[u] \subseteq previous[u].modules /\ stage[u].modules = Modules \ todo[u]
      BY <1>1, <1>2, <2>2 DEF Kept, Equipped, After, Ends
    <2> DEFINE S == stage[u].modules \cup {m}
               P == previous[u].modules \ {m}
    <2>4. S \in SUBSET Modules /\ P \in SUBSET Modules BY <2>3, TreeChanges
    <2>5. stage'[u] = [stage[u] EXCEPT !.modules = S] /\ previous'[u] = [previous[u] EXCEPT !.modules = P]
      BY <1>2, <2>1 DEF DirsTyped
    <2>6. /\ [stage[u] EXCEPT !.modules = S].own = stage[u].own /\ [stage[u] EXCEPT !.modules = S].modules = S
          /\ [previous[u] EXCEPT !.modules = P].modules = P
      BY <2>3, <2>4, TreeChanges
    <2>7. stage'[u].own = stage[u].own /\ stage'[u].modules = S /\ previous'[u].modules = P
      BY <2>5, <2>6, Zenon
    <2>8. todo'[u] = todo[u] \ {m} BY <1>2, <2>1 DEF StepsTyped
    <2>9. S = Modules \ todo'[u] /\ todo'[u] \subseteq P BY <2>3, <2>8
    <2>10. Fresh(u)' = Fresh(u) BY <2>2 DEF Fresh
    <2> QED BY <2>2, <2>3, <2>7, <2>9, <2>10 DEF Kept, Before, After, Ends
  <1>10. CASE RenameIn(u)
    <2>1. /\ pc[u] = "move" /\ todo[u] = {} /\ pc'[u] = "drop" /\ target' = stage[u]
      BY <1>2, <1>10 DEF RenameIn, Goto, StepsTyped
    <2>2. stage[u].own = Fresh(u) /\ stage[u].modules = Modules /\ stage[u] \in Trees
      BY <1>1, <1>2, <2>1 DEF Kept, Equipped
    <2>3. Whole(stage[u]) BY <2>2, FreshIsWhole DEF Fresh
    <2>4. target' # None /\ Whole(target)' BY <2>1, <2>2, <2>3, TreeChanges DEF Whole, OneRelease
    <2> QED BY <2>1, <2>4 DEF Kept, Before, After, Ends
  <1>11. CASE RenameFails(u) \/ SwapFails(u)
    <2>1. /\ pc[u] \in {"away", "move"} /\ pc'[u] \in {"clean", "undo"} /\ UNCHANGED ok
      BY <1>2, <1>11 DEF RenameFails, SwapFails, Goto, Failed, StepsTyped
    <2>2. faults' = faults + 1
      <3>1. CASE RenameFails(u)
        BY <1>1, <3>1 DEF RenameFails, Fault, Kept, Before
      <3>2. CASE SwapFails(u)
        <4>1. pc[u] = "move" BY <3>2 DEF SwapFails
        <4>2. target = None /\ todo[u] \subseteq previous[u].modules BY <1>1, <4>1 DEF Kept
        <4> QED BY <3>2, <4>2 DEF SwapFails, Fault
      <3> QED BY <1>11, <3>1, <3>2
    <2>3. faults' # 0 BY <1>2, <2>2
    <2>4. ~ok[u] BY <1>1, <2>1 DEF Kept, After, Ends
    <2> QED BY <2>1, <2>3, <2>4 DEF Kept, Before, After, Ends
  <1>12. CASE UndoModule(u) \/ UndoRename(u) \/ UndoFails(u)
    <2>1. pc[u] = "undo" /\ pc'[u] \in {"undo", "clean"} /\ UNCHANGED ok
      BY <1>2, <1>12 DEF UndoModule, UndoRename, UndoFails, Goto, StepsTyped
    <2>2. faults' # 0 /\ ~ok[u] BY <1>1, <1>4, <2>1 DEF Kept, After, Ends
    <2> QED BY <2>1, <2>2 DEF Kept, Before, After, Ends
  <1>13. CASE CopyPart(u) \/ SetAside(u) \/ CopyEnds(u)
    BY <1>13, CopyKept
  <1>14. CASE CopyFails(u)
    <2>1. pc[u] = "copy" /\ pc'[u] \in {"tidy", "clean"} /\ UNCHANGED ok
      BY <1>2, <1>14 DEF CopyFails, Goto, StepsTyped
    <2>2. target # None /\ Source(u) # None /\ ~ok[u] BY <1>1, <2>1 DEF Kept, After, Ends
    <2>3. faults' # 0 BY <1>2, <1>14, <2>2 DEF CopyFails, Fault
    <2> QED BY <2>1, <2>2, <2>3 DEF Kept, Before, After, Ends
  <1>15. CASE DropPrevious(u) \/ CleanStage(u) \/ CleanNpmStage(u) \/ EmptyNpmStage(u)
    <2>1. /\ pc[u] \in {"drop", "clean", "tidy", "empty"}
          /\ pc'[u] \in {"clean", "verify", "npm", "fill", "thrown", "finish"}
          /\ (pc'[u] \in {"npm", "fill"} => ~ok[u]) /\ UNCHANGED <<target, ok>>
      BY <1>1, <1>2, <1>15 DEF DropPrevious, CleanStage, CleanNpmStage, EmptyNpmStage, Continue, Goto, StepsTyped,
           Kept, After, Ends
    <2>2. (ok[u] \/ faults' = 0) => target' # None /\ Whole(target)'
      BY <1>1, <1>4, <2>1 DEF Kept, Whole, OneRelease
    <2>3. pc'[u] = "fill" => target' # None
      BY <1>1, <1>2, <1>15 DEF DropPrevious, CleanStage, CleanNpmStage, EmptyNpmStage, Continue, Goto, StepsTyped, Kept
    <2> QED BY <2>1, <2>2, <2>3 DEF Kept, Before, After, Ends
  <1>16. CASE Npm(u)
    <2>1. /\ pc[u] = "npm" /\ pc'[u] \in {"verify", "npm", "empty"} /\ ~ok[u] /\ faults' = faults
      BY <1>1, <1>2, <1>16 DEF Npm, Goto, StepsTyped, Kept, After, Ends
    <2>2. CASE target' = Installed(version[u]) /\ pc'[u] = "verify"
      <3>1. target' # None /\ Whole(target)'
        BY <1>2, <2>2, ReleasesAreTrees, NoneIsNoTree DEF Whole, OneRelease
      <3> QED BY <2>2, <3>1 DEF Kept, Before, After, Ends
    <2>3. CASE target' = target /\ ok' = ok /\ (pc'[u] = "empty" => target # None)
      <3>1. faults' = 0 => target' # None /\ Whole(target)' BY <1>1, <2>1, <2>3 DEF Kept, Whole, OneRelease
      <3> QED BY <2>1, <2>3, <3>1 DEF Kept, Before, After, Ends
    <2> QED BY <1>2, <1>16, <2>2, <2>3 DEF Npm, Goto, StepsTyped
  <1>17. CASE FillNpmStage(u)
    <2>1. /\ pc[u] = "fill" /\ UNCHANGED <<target, ok, version, sources, faults>>
      BY <1>17 DEF FillNpmStage, locals
    <2>2. ~ok[u] /\ sources[u] \in {0, 1} BY <1>1, <1>2, <2>1 DEF Kept, SourcesLeft, After, Ends
    <2>3. CASE pc'[u] = "tidy"
      <3>1. faults' = 0 => target' # None /\ Whole(target)' BY <1>1, <2>1 DEF Kept, Whole, OneRelease
      <3> QED BY <2>1, <2>2, <2>3, <3>1 DEF Kept, Before, After, Ends
    <2>4. CASE pc'[u] = "copy" /\ npmStage' = Installed(version[u]) /\ todo'[u] = Parts
      <3>1. sources'[u] # None BY <2>1, <2>2, InstallAssumption
      <3>2. Source(u)' = Installed(version[u]) /\ ByNpm(u)' BY <2>4, <3>1 DEF Source, ByNpm
      <3>3. Source(u)' # None /\ Source(u)'.own = Fresh(u)'
        <4>1. Installed(version[u]) # None /\ Installed(version[u]).own = Fresh(u)
          BY <1>2, ReleasesAreTrees, NoneIsNoTree DEF Fresh, Installed, Unpacked
        <4>2. Fresh(u)' = Fresh(u) BY <2>1 DEF Fresh
        <4> QED BY <3>2, <4>1, <4>2
      <3>4. target # None BY <1>1, <2>1 DEF Kept
      <3> QED BY <2>1, <2>2, <2>4, <3>2, <3>3, <3>4 DEF Kept, Before, After, Ends
    <2> QED BY <1>2, <1>17, <2>3, <2>4 DEF FillNpmStage, Goto, StepsTyped
  <1>18. CASE Verify(u) \/ Restart(u) \/ RestartFails(u) \/ StartAgain(u) \/ StartFails(u)
    <2>1. /\ pc[u] \in {"verify", "finish"} /\ pc'[u] \in {"finish", "over", "down"} /\ target' = target
          /\ (ok'[u] => ok[u])
      BY <1>2, <1>18 DEF Verify, Restart, RestartFails, StartAgain, StartFails, Goto, StepsTyped, dirs
    <2>2. (ok'[u] \/ faults' = 0) => target' # None /\ Whole(target)'
      BY <1>1, <1>4, <2>1 DEF Kept, Whole, OneRelease
    <2> QED BY <2>1, <2>2 DEF Kept, Before, After, Ends
  <1>19. CASE Die(u)
    BY <1>1, <1>19 DEF Die
  <1> QED BY <1>5, <1>6, <1>7, <1>8, <1>9, <1>10, <1>11, <1>12, <1>13, <1>14, <1>15, <1>16, <1>17,
          <1>18, <1>19 DEF Step

(* An update that runs beside another claims nothing, and one that runs alone has *)
(* only its own steps to fear.                                                   *)
LEMMA NextBack == TypesInv /\ BackInv /\ [Next]_vars => BackInv'
  <1> SUFFICES ASSUME TypesInv, BackInv, [Next]_vars PROVE BackInv'
    OBVIOUS
  <1>1. CASE UNCHANGED vars
    <2>1. /\ UNCHANGED <<windows, target, stage, previous, npmStage, pc, version, stopped, wasRunning>>
          /\ UNCHANGED <<carried, reading, todo, sources, ok, wanted, running, faults, deaths>>
      BY <1>1 DEF vars, dirs, services, locals
    <2> SUFFICES ASSUME NEW u \in Updaters, Alone(u)' PROVE Stopping(u)' /\ Kept(u)'
      BY DEF BackInv
    <2>2. Stopping(u) /\ Kept(u) BY <2>1 DEF BackInv, Alone
    <2>3. Stopping(u)' BY <2>1, <2>2 DEF Stopping, Whole, OneRelease
    <2>4. Source(u)' = Source(u) /\ ByNpm(u)' = ByNpm(u) /\ Fresh(u)' = Fresh(u) BY <2>1 DEF Source, ByNpm, Fresh
    <2>5. Follows(u)' = Follows(u) BY <2>1 DEF Follows
    <2>6. Whole(target)' = Whole(target) BY <2>1 DEF Whole, OneRelease
    <2>7. Kept(u)' BY <2>1, <2>2, <2>4, <2>5, <2>6 DEF Kept
    <2> QED BY <2>3, <2>7
  <1>2. CASE Next
    <2>1. PICK u \in Updaters : Step(u) BY <1>2 DEF Next
    <2>2. /\ pc'[u] # "idle" /\ wanted' = wanted /\ \A w \in Updaters \ {u} : pc'[w] = pc[w]
          /\ deaths \in Nat /\ (deaths' = deaths \/ deaths' = deaths + 1)
      BY <2>1, Frame, InstallAssumption DEF TypesInv, LocalsTyped
    <2>3. \A w \in Updaters \ {u} : ~Alone(w)' BY <2>2 DEF Alone
    <2>4. Alone(u)' => Alone(u) BY <2>2 DEF Alone
    <2>5. Alone(u)' => Stopping(u)' /\ Kept(u)' BY <2>1, <2>4, StoppingStep, KeptStep
    <2> QED BY <2>3, <2>5 DEF BackInv
  <1> QED BY <1>1, <1>2

(* What the invariant says of the only update, once it is over. *)
LEMMA BackComes == BackInv => ServicesComeBack
  <1> SUFFICES ASSUME BackInv, NEW u \in Updaters, wanted, AtRest,
                      {w \in Updaters : pc[w] \in Ends} = {u}
               PROVE  /\ faults = 0 \/ ok[u] => running # None
                      /\ u \in Commands /\ ok[u] => running = target.own[Manifest]
                      /\ pc[u] = "over" /\ target # None /\ Whole(target) => running # None
    BY DEF ServicesComeBack
  <1>1. Alone(u) /\ pc[u] \in Ends BY DEF AtRest, Alone
  <1>2. Stopping(u) /\ Kept(u) BY <1>1 DEF BackInv
  <1>3. faults = 0 \/ ok[u] => target # None /\ Whole(target) /\ pc[u] = "over"
    BY <1>1, <1>2 DEF Stopping, Kept, Ends
  <1> QED BY <1>2, <1>3 DEF Stopping

(* Services that ran before an update, the only one and one nobody killed, run *)
(* after it unless a call failed; a success is never reported without them, on *)
(* what is on disk if the command reports it; and after a failure they run     *)
(* wherever the package is whole, unless the command ended with an exception or *)
(* their start failed (runUpdate, installInPlace, whileServicesStopped).        *)
THEOREM ServicesReturn == Spec => []ServicesComeBack
  BY InitInstall, NextInstall, BackInit, NextBack, BackComes, PTL DEF Spec
================================================================================
