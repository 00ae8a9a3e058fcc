------------------------------ MODULE HostFont ------------------------------
(***************************************************************************)
(* The workstation's terminal font in a browser window: what the window      *)
(* finds out about a font it is told of, the question it asks, the file and   *)
(* the cuts of a large font it pulls, and characters fetched as they are      *)
(* drawn; with the relay's gate and the workstation's answers.               *)
(* Source: web/src/features/hostFont, relay/src/server/font-proxy.ts,        *)
(* cli/src/connector/font-server.ts.                                         *)
(*                                                                         *)
(* Every await is a step of its own, and the font may change before it.  What *)
(* is left to chance: which cuts this device has kept, and the answer stored  *)
(* for a font (every tab adds to them).  A file and a cut are one slice each:  *)
(* FileTransfer has several.                                                 *)
(***************************************************************************)
EXTENDS Naturals, Sequences

CONSTANTS
  Fonts,
  FileOf,     \* the file behind a font, None if there is none or the device has the family
  SourceOf,   \* the large font cut for it, None likewise
  Common,     \* stands for the characters fetched beforehand
  Rare,       \* characters fetched when they are drawn
  Doubtful,   \* files and large fonts the browser may refuse
  Limit,      \* requests of a window the relay has on their way at a time
  Ids,        \* bound: asynchronous calls under way in the window
  MaxReports, \* bound: how often the window is told of a font
  None

Files == {FileOf[f] : f \in Fonts} \ {None}
Sources == {SourceOf[f] : f \in Fonts} \ {None}

ASSUME FontAssumption ==
  /\ None \notin Fonts /\ Common \notin Rare /\ Limit \in Nat /\ MaxReports \in Nat
  /\ DOMAIN FileOf = Fonts /\ DOMAIN SourceOf = Fonts

VARIABLES
  state,                                \* HostFontState
  covered, asked, wanted, batchTimer,   \* characters; the font whose large font the timer asks
  tasks,                                \* calls of evaluate, load, prefetchGlyphs and batches
  pendingSlices, timers,                \* who waits for a slice; whose timer runs
  registered, drawn,                    \* document.fonts: files, characters of large fonts
  kept, refused,                        \* files on this device; what the browser does not take
  connected, announced,                 \* the link; the font the workstation last told
  wire,                                 \* requests on their way and being answered, in order
  reports,
  astray          \* auxiliary: the font a call loads that did not notice it was out of date

glyphRefs == <<covered, asked, wanted, batchTimer>>
requests == <<pendingSlices, timers>>
page == <<registered, drawn>>
device == <<kept, refused>>
link == <<connected, announced, reports, astray>>
fontVars == <<state, glyphRefs, tasks, requests, page, device, link, wire>>

Initial == [font |-> None, status |-> "none", alias |-> None, glyphs |-> "none", glyphAlias |-> None]
Statuses == {"none", "settled", "checking", "available", "declined", "loading", "loaded", "ready", "failed"}

\* Names a slice goes by: a file, or a cut of a large font for some characters.
Cut(t) == <<SourceOf[tasks[t].font], tasks[t].chars>>
File(t) == FileOf[tasks[t].font]

\* What runs before anything else does: the rest of a call once its promise is settled.
Settled == {"decide", "startCut", "fileFailed", "cutFailed"}
Task == [kind : {"evaluate", "load", "prefetch", "batch"}, fresh : BOOLEAN, font : Fonts,
         at : Settled \cup {"readFace", "slice", "writeFace", "register", "readCuts", "addCuts",
                            "subset", "cutSlice", "addCut"},
         needs : SUBSET {"file", "glyphs"}, chars : SUBSET (Rare \cup {Common})]

At(t, step) == tasks[t] # None /\ tasks[t].at = step
Quiet == \A t \in Ids : tasks[t] # None => tasks[t].at \notin Settled
FreeIds == {t \in Ids : /\ tasks[t] = None /\ \A p \in timers : p[2] # t
                        /\ \A i \in DOMAIN wire : wire[i].type = "cut" => wire[i].id # t}
NewId == CHOOSE t \in FreeIds : TRUE
pendingSubsets == {t \in Ids : At(t, "subset")}

\* A call is fresh while its generation is generationRef's.
Fresh(t) == tasks[t].fresh
Call(kind, step, f, needs, chars) ==
  [kind |-> kind, fresh |-> TRUE, font |-> f, at |-> step, needs |-> needs, chars |-> chars]
Ends(t) == tasks' = [tasks EXCEPT ![t] = None]
Goes(t, step) == tasks' = [tasks EXCEPT ![t].at = step]
AfterFile(t) == IF SourceOf[tasks[t].font] # None THEN "readCuts" ELSE "decide"

(* Mutants. *)
RegisterEnds_Late(t) ==   \* the font that changed meanwhile is not noticed
  /\ Quiet /\ At(t, "register") /\ File(t) \notin refused \ registered
  /\ registered' = registered \cup {File(t)}
  /\ state' = [state EXCEPT !.status = "loaded", !.alias = File(t)]
  /\ IF tasks[t].kind = "load"
     THEN IF "glyphs" \in tasks[t].needs THEN Goes(t, "startCut") ELSE Ends(t)
     ELSE Goes(t, AfterFile(t))
  /\ UNCHANGED <<glyphRefs, requests, drawn, device, link, wire>>

Expires_Silently(t, name) ==   \* the entry goes, who waits is not told
  /\ timers' = timers \ {<<name, t>>} /\ pendingSlices' = {p \in pendingSlices : p[1] # name}
  /\ UNCHANGED tasks
-----------------------------------------------------------------------------
(* Requests, and the relay's gate they go through. *)

Offered(source) == announced # None /\ source = SourceOf[announced]
OfferedFile(file) == announced # None /\ file = FileOf[announced]

\* Only what was announced goes on, to a workstation that is there, and not many at a time.
\* A refusal takes its place among the answers.
Request(m, offered, queue) ==
  wire' = IF ~connected \/ Len(queue) >= Limit THEN queue
          ELSE Append(queue, IF offered THEN m ELSE [type |-> "error"])

\* requestChunk: a second request for a slice takes the first one's place, but not its timer.
\* A cut to be pulled was made for this window a moment ago.
RequestChunk(t, name, queue) ==
  /\ pendingSlices' = {p \in pendingSlices : p[1] # name} \cup {<<name, t>>}
  /\ timers' = timers \cup {<<name, t>>}
  /\ Request([type |-> "slice", name |-> name], name \notin Files \/ OfferedFile(name), queue)

Waits(t, name) == (At(t, "slice") /\ File(t) = name) \/ (At(t, "cutSlice") /\ Cut(t) = name)
Failed(t) == [tasks[t] EXCEPT !.at = IF At(t, "slice") THEN "fileFailed" ELSE "cutFailed"]

\* rejectPending: whoever is waited for in the two maps fails.
Rejected ==
  [t \in Ids |-> IF t \in pendingSubsets \/ \E p \in pendingSlices : p[2] = t /\ Waits(t, p[1])
                 THEN Failed(t) ELSE tasks[t]]
RejectPending == pendingSlices' = {} /\ timers' = timers \ pendingSlices /\ tasks' = Rejected

\* The timer of a slice takes the entry of its key, whoever's it is.
Expires(t, name) ==
  /\ timers' = timers \ {<<name, t>>} /\ pendingSlices' = {p \in pendingSlices : p[1] # name}
  /\ tasks' = IF Waits(t, name) THEN [tasks EXCEPT ![t] = Failed(t)] ELSE tasks

RequestExpires ==
  /\ Quiet
  /\ \/ \E p \in timers : Expires(p[2], p[1])
     \/ \E t \in pendingSubsets : tasks' = [tasks EXCEPT ![t] = Failed(t)] /\ UNCHANGED requests
  /\ UNCHANGED <<state, glyphRefs, page, device, link, wire>>
-----------------------------------------------------------------------------
(* evaluate: what to do with a font that was reported. *)

Evaluate(f) ==
  LET changed == f # state.font
      before == IF changed THEN Rejected ELSE tasks
      late == [t \in Ids |-> IF before[t] = None THEN None ELSE [before[t] EXCEPT !.fresh = FALSE]]
      status == IF FileOf[f] = None THEN "settled"
                ELSE IF FileOf[f] \in registered THEN "loaded" ELSE "checking"
      glyphs == IF SourceOf[f] = None THEN "none" ELSE "checking"
  IN /\ IF changed
        THEN /\ pendingSlices' = {} /\ timers' = timers \ pendingSlices
             /\ covered' = {} /\ asked' = {} /\ wanted' = {}
        ELSE UNCHANGED <<requests, covered, asked, wanted>>
     /\ state' = IF f = None THEN Initial
                 ELSE [font |-> f, status |-> status, glyphs |-> glyphs,
                       alias |-> IF status = "loaded" THEN FileOf[f] ELSE None,
                       glyphAlias |-> IF changed THEN None ELSE state.glyphAlias]
     /\ tasks' = IF f # None /\ "checking" \in {status, glyphs}
                 THEN [late EXCEPT ![NewId] =
                        Call("evaluate", IF status = "checking" THEN "readFace" ELSE "readCuts", f, {}, {})]
                 ELSE late
     /\ astray' = IF changed THEN None ELSE astray
     /\ UNCHANGED <<batchTimer, page, device, wire>>

\* load, in call t; others is what else is under way.  It looks at the state last rendered,
\* and does nothing when a load is under way.
Load(t, f, others) ==
  LET same == f = state.font
      file == FileOf[f] # None /\ FileOf[f] \notin registered
      glyphs == same /\ SourceOf[f] # None /\ state.glyphs \notin {"ready", "none"}
  IN IF same /\ "loading" \in {state.status, state.glyphs}
     THEN tasks' = [others EXCEPT ![t] = None] /\ UNCHANGED state
     ELSE /\ state' = [state EXCEPT !.font = f,
                         !.status = IF file THEN "loading" ELSE @,
                         !.glyphs = IF glyphs THEN "loading" ELSE IF same THEN @ ELSE "none",
                         !.glyphAlias = IF same THEN @ ELSE None]
          /\ tasks' = [others EXCEPT ![t] =
               IF ~file /\ ~glyphs THEN None
               ELSE Call("load", IF file THEN "readFace" ELSE "startCut", f,
                         IF glyphs THEN {"glyphs"} ELSE {}, {})]

\* Accepted before, or a sync was asked for just now; or the question is put, or was declined.
\* Nothing here asks whether the call is still fresh.
Decide(t) ==
  /\ At(t, "decide")
  /\ LET needs == tasks[t].needs IN
     \/ needs = {} /\ Ends(t) /\ UNCHANGED <<state, astray>>
     \/ /\ needs # {} /\ Load(t, tasks[t].font, tasks)
        /\ astray' = IF ~Fresh(t) /\ tasks[t].font # state.font THEN tasks[t].font ELSE astray
     \/ /\ needs # {} /\ Ends(t) /\ UNCHANGED astray
        /\ \E answer \in {"available", "declined"} :
             state' = [state EXCEPT !.status = IF "file" \in needs THEN answer ELSE @,
                                    !.glyphs = IF "glyphs" \in needs THEN answer ELSE @]
  /\ UNCHANGED <<glyphRefs, requests, page, device, connected, announced, reports, wire>>

\* The file is here, or it is not: evaluate goes on, load fetches it.
ReadsFace(t) ==
  /\ Quiet /\ At(t, "readFace")
  /\ LET evaluates == tasks[t].kind = "evaluate" IN
     IF ~evaluates /\ File(t) \notin kept
     THEN Goes(t, "slice") /\ RequestChunk(t, File(t), wire)
     ELSE /\ IF ~Fresh(t) THEN Ends(t)
             ELSE IF File(t) \in kept THEN Goes(t, "register")
             ELSE tasks' = [tasks EXCEPT ![t].needs = {"file"}, ![t].at = AfterFile(t)]
          /\ UNCHANGED <<requests, wire>>
  /\ UNCHANGED <<state, glyphRefs, page, device, link>>

FaceWritten(t) ==
  /\ Quiet /\ At(t, "writeFace")
  /\ IF Fresh(t) THEN Goes(t, "register") ELSE Ends(t)
  /\ UNCHANGED <<state, glyphRefs, requests, page, device, link, wire>>

RegisterEnds(t) ==
  /\ Quiet /\ At(t, "register") /\ File(t) \notin refused \ registered
  /\ registered' = registered \cup {File(t)}
  /\ IF ~Fresh(t) THEN Ends(t) /\ UNCHANGED state
     ELSE /\ state' = [state EXCEPT !.status = "loaded", !.alias = File(t)]
          /\ IF tasks[t].kind = "load"
             THEN IF "glyphs" \in tasks[t].needs THEN Goes(t, "startCut") ELSE Ends(t)
             ELSE Goes(t, AfterFile(t))
  /\ UNCHANGED <<glyphRefs, requests, drawn, device, link, wire>>

\* A cached copy the browser refuses is fetched again, and evaluate goes on without asking
\* whether the font changed meanwhile.
RegisterFails(t) ==
  /\ Quiet /\ At(t, "register") /\ File(t) \in refused \ registered
  /\ IF tasks[t].kind = "load" THEN Goes(t, "fileFailed")
     ELSE tasks' = [tasks EXCEPT ![t].needs = {"file"}, ![t].at = AfterFile(t)]
  /\ UNCHANGED <<state, glyphRefs, requests, page, device, link, wire>>

NeedsCuts(t) == [tasks EXCEPT ![t].at = "decide", ![t].needs = @ \cup {"glyphs"}]

ReadsCuts(t) ==
  /\ Quiet /\ At(t, "readCuts")
  /\ IF ~Fresh(t) THEN Ends(t)
     ELSE \/ tasks' = NeedsCuts(t)
          \/ \E held \in SUBSET (Rare \cup {Common}) \ {{}} :
               tasks' = [tasks EXCEPT ![t].at = "addCuts", ![t].chars = held]
  /\ UNCHANGED <<state, glyphRefs, requests, page, device, link, wire>>

\* addGlyphs: cuts registered late are not counted.
AddGlyphs(t) ==
  /\ drawn' = drawn \cup {<<SourceOf[tasks[t].font], c>> : c \in tasks[t].chars}
  /\ covered' = IF Fresh(t) THEN covered \cup tasks[t].chars ELSE covered

\* Held cuts mean this device said yes before.  What is missing of the common characters is
\* fetched at once, and the file by load, which has not seen that the cuts are in.
CutsAdded(t) ==
  /\ Quiet /\ At(t, "addCuts") /\ SourceOf[tasks[t].font] \notin refused /\ AddGlyphs(t)
  /\ IF ~Fresh(t) THEN Ends(t) /\ UNCHANGED state
     ELSE LET f == tasks[t].font
              others == IF FreeIds = {} THEN tasks
                        ELSE [tasks EXCEPT ![NewId] = Call("prefetch", "startCut", f, {}, {})]
          IN IF "file" \in tasks[t].needs THEN Load(t, f, others)
             ELSE /\ tasks' = [others EXCEPT ![t] = None]
                  /\ state' = [state EXCEPT !.glyphs = "ready", !.glyphAlias = SourceOf[f]]
  /\ UNCHANGED <<asked, wanted, batchTimer, requests, registered, device, link, wire>>

CutsRefused(t) ==
  /\ Quiet /\ At(t, "addCuts") /\ SourceOf[tasks[t].font] \in refused
  /\ IF Fresh(t) THEN tasks' = NeedsCuts(t) ELSE Ends(t)
  /\ UNCHANGED <<state, glyphRefs, requests, page, device, link, wire>>
-----------------------------------------------------------------------------
(* load and prefetchGlyphs, once the file is there or not. *)

FileFailed(t) ==
  /\ At(t, "fileFailed")
  /\ IF ~Fresh(t) THEN Ends(t) /\ UNCHANGED state
     ELSE /\ state' = [state EXCEPT !.status = "failed", !.alias = None]
          /\ IF "glyphs" \in tasks[t].needs THEN Goes(t, "startCut") ELSE Ends(t)
  /\ UNCHANGED <<glyphRefs, requests, page, device, link, wire>>

\* What is missing of the common characters, or the batch met while drawing.
StartCut(t) ==
  /\ At(t, "startCut")
  /\ LET batch == tasks[t].kind = "batch"
         chars == IF batch THEN tasks[t].chars ELSE {Common} \ covered
     IN IF chars = {} /\ ~batch
        THEN /\ state' = IF tasks[t].kind = "load" THEN [state EXCEPT !.glyphs = "ready"] ELSE state
             /\ Ends(t) /\ UNCHANGED <<asked, wire>>
        ELSE /\ asked' = asked \cup chars
             /\ tasks' = [tasks EXCEPT ![t].at = "subset", ![t].chars = chars]
             /\ Request([type |-> "cut", id |-> t],
                        chars # {} /\ Offered(SourceOf[tasks[t].font]), wire)
             /\ UNCHANGED state
  /\ UNCHANGED <<covered, wanted, batchTimer, requests, page, device, link>>

CutFailed(t) ==
  /\ At(t, "cutFailed")
  /\ state' = IF Fresh(t) /\ tasks[t].kind = "load" THEN [state EXCEPT !.glyphs = "failed"] ELSE state
  /\ Ends(t)
  /\ UNCHANGED <<glyphRefs, requests, page, device, link, wire>>

CutAdded(t) ==
  /\ Quiet /\ At(t, "addCut")
  /\ IF SourceOf[tasks[t].font] \in refused
     THEN Goes(t, "cutFailed") /\ UNCHANGED <<drawn, covered, state>>
     ELSE /\ AddGlyphs(t) /\ Ends(t)
          /\ state' = IF ~Fresh(t) THEN state
                      ELSE [state EXCEPT !.glyphAlias = SourceOf[tasks[t].font],
                              !.glyphs = IF tasks[t].kind = "load" THEN "ready" ELSE @]
  /\ UNCHANGED <<asked, wanted, batchTimer, requests, registered, device, link, wire>>
-----------------------------------------------------------------------------
(* The user, here and in another tab. *)

Offers(statuses) == statuses \cap {state.status, state.glyphs} # {}
CanCall == Quiet /\ FreeIds # {}

\* At the prompt, by the answer of another tab, or by asking for a sync.
Accept ==
  /\ CanCall /\ Offers({"available", "declined", "failed"})
  /\ Load(NewId, state.font, tasks)
  /\ UNCHANGED <<glyphRefs, requests, page, device, link, wire>>

Decline ==
  /\ Quiet /\ Offers({"available", "failed"})
  /\ LET said(status) == IF status \in {"available", "failed"} THEN "declined" ELSE status
     IN state' = [state EXCEPT !.status = said(@), !.glyphs = said(@)]
  /\ UNCHANGED <<glyphRefs, tasks, requests, page, device, link, wire>>

\* ensureGlyphs, for a character about to be drawn, and its timer.
Draw(c) ==
  /\ Quiet /\ state.glyphs = "ready" /\ state.font # None /\ SourceOf[state.font] # None
  /\ c \notin covered \cup asked \cup wanted
  /\ wanted' = wanted \cup {c}
  /\ batchTimer' = IF batchTimer = None THEN state.font ELSE batchTimer
  /\ UNCHANGED <<state, covered, asked, tasks, requests, page, device, link, wire>>

BatchFires ==
  /\ CanCall /\ batchTimer # None
  /\ batchTimer' = None /\ wanted' = {}
  /\ tasks' = [tasks EXCEPT ![NewId] = Call("batch", "startCut", batchTimer, {}, wanted)]
  /\ UNCHANGED <<state, covered, asked, requests, page, device, link, wire>>
-----------------------------------------------------------------------------
(* The workstation, and what the window hears. *)

\* pickUp, and refresh asked for by any window.
HostReports(f) ==
  /\ CanCall /\ reports < MaxReports /\ reports' = reports + 1
  /\ announced' = f
  /\ IF connected THEN Evaluate(f) ELSE UNCHANGED <<state, glyphRefs, tasks, requests, page, device, wire, astray>>
  /\ UNCHANGED connected

\* sendChunk: whoever waits for the slice has it.  A file is kept, in the place of a copy
\* that was damaged; a cut that is late is dropped.
Slice(m) ==
  LET waiting == {p \in pendingSlices : p[1] = m.name} IN
  /\ m.name \in Files => OfferedFile(m.name)
  /\ pendingSlices' = pendingSlices \ waiting /\ timers' = timers \ waiting
  /\ tasks' = [t \in Ids |->
       IF <<m.name, t>> \notin waiting \/ ~Waits(t, m.name) THEN tasks[t]
       ELSE IF At(t, "slice") THEN [tasks[t] EXCEPT !.at = "writeFace"]
       ELSE IF Fresh(t) THEN [tasks[t] EXCEPT !.at = "addCut"] ELSE None]
  /\ LET files == {p[1] : p \in waiting} \cap Files
     IN kept' = kept \cup files /\ refused' \in {refused, refused \ files}
  /\ wire' = Tail(wire)

\* sendSubset: in the answer, or held for its slices.
Subset(m) ==
  IF m.id \notin pendingSubsets
  THEN wire' = Tail(wire) /\ UNCHANGED <<tasks, requests>>
  ELSE /\ Offered(SourceOf[tasks[m.id].font])
       /\ \/ Goes(m.id, "cutSlice") /\ RequestChunk(m.id, Cut(m.id), Tail(wire))
          \/ /\ IF Fresh(m.id) THEN Goes(m.id, "addCut") ELSE Ends(m.id)
             /\ wire' = Tail(wire) /\ UNCHANGED requests

\* A file changed since it was announced, a cut no longer held, a font that cannot be cut:
\* the window takes an error for all it waits for.
Answer ==
  /\ Quiet /\ wire # <<>>
  /\ LET m == Head(wire) IN
     \/ m.type = "slice" /\ Slice(m)
     \/ m.type = "cut" /\ Subset(m) /\ UNCHANGED device
     \/ RejectPending /\ wire' = Tail(wire) /\ UNCHANGED device
  /\ UNCHANGED <<state, glyphRefs, page, link>>

LinkDrops ==
  /\ Quiet /\ connected /\ connected' = FALSE
  /\ RejectPending /\ wire' = <<>>
  /\ UNCHANGED <<state, glyphRefs, page, device, announced, reports, astray>>

LinkReturns ==
  /\ CanCall /\ ~connected /\ connected' = TRUE
  /\ reports < MaxReports /\ reports' = reports + 1
  /\ Evaluate(announced) /\ UNCHANGED announced
-----------------------------------------------------------------------------
FontInit ==
  /\ state = Initial
  /\ covered = {} /\ asked = {} /\ wanted = {} /\ batchTimer = None
  /\ tasks = [t \in Ids |-> None] /\ pendingSlices = {} /\ timers = {}
  /\ registered = {} /\ drawn = {} /\ kept \in SUBSET Files /\ refused \in SUBSET Doubtful
  /\ connected = FALSE /\ announced \in Fonts \cup {None} /\ reports = 0
  /\ astray = None
  /\ wire = <<>>

Continues(t) == Decide(t) \/ FileFailed(t) \/ StartCut(t) \/ CutFailed(t)

Proceeds(t) ==
  \/ ReadsFace(t) \/ FaceWritten(t) \/ RegisterEnds(t) \/ RegisterFails(t)
  \/ ReadsCuts(t) \/ CutsAdded(t) \/ CutsRefused(t) \/ CutAdded(t)

UserStep == Accept \/ Decline \/ (\E c \in Rare : Draw(c)) \/ BatchFires

FontNext ==
  \/ \E t \in Ids : Continues(t) \/ Proceeds(t)
  \/ RequestExpires \/ UserStep
  \/ (\E f \in Fonts : HostReports(f)) \/ Answer \/ LinkDrops \/ LinkReturns

FontSpec == FontInit /\ [][FontNext]_fontVars

\* Timers fire, and what a browser is asked for on the device it does; nobody need answer.
Fairness ==
  /\ \A t \in Ids : WF_fontVars(Continues(t)) /\ WF_fontVars(Proceeds(t))
  /\ WF_fontVars(RequestExpires)
LiveFontSpec == FontSpec /\ Fairness
-----------------------------------------------------------------------------
(* Types. *)
FontTypeOK ==
  /\ state \in [font : Fonts \cup {None}, status : Statuses, glyphs : Statuses,
                alias : Files \cup {None}, glyphAlias : Sources \cup {None}]
  /\ tasks \in [Ids -> Task \cup {None}]
  /\ pendingSlices \subseteq timers
  /\ {covered, asked, wanted} \subseteq SUBSET (Rare \cup {Common})

(* What a window draws with is the font it was last told of, registered with   *)
(* the browser, and the characters it counts as held are those of that font's  *)
(* large font; however late an answer, a file or a registration comes.  One    *)
(* await of evaluate does not ask whether the font has changed (the catch at   *)
(* useHostFont.ts:283): only a kept copy the browser refused, of a font that   *)
(* has no large one, can bring the window back to a font that is gone, until   *)
(* it is told of another than the one it then shows.  What it draws with is    *)
(* registered even then.                                                      *)
FontIsCurrent ==
  /\ astray = None =>
       /\ connected => state.font = announced
       /\ state.alias # None => state.font # None /\ state.alias = FileOf[state.font]
       /\ state.glyphAlias # None =>
            state.font # None /\ state.glyphAlias = SourceOf[state.font]
       /\ \A c \in covered : state.font # None /\ <<SourceOf[state.font], c>> \in drawn
  /\ astray # None => FileOf[astray] \in Doubtful /\ SourceOf[astray] = None
  /\ state.alias # None => state.alias \in registered

(* A window does not look for ever at a font it checks or fetches, though a    *)
(* request, an answer or the link be lost (the timers of useHostFontTransfer). *)
LoadSettles ==
  {"checking", "loading"} \cap {state.status, state.glyphs} # {}
    ~> {"checking", "loading"} \cap {state.status, state.glyphs} = {}
=============================================================================
