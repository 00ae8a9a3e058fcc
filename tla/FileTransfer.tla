---------------------------- MODULE FileTransfer ----------------------------
(***************************************************************************)
(* Browsing and downloading the workstation's files from a window:           *)
(* the dialog (relay/web/src/features/files/{FileListModal.tsx,              *)
(* useHostFiles.ts}), the relay in between (relay/src/server/fs-proxy.ts)     *)
(* and the workstation (cli/src/connector/host-files.ts), all under           *)
(* packages/.                                                              *)
(*                                                                         *)
(* One window and its stream.  The relay forwards at once, so what is on its  *)
(* way is between the relay and the workstation.  Names are left out: an      *)
(* entry picked is there or is not, and what matters is the directory it is   *)
(* looked for in.  A request's id is used again once nothing holds it.        *)
(***************************************************************************)
EXTENDS Naturals, Sequences, SequencesExt

CONSTANTS
  Dirs,           \* directories of the workstation
  Ids,            \* request ids
  Nothing,
  MaxTransfers,   \* MAX_FS_TRANSFERS_PER_CLIENT
  MaxChunks,      \* MAX_FS_CHUNKS_IN_FLIGHT
  MaxSlices       \* bound: slices of a transfer

ASSUME FilesAssumption ==
  /\ {MaxTransfers, MaxChunks, MaxSlices} \subseteq Nat \ {0}
  /\ Nothing \notin Ids /\ {"loading", "error"} \cap Dirs = {}

VARIABLES
  view,          \* the window: the directory shown, or "loading" or "error"
  lists, previews, mutation, download,   \* its pending requests
  fsDownloads, fsChunkRequests,          \* the relay's client record
  listing, reading, transfers,           \* the workstation's, of this stream
  toHost, toWindow,
  alone          \* whether the listing last asked for in the dialog was the only one
                 \* under way (kept for the properties; no action reads it but Pick,
                 \* to note it)

window == <<view, lists, previews, mutation, download>>
relay == <<fsDownloads, fsChunkRequests>>
host == <<listing, reading, transfers>>
filesVars == <<window, relay, host, toHost, toWindow, alone>>

\* A download once announced has a total, and next is the slice it waits for.
\* Its timer is the ready timer, that of the slice, or has been cleared.
Download ==
  [id : Ids, total : 0 .. MaxSlices, next : 0 .. MaxSlices, timer : {"off", "ready", "slice"}]

\* shown: the directory the window showed when an entry of it was picked, sure:
\* whether that had been listed alone.
Request ==
  [type : {"list"}, id : Ids, how : {"current", "same", "step"}]
    \cup [type : {"preview", "mutation", "download"}, id : Ids, shown : Dirs, sure : BOOLEAN]
    \cup [type : {"chunk"}, id : Ids, last : BOOLEAN]

Answer ==
  [type : {"listed"}, id : Ids, dir : Dirs]
    \cup [type : {"preview", "mutation", "error"}, id : Ids]
    \cup [type : {"ready"}, id : Ids, total : 1 .. MaxSlices]
    \cup [type : {"chunk"}, id : Ids, last : BOOLEAN]

FilesTypeOK ==
  /\ view \in Dirs \cup {"loading", "error"}
  /\ lists \subseteq Ids /\ previews \subseteq Ids /\ mutation \in Ids \cup {Nothing}
  /\ download \in Download \cup {Nothing}
  /\ fsDownloads \in Seq(Ids) /\ Len(fsDownloads) <= MaxTransfers
  /\ fsChunkRequests \in 0 .. MaxChunks
  /\ listing \in Dirs \cup {Nothing} /\ reading \subseteq Ids /\ transfers \subseteq Ids
  /\ toHost \in Seq(Request) /\ toWindow \in Seq(Answer) /\ alone \in BOOLEAN

FilesInit ==
  /\ view = "loading" /\ lists = {} /\ previews = {} /\ mutation = Nothing /\ download = Nothing
  /\ fsDownloads = <<>> /\ fsChunkRequests = 0
  /\ listing = Nothing /\ reading = {} /\ transfers = {}
  /\ toHost = <<>> /\ toWindow = <<>> /\ alone = TRUE

InTransit(queue) == {queue[i].id : i \in DOMAIN queue}

Current == IF download = Nothing THEN {} ELSE {download.id}

InUse ==
  lists \cup previews \cup {mutation} \cup Current \cup ToSet(fsDownloads)
    \cup reading \cup transfers \cup InTransit(toHost) \cup InTransit(toWindow)

(* --- the dialog --- *)

Sends(message) == toHost' = Append(toHost, message)

\* The relay drops a listing asked for too soon after the last one.
SendsList(id, how) ==
  \/ Sends([type |-> "list", id |-> id, how |-> how])
  \/ UNCHANGED toHost

\* A listing asked for that the workstation may yet act on, or a change after
\* which the directory is listed again.
ListUnderWay ==
  \/ lists # {} \/ reading # {} \/ mutation # Nothing
  \/ \E i \in DOMAIN toHost : toHost[i].type \in {"list", "mutation"}
  \/ \E i \in DOMAIN toWindow : toWindow[i].type \in {"listed", "mutation"}

\* Mutant: the rows stay, and can be picked from, while the next list loads.
Navigate_KeepsRows(id, how) ==
  /\ UNCHANGED view
  /\ lists' = lists \cup {id}
  /\ SendsList(id, how)

Navigate(id, how) ==
  /\ view' = "loading"
  /\ lists' = lists \cup {id}
  /\ SendsList(id, how)

\* The dialog is opened or retried, refreshed, or moves to another directory.
Browse(id, how) ==
  /\ id \notin InUse
  /\ how = "current" \/ view \in Dirs
  /\ alone' = ~ListUnderWay
  /\ Navigate(id, how)
  /\ UNCHANGED <<previews, mutation, download, relay, host, toWindow>>

Pick(id, type) ==
  /\ id \notin InUse /\ view \in Dirs
  /\ Sends([type |-> type, id |-> id, shown |-> view, sure |-> alone])
  /\ UNCHANGED <<view, lists, relay, host, toWindow, alone>>

Preview(id) ==
  /\ Pick(id, "preview")
  /\ previews' = previews \cup {id}
  /\ UNCHANGED <<mutation, download>>

\* A rename or a delete.
Mutate(id) ==
  /\ mutation = Nothing
  /\ Pick(id, "mutation")
  /\ mutation' = id
  /\ UNCHANGED <<previews, download>>

StartDownload(id) ==
  /\ download = Nothing
  /\ Pick(id, "download")
  /\ download' = [id |-> id, total |-> 0, next |-> 0, timer |-> "ready"]
  /\ UNCHANGED <<previews, mutation>>

(* --- timeouts --- *)

ListTimesOut(id) ==
  /\ id \in lists
  /\ lists' = lists \ {id} /\ view' = "error"
  /\ UNCHANGED <<previews, mutation, download>>

PreviewTimesOut(id) ==
  /\ id \in previews
  /\ previews' = previews \ {id}
  /\ UNCHANGED <<view, lists, mutation, download>>

MutationTimesOut ==
  /\ mutation # Nothing
  /\ mutation' = Nothing /\ view' = "error"
  /\ UNCHANGED <<lists, previews, download>>

RejectDownload == download' = Nothing /\ view' = "error" /\ UNCHANGED <<lists, previews, mutation>>

\* The announcement does not come in time.
ReadyTimesOut == download # Nothing /\ download.timer = "ready" /\ RejectDownload

\* Slice k, which was pulled, does not come in time.
SliceTimesOut(k) ==
  download # Nothing /\ download.timer = "slice" /\ download.next = k /\ RejectDownload

TimesOut ==
  /\ \/ \E id \in Ids : ListTimesOut(id) \/ PreviewTimesOut(id)
     \/ MutationTimesOut \/ ReadyTimesOut
     \/ \E k \in 0 .. MaxSlices : SliceTimesOut(k)
  /\ UNCHANGED <<relay, host, toHost, toWindow, alone>>

\* The relay forgets a pull that has not been answered for long.
ChunkRequestExpires ==
  /\ fsChunkRequests > 0
  /\ fsChunkRequests' = fsChunkRequests - 1
  /\ UNCHANGED <<window, fsDownloads, host, toHost, toWindow, alone>>

(* --- the workstation --- *)

Answers(message) == toWindow' = Append(toWindow, message)
Fails(id) == Answers([type |-> "error", id |-> id])
Request1 == Head(toHost)

\* sweep() drops what no window has asked for in a while.
Swept == {{}, transfers \ Current}

\* What a listing may resolve to; without a directory named, Herdr is asked.
Target(how) ==
  CASE how = "same" -> {listing}
    [] how = "step" -> Dirs \ {listing}
    [] OTHER -> Dirs

Lists(id, how) ==
  \/ Fails(id) /\ UNCHANGED listing
  \/ \E d \in Target(how) :
       /\ listing' = d
       /\ Answers([type |-> "listed", id |-> id, dir |-> d])

HandleList ==
  /\ Request1.type = "list"
  /\ IF Request1.how = "current"
     THEN reading' = reading \cup {Request1.id} /\ UNCHANGED <<listing, toWindow>>
     ELSE /\ IF listing = Nothing
             THEN Fails(Request1.id) /\ UNCHANGED listing
             ELSE Lists(Request1.id, Request1.how)
          /\ UNCHANGED reading
  /\ \E gone \in Swept : transfers' = transfers \ gone

\* Herdr has said, or not, which directory is on screen.
HerdrAnswers(id) ==
  /\ id \in reading
  /\ reading' = reading \ {id}
  /\ Lists(id, "current")
  /\ UNCHANGED <<transfers, window, relay, toHost, alone>>

\* A preview, rename or delete of an entry of the listing.
HandlePick ==
  /\ Request1.type \in {"preview", "mutation"}
  /\ \/ Fails(Request1.id)
     \/ listing # Nothing /\ Answers([type |-> Request1.type, id |-> Request1.id])
  /\ \E gone \in Swept : transfers' = transfers \ gone
  /\ UNCHANGED <<listing, reading>>

HandleDownload ==
  /\ Request1.type = "download"
  /\ \E gone \in Swept :
       \/ Fails(Request1.id) /\ transfers' = transfers \ gone
       \/ /\ listing # Nothing
          /\ transfers' = (transfers \ gone) \cup {Request1.id}
          /\ \E n \in 1 .. MaxSlices :
               Answers([type |-> "ready", id |-> Request1.id, total |-> n])
  /\ UNCHANGED <<listing, reading>>

\* Mutant: every slice closes the transfer.
HandleChunk_ClosesEarly ==
  /\ Request1.type = "chunk"
  /\ IF Request1.id \in transfers
     THEN (Answers(Request1) \/ Fails(Request1.id)) /\ transfers' = transfers \ {Request1.id}
     ELSE UNCHANGED <<transfers, toWindow>>
  /\ UNCHANGED <<listing, reading>>

\* sendChunk: one slice of a staged transfer; the last one closes it.
HandleChunk ==
  /\ Request1.type = "chunk"
  /\ IF Request1.id \in transfers
     THEN /\ \/ Answers(Request1)
             \/ Fails(Request1.id)
          /\ transfers' = IF Request1.last THEN transfers \ {Request1.id} ELSE transfers
     ELSE UNCHANGED <<transfers, toWindow>>
  /\ UNCHANGED <<listing, reading>>

HostHandles ==
  /\ toHost # <<>>
  /\ toHost' = Tail(toHost)
  /\ HandleList \/ HandlePick \/ HandleDownload \/ HandleChunk
  /\ UNCHANGED <<window, relay, alone>>

(* --- answers, through the relay to the window --- *)

\* Whatever waits is rejected; what a list, a rename or a download does then.
RejectAll ==
  /\ view' = IF lists # {} \/ mutation # Nothing \/ download # Nothing THEN "error" ELSE view
  /\ lists' = {} /\ previews' = {} /\ mutation' = Nothing /\ download' = Nothing

\* Mutant: only the pull of the first slice starts a timer.
RequestChunk_FirstOnly(d) == [d EXCEPT !.timer = IF d.next = 0 THEN "slice" ELSE "off"]

\* A pull has a timer of its own.
RequestChunk(d) == [d EXCEPT !.timer = "slice"]

\* The relay's forwarding of a pull of download d; it holds fs and has used slots.
Pulls(d, fs, used) ==
  /\ fsDownloads' = fs
  /\ IF d.id \notin ToSet(fs)
     THEN RejectAll /\ UNCHANGED toHost /\ fsChunkRequests' = used
     ELSE /\ download' = RequestChunk(d) /\ UNCHANGED <<view, lists, previews, mutation>>
          /\ IF used < MaxChunks
             THEN /\ fsChunkRequests' = used + 1
                  /\ Sends([type |-> "chunk", id |-> d.id, last |-> d.next = d.total - 1])
             ELSE fsChunkRequests' = used /\ UNCHANGED toHost

Listed(m) ==
  /\ m.type = "listed"
  /\ IF m.id \in lists
     THEN view' = m.dir /\ lists' = lists \ {m.id}
     ELSE UNCHANGED <<view, lists>>
  /\ UNCHANGED <<previews, mutation, download, relay, toHost>>

Previewed(m) ==
  /\ m.type = "preview"
  /\ previews' = previews \ {m.id}
  /\ UNCHANGED <<view, lists, mutation, download, relay, toHost>>

\* A rename or delete confirmed: the directory is read again.
Mutated(m) ==
  /\ m.type = "mutation"
  /\ IF m.id = mutation
     THEN mutation' = Nothing /\ Navigate(m.id, "same")
     ELSE UNCHANGED <<mutation, view, lists, toHost>>
  /\ UNCHANGED <<previews, download, relay>>

\* The relay's transfers without id, which is among them once at most.
Forget(id) ==
  IF id \in ToSet(fsDownloads)
  THEN RemoveAt(fsDownloads, CHOOSE i \in DOMAIN fsDownloads : fsDownloads[i] = id)
  ELSE fsDownloads

\* Those transfers once id is announced; the oldest makes room.
Registered(id) ==
  LET all == Append(Forget(id), id)
  IN  IF Len(all) > MaxTransfers THEN Tail(all) ELSE all

Announced(m) ==
  /\ m.type = "ready"
  /\ IF m.id \in Current
     THEN Pulls([download EXCEPT !.total = m.total, !.timer = "off"], Registered(m.id), fsChunkRequests)
     ELSE /\ fsDownloads' = Registered(m.id)
          /\ UNCHANGED <<window, fsChunkRequests, toHost>>

Shifted == IF fsChunkRequests > 0 THEN fsChunkRequests - 1 ELSE 0

Chunk(m) ==
  /\ m.type = "chunk"
  /\ LET fs == IF m.last THEN Forget(m.id) ELSE fsDownloads IN
     IF m.id \notin ToSet(fsDownloads)
     THEN UNCHANGED <<window, relay, toHost>>
     ELSE IF m.id \notin Current
     THEN /\ fsDownloads' = fs /\ fsChunkRequests' = Shifted
          /\ UNCHANGED <<window, toHost>>
     ELSE IF m.last
     THEN /\ fsDownloads' = fs /\ fsChunkRequests' = Shifted
          /\ download' = Nothing
          /\ UNCHANGED <<view, lists, previews, mutation, toHost>>
     ELSE Pulls([download EXCEPT !.next = @ + 1, !.timer = "off"], fs, Shifted)

\* The error's request id is lost in the adapter, so all that waits is rejected.
Refused(m) ==
  /\ m.type = "error"
  /\ RejectAll
  /\ UNCHANGED <<relay, toHost>>

WindowHears ==
  /\ toWindow # <<>>
  /\ toWindow' = Tail(toWindow)
  /\ LET m == Head(toWindow) IN
     Listed(m) \/ Previewed(m) \/ Mutated(m) \/ Announced(m) \/ Chunk(m) \/ Refused(m)
  /\ UNCHANGED <<host, alone>>

\* The workstation's link ends and returns: a new stream, nothing staged or
\* listed; the relay keeps its record of the window.
HostReconnects ==
  /\ RejectAll
  /\ listing' = Nothing /\ transfers' = {}
  /\ reading' = {}
  /\ toHost' = <<>> /\ toWindow' = <<>>
  /\ UNCHANGED <<relay, alone>>

(* --- the specification --- *)

Dialog ==
  \E id \in Ids :
    \/ \E how \in {"current", "same", "step"} : Browse(id, how)
    \/ Preview(id) \/ Mutate(id) \/ StartDownload(id)

FilesNext ==
  \/ Dialog \/ TimesOut \/ ChunkRequestExpires
  \/ HostHandles \/ WindowHears \/ HostReconnects
  \/ \E id \in Ids : HerdrAnswers(id)

FilesSpec == FilesInit /\ [][FilesNext]_filesVars

\* Of all that could end a download only the window's own timers are counted on:
\* each fires unless it is cleared first.
LiveFilesSpec ==
  /\ FilesSpec
  /\ WF_filesVars(ReadyTimesOut /\ TimesOut)
  /\ \A k \in 0 .. MaxSlices : WF_filesVars(SliceTimesOut(k) /\ TimesOut)

(* --- properties --- *)

\* An entry picked is looked for in the directory the window showed when it was
\* picked: a rename, a delete or a download never lands in another one, provided
\* the directory was listed with no other listing or change under way.  Where the
\* dialog was opened anew or retried beside a listing, that one's late answer may
\* move the workstation to another directory than the one shown: until the next
\* listing asked for alone, and no longer.
ShownIsMeant ==
  toHost # <<>> /\ Request1.type \in {"preview", "mutation", "download"} /\ Request1.sure
    => listing \in {Request1.shown, Nothing}

\* What the window pulls stays registered at the relay and staged at the
\* workstation until its last slice or an error is on its way: no sweep, no cap
\* and no earlier download given up takes it away.
PullsServed ==
  download # Nothing /\ download.total > 0 =>
    /\ download.id \in ToSet(fsDownloads)
    /\ \/ download.id \in transfers
       \/ \E i \in DOMAIN toWindow :
            /\ toWindow[i].id = download.id
            /\ toWindow[i].type = "error" \/ (toWindow[i].type = "chunk" /\ toWindow[i].last)

\* A download asked for ends, with the file or an error, although the relay may
\* drop a pull and the workstation ignore it without a word: whatever it waits
\* for, a timer that was set for that and not cleared with another is running.
DownloadSettles == download # Nothing ~> download = Nothing
=============================================================================
