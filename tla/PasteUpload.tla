----------------------------- MODULE PasteUpload -----------------------------
(***************************************************************************)
(* A file pasted in a browser window and pulled by its workstation a slice  *)
(* at a time: the window (packages/relay/web/src/context/useUploadTransport)*)
(* , the relay (packages/relay/src/server/paste-proxy) and the connector    *)
(* (packages/cli/src/pasted-files).                                         *)
(*                                                                         *)
(* One connector, and the stream each window has on it.  The two directions *)
(* of the connector's WebSocket are queues; what passes between a window    *)
(* and the relay is handled at once, as a slice waits in the window anyway  *)
(* until it has been read.  A request id is used once and names its upload. *)
(***************************************************************************)
EXTENDS Naturals, Sequences, FiniteSets

CONSTANTS
  Windows,
  Uploads,          \* request ids
  WindowOf,         \* the window each upload is of
  Chunks,           \* totalChunks of each upload
  BadImages,        \* images whose first bytes do not fit their type
  MAX_PASTE_UPLOADS_PER_CLIENT,
  PASTE_UPLOAD_WINDOW

ASSUME UploadAssumption ==
  /\ WindowOf \in [Uploads -> Windows] /\ Chunks \in [Uploads -> Nat \ {0}]
  /\ BadImages \subseteq Uploads
ASSUME LimitAssumption ==
  /\ MAX_PASTE_UPLOADS_PER_CLIENT \in Nat \ {0}
  /\ PASTE_UPLOAD_WINDOW \in Nat \ {0}

VARIABLES
  phase,      \* how far the window is with each upload; "sending" is streamUploadRef
  reading,    \* slices the window was asked for and is reading
  live,       \* windows with client.session
  slots,      \* client.pasteUploads, of all windows
  requested,  \* the slices in the "requested" sets of those uploads
  toHost, toRelay,   \* the connector's WebSocket
  ptys,       \* windows whose PTY the connector runs
  uploads,    \* PasteUploads.uploads: the connector's uploads in flight
  pending, nextToRequest, received,   \* of each of them
  file        \* slices of each upload that are on disk

window == <<phase, reading>>
relay == <<live, slots, requested>>
connector == <<ptys, uploads, pending, nextToRequest, received, file>>
vars == <<window, relay, toHost, toRelay, connector>>

Slices(u) == 0 .. Chunks[u] - 1
AllSlices == UNION {{u} \X Slices(u) : u \in Uploads}
Of(w) == {u \in Uploads : WindowOf[u] = w}
Sending(u) == phase[u] = "sending"
Ended == {"saved", "refused", "given_up", "failed", "aborted"}

Msg(type, u, i) == [type |-> type, upload |-> u, index |-> i]
StreamMsg(type, w) == [type |-> type, stream |-> w]

TypeOK ==
  /\ phase \in [Uploads -> {"new", "sending"} \cup Ended]
  /\ reading \subseteq AllSlices /\ requested \subseteq AllSlices
  /\ live \subseteq Windows /\ ptys \subseteq Windows
  /\ slots \subseteq Uploads /\ uploads \subseteq Uploads
  /\ pending \in [Uploads -> SUBSET Nat] /\ file \in [Uploads -> SUBSET Nat]
  /\ nextToRequest \in [Uploads -> Nat] /\ received \in [Uploads -> Nat]
  /\ \A u \in Uploads : /\ pending[u] \cup file[u] \subseteq Slices(u)
                        /\ nextToRequest[u] <= Chunks[u] /\ received[u] <= Chunks[u]

Init ==
  /\ phase = [u \in Uploads |-> "new"]
  /\ reading = {} /\ live = Windows /\ slots = {} /\ requested = {}
  /\ toHost = <<>> /\ toRelay = <<>>
  /\ ptys = Windows /\ uploads = {}
  /\ pending = [u \in Uploads |-> {}]
  /\ nextToRequest = [u \in Uploads |-> 0]
  /\ received = [u \in Uploads |-> 0]
  /\ file = [u \in Uploads |-> {}]

-----------------------------------------------------------------------------
(* Effects shared by the handlers. *)

(* pasteUploads.delete: an upload's slot goes with its requested set. *)
Settle(U) ==
  /\ slots' = slots \ U
  /\ requested' = {s \in requested : s[1] \notin U}

(* abortUpload: whatever upload the window is sending ends. *)
Abort(w, how) ==
  phase' = [u \in Uploads |-> IF WindowOf[u] = w /\ Sending(u) THEN how ELSE phase[u]]

(* releaseSession, and the end of the window's connection. *)
Release(w) ==
  /\ live' = live \ {w}
  /\ Settle(Of(w))
  /\ Abort(w, "aborted")

(* What requestMore asks for, from what is pending and the next slice. *)
Wanted(u, pend, next) ==
  {i \in Slices(u) : i >= next /\ i - next < PASTE_UPLOAD_WINDOW - Cardinality(pend)}
Requests(u, next, n) == [k \in 1 .. n |-> Msg("request", u, next + k - 1)]
-----------------------------------------------------------------------------
(* The window. *)

(* streamAndAwaitHost, and requestPasteFileBegin at the relay. *)
Begin(u) ==
  LET w == WindowOf[u]
  IN /\ phase[u] = "new" /\ ~\E v \in Of(w) : Sending(v)
     /\ w \in live
     /\ IF Cardinality(slots \cap Of(w)) < MAX_PASTE_UPLOADS_PER_CLIENT
        THEN /\ phase' = [phase EXCEPT ![u] = "sending"]
             /\ slots' = slots \cup {u}
             /\ toHost' = Append(toHost, Msg("begin", u, 0))
        ELSE /\ phase' = [phase EXCEPT ![u] = "refused"]     \* paste_file_busy
             /\ UNCHANGED <<slots, toHost>>
     /\ UNCHANGED <<reading, live, requested, toRelay, connector>>

(* The end of handleUploadChunkRequest, and requestPasteFileChunk at the relay. *)
ReadDone(u, i) ==
  /\ <<u, i>> \in reading
  /\ reading' = reading \ {<<u, i>>}
  /\ IF ~Sending(u) \/ u \notin slots \/ <<u, i>> \notin requested
     THEN UNCHANGED <<phase, slots, requested, toHost>>
     ELSE IF u \in BadImages /\ i = 0
     THEN /\ Settle({u})
          /\ Abort(WindowOf[u], "failed")
          /\ UNCHANGED toHost
     ELSE /\ requested' = requested \ {<<u, i>>}
          /\ toHost' = Append(toHost, Msg("chunk", u, i))
          /\ UNCHANGED <<phase, slots>>
  /\ UNCHANGED <<live, toRelay, connector>>

(* The file the user picked cannot be read any more. *)
ReadFailed(u, i) ==
  /\ <<u, i>> \in reading
  /\ reading' = reading \ {<<u, i>>}
  /\ phase' = [phase EXCEPT ![u] = IF Sending(u) THEN "given_up" ELSE @]
  /\ UNCHANGED <<relay, toHost, toRelay, connector>>

(* The stall timer: the window gives the upload up, and tells nobody. *)
Stall(u) ==
  /\ Sending(u)
  /\ phase' = [phase EXCEPT ![u] = "given_up"]
  /\ UNCHANGED <<reading, relay, toHost, toRelay, connector>>

(* The window closes: detachClient, with its session_stop. *)
WindowGone(w) ==
  /\ w \in live
  /\ Release(w)
  /\ toHost' = Append(toHost, StreamMsg("stop", w))
  /\ UNCHANGED <<reading, toRelay, connector>>
-----------------------------------------------------------------------------
(* The connector. *)

(* Uploads that may have had no slice for ten minutes: a window that waits      *)
(* gives up after thirty seconds.                                              *)
Idle == {u \in uploads : ~Sending(u)}

(* sweep aborts some of them, one after the other. *)
Swept(S, errors) ==
  /\ S \subseteq Idle
  /\ errors \in [1 .. Cardinality(S) -> S]
  /\ \A u \in S : \E k \in DOMAIN errors : errors[k] = u
ErrorsOf(errors) == [k \in DOMAIN errors |-> Msg("error", errors[k], 0)]

Discard(U) == file' = [u \in Uploads |-> IF u \in U THEN {} ELSE file[u]]

HostBegin(u, S, errors) ==
  /\ Swept(S, errors)
  /\ \/ /\ LET W == Wanted(u, {}, 0)
           IN /\ uploads' = (uploads \ S) \cup {u}
              /\ pending' = [pending EXCEPT ![u] = W]
              /\ nextToRequest' = [nextToRequest EXCEPT ![u] = Cardinality(W)]
              /\ toRelay' = toRelay \o ErrorsOf(errors) \o Requests(u, 0, Cardinality(W))
     \/ /\ uploads' = uploads \ S                   \* openSync fails
        /\ toRelay' = toRelay \o ErrorsOf(errors) \o <<Msg("error", u, 0)>>
        /\ UNCHANGED <<pending, nextToRequest>>
  /\ Discard(S)
  /\ UNCHANGED <<ptys, received>>

(* Mutant of Complete. *)
Complete_LastIndex(u, i) == i = Chunks[u] - 1

(* With slice i, every slice has landed. *)
Complete(u, i) == received[u] + 1 = Chunks[u]

(* chunk on an upload that was not swept and waits for this slice. *)
WriteSlice(u, i, S, errors) ==
  LET rest == pending[u] \ {i}
      W == Wanted(u, rest, nextToRequest[u])
  IN /\ file' = [v \in Uploads |-> IF v \in S THEN {} ELSE IF v = u THEN file[u] \cup {i}
                                   ELSE file[v]]
     /\ received' = [received EXCEPT ![u] = @ + 1]
     /\ IF Complete(u, i)
        THEN /\ uploads' = uploads \ (S \cup {u})
             /\ pending' = [pending EXCEPT ![u] = rest]
             /\ toRelay' = toRelay \o ErrorsOf(errors) \o <<Msg("ready", u, 0)>>
             /\ UNCHANGED nextToRequest
        ELSE /\ uploads' = uploads \ S
             /\ pending' = [pending EXCEPT ![u] = rest \cup W]
             /\ nextToRequest' = [nextToRequest EXCEPT ![u] = @ + Cardinality(W)]
             /\ toRelay' = toRelay \o ErrorsOf(errors)
                                   \o Requests(u, nextToRequest[u], Cardinality(W))
     /\ UNCHANGED ptys

HostChunk(u, i, S, errors) ==
  /\ Swept(S, errors)
  /\ IF u \in uploads \ S /\ i \in pending[u]
     THEN \/ WriteSlice(u, i, S, errors)
          \/ /\ uploads' = uploads \ (S \cup {u})       \* writeSync fails
             /\ toRelay' = toRelay \o ErrorsOf(errors) \o <<Msg("error", u, 0)>>
             /\ Discard(S \cup {u})
             /\ UNCHANGED <<ptys, pending, nextToRequest, received>>
     ELSE /\ uploads' = uploads \ S
          /\ toRelay' = toRelay \o ErrorsOf(errors)
          /\ Discard(S)
          /\ UNCHANGED <<ptys, pending, nextToRequest, received>>

(* session_stop: the PTY ends without a report, and drop. *)
HostStop(w) ==
  /\ ptys' = ptys \ {w}
  /\ uploads' = uploads \ Of(w)
  /\ Discard(uploads \cap Of(w))
  /\ UNCHANGED <<pending, nextToRequest, received, toRelay>>

HostReceive ==
  /\ toHost # <<>>
  /\ toHost' = Tail(toHost)
  /\ LET m == Head(toHost)
     IN \/ m.type = "stop" /\ HostStop(m.stream)
        \/ /\ m.type # "stop"
           /\ \E S \in SUBSET Idle : \E errors \in [1 .. Cardinality(S) -> S] :
                \/ m.type = "begin" /\ HostBegin(m.upload, S, errors)
                \/ m.type = "chunk" /\ HostChunk(m.upload, m.index, S, errors)
  /\ UNCHANGED <<window, relay>>

(* The program in the PTY ends: session_exit, or an error of the stream when it  *)
(* keeps failing fast; the uploads stay.                                        *)
PtyExit(w) ==
  /\ w \in ptys
  /\ ptys' = ptys \ {w}
  /\ \E type \in {"exit", "start_failed"} : toRelay' = Append(toRelay, StreamMsg(type, w))
  /\ UNCHANGED <<window, relay, toHost, uploads, pending, nextToRequest, received, file>>

(* The connector's link breaks and is made again: stopAll, releaseSession for   *)
(* every window, and a new stream for each.                                     *)
LinkRestarted ==
  /\ toHost' = <<>> /\ toRelay' = <<>>
  /\ uploads' = {} /\ Discard(uploads)
  /\ slots' = {} /\ requested' = {}
  /\ phase' = [u \in Uploads |-> IF Sending(u) THEN "aborted" ELSE phase[u]]
  /\ ptys' = live
  /\ UNCHANGED <<reading, live, pending, nextToRequest, received>>
-----------------------------------------------------------------------------
(* The relay, and the window it tells. *)

(* Mutants of ForwardRequest and ForwardReady. *)
ForwardReady_KeepsSlot(u) ==
  /\ phase' = [phase EXCEPT ![u] = IF WindowOf[u] \in live /\ Sending(u) THEN "saved" ELSE @]
  /\ UNCHANGED <<reading, live, slots, requested>>

(* forwardPasteFileChunkRequest, and the start of handleUploadChunkRequest. *)
ForwardRequest(u, i) ==
  /\ requested' = IF u \in slots THEN requested \cup {<<u, i>>} ELSE requested
  /\ reading' = IF u \in slots /\ Sending(u) THEN reading \cup {<<u, i>>} ELSE reading
  /\ UNCHANGED <<phase, live, slots>>

(* paste_file_ready: completeUpload, if it is the upload the window is sending. *)
ForwardReady(u) ==
  /\ IF WindowOf[u] \in live
     THEN /\ Settle({u})
          /\ phase' = [phase EXCEPT ![u] = IF Sending(u) THEN "saved" ELSE @]
     ELSE UNCHANGED <<slots, requested, phase>>
  /\ UNCHANGED <<reading, live>>

(* Mutant of ForwardError: the window is not told. *)
ForwardError_Silent(u) ==
  /\ IF WindowOf[u] \in live THEN Settle({u}) ELSE UNCHANGED <<slots, requested>>
  /\ UNCHANGED <<phase, reading, live>>

(* An error of upload u: the window aborts the upload it is sending. *)
ForwardError(u) ==
  LET w == WindowOf[u]
  IN /\ IF w \in live
        THEN /\ Settle({u})
             /\ Abort(w, "failed")
        ELSE UNCHANGED <<slots, requested, phase>>
     /\ UNCHANGED <<reading, live>>

(* session_exit: releaseSession, then detachClient without a session_stop. *)
ForwardExit(w) ==
  /\ IF w \in live THEN Release(w) ELSE UNCHANGED <<live, slots, requested, phase>>
  /\ UNCHANGED reading

(* herdr_start_failed has no request id: nothing is settled, the window aborts. *)
ForwardStartFailed(w) ==
  /\ IF w \in live THEN Abort(w, "failed") ELSE UNCHANGED phase
  /\ UNCHANGED <<reading, live, slots, requested>>

RelayReceive ==
  /\ toRelay # <<>>
  /\ toRelay' = Tail(toRelay)
  /\ LET m == Head(toRelay)
     IN \/ m.type = "request" /\ ForwardRequest(m.upload, m.index)
        \/ m.type = "ready" /\ ForwardReady(m.upload)
        \/ m.type = "error" /\ ForwardError(m.upload)
        \/ m.type = "exit" /\ ForwardExit(m.stream)
        \/ m.type = "start_failed" /\ ForwardStartFailed(m.stream)
  /\ UNCHANGED <<toHost, connector>>

Next ==
  \/ \E u \in Uploads : Begin(u) \/ Stall(u)
  \/ \E u \in Uploads : \E i \in Slices(u) : ReadDone(u, i) \/ ReadFailed(u, i)
  \/ \E w \in Windows : WindowGone(w) \/ PtyExit(w)
  \/ HostReceive \/ RelayReceive \/ LinkRestarted

Spec == Init /\ [][Next]_vars

(* What was sent is handled, and a read ends, one way or the other.  The stall  *)
(* timer is not relied on.                                                     *)
LiveSpec ==
  /\ Spec
  /\ WF_vars(HostReceive) /\ WF_vars(RelayReceive)
  /\ \A u \in Uploads : \A i \in Slices(u) : WF_vars(ReadDone(u, i) \/ ReadFailed(u, i))
-----------------------------------------------------------------------------
InTransit(q, type, u) == {k \in DOMAIN q : q[k].type = type /\ q[k].upload = u}
SliceInTransit(q, type, u, i) == \E k \in InTransit(q, type, u) : q[k].index = i

(* A window is told that its file was saved only when every slice of it is on    *)
(* disk, whatever order the slices were read and arrived in.                    *)
SavedWhole ==
  \A u \in Uploads :
    phase[u] = "saved" \/ InTransit(toRelay, "ready", u) # {} => file[u] = Slices(u)

(* While a window sends an upload and its connector has it, the connector waits  *)
(* for at least one slice, and each slice it waits for is asked for, being read  *)
(* or on its way: no pull is lost between the three.  Nor are there ever more    *)
(* than a few, counted over all three: a file never queues ahead of terminal     *)
(* output.                                                                       *)
PullsAccounted ==
  /\ \A u \in uploads : Sending(u) =>
       /\ pending[u] # {}
       /\ \A i \in pending[u] : \/ SliceInTransit(toRelay, "request", u, i)
                                \/ <<u, i>> \in reading \cap requested
                                \/ SliceInTransit(toHost, "chunk", u, i)
  /\ \A u \in Uploads :
       Cardinality(InTransit(toRelay, "request", u))
         + Cardinality({s \in reading : s[1] = u /\ Sending(u)})
         + Cardinality(InTransit(toHost, "chunk", u)) <= PASTE_UPLOAD_WINDOW

(* A slot of a window at the relay is held for an upload that the connector has   *)
(* or will have, or whose end is on its way: nothing ends an upload and leaves    *)
(* the window a slot less.                                                       *)
SlotsAccounted ==
  \A u \in slots : \/ InTransit(toHost, "begin", u) # {}
                   \/ u \in uploads
                   \/ InTransit(toRelay, "ready", u) \cup InTransit(toRelay, "error", u) # {}

(* Both: neither a pull nor a slot of the relay (paste-proxy.ts) or the connector  *)
(* (pasted-files.ts) gets lost between them.                                      *)
UploadsAccounted == PullsAccounted /\ SlotsAccounted

(* An upload ends without its window's stall timer: the pulls alone lead to its   *)
(* end, saved or not.                                                            *)
UploadSettles == \A u \in Uploads : Sending(u) ~> ~Sending(u)

=============================================================================
