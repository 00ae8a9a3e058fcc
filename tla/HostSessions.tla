---------------------------- MODULE HostSessions ----------------------------
(***************************************************************************)
(* The PTY sessions of a host connector, one for each browser window, and    *)
(* the Herdr server they need: session starts that are probed, held until    *)
(* Herdr runs, spawned, stopped, and reported when they end.                 *)
(* Source: packages/cli/src/connector/{sessions,host-connector}.ts and       *)
(* herdr-server.ts; the relay's half of the conversation from                *)
(* packages/relay/src/server/{sessions,host-channel,client-channel}.ts.      *)
(*                                                                         *)
(* Both ends are event loops; between them lies a WebSocket, a FIFO queue    *)
(* each way.  A stream id is random, so it is started once.  Output frames,  *)
(* sizes and what an error says are left out.                                *)
(***************************************************************************)
EXTENDS Naturals, Sequences, SequencesExt

CONSTANTS
  Streams,           \* one for each window and connection
  Indices,           \* v2 stream indices
  FAST_FAILURE_LIMIT,
  AutoStart, None

ASSUME SessionsAssumption ==
  /\ AutoStart \notin Streams /\ None \notin Indices \cup Streams
  /\ FAST_FAILURE_LIMIT \in Nat \ {0}

VARIABLES
  open, used,    \* the relay's live streams, and all it ever started
  index,         \* session.streamIndex of each
  heard,         \* the last the window of each live stream was told
  link,          \* of the connector: up, lost (its close event is to come), down
  toHost, toRelay,
  byStream,      \* the streams with a PTY
  streamIndexToId,
  waitingForHerdr, probingStarts,
  probe,         \* the probe each start waits for, or its answer
  launch,        \* herdrLaunch: pending, or what the last one came to
  askers,        \* who awaits it
  fastFailures,
  herdr          \* what is at the socket path

relay == <<open, used, index, heard>>
wires == <<link, toHost, toRelay>>
ptys == <<byStream, streamIndexToId, fastFailures>>
starts == <<waitingForHerdr, probingStarts, probe>>
launching == <<launch, askers>>
vars == <<relay, wires, ptys, starts, launching, herdr>>

\* refused: herdr_not_found, herdr_socket_unavailable, herdr_elevated, pty_start_failed
Errors == {"not_running", "start_failed", "refused"}
Asks == [t : {"start", "stop", "herdr_start"}, s : Streams]
Answers == [t : {"ready", "exit"} \cup Errors, s : Streams]

TypeOK ==
  /\ open \in SUBSET Streams /\ used \in SUBSET Streams
  /\ index \in [Streams -> Indices \cup {None}]
  /\ heard \in [Streams -> {"nothing", "ready"} \cup Errors]
  /\ link \in {"up", "lost", "down"}
  /\ toHost \in Seq(Asks) /\ toRelay \in Seq(Answers)
  /\ byStream \in SUBSET Streams
  /\ streamIndexToId \in [Indices -> Streams \cup {None}]
  /\ waitingForHerdr \in SUBSET Streams /\ probingStarts \in SUBSET Streams
  /\ probe \in [Streams -> {"none", "asked", "running", "stopped", "unavailable"}]
  /\ launch \in {"none", "pending", "started", "failed"}
  /\ askers \in SUBSET (Streams \cup {AutoStart})
  /\ fastFailures \in 0 .. FAST_FAILURE_LIMIT
  /\ herdr \in {"absent", "stale", "up", "foreign"}

Init ==
  /\ open = {} /\ used = {}
  /\ index = [s \in Streams |-> None]
  /\ heard = [s \in Streams |-> "nothing"]
  /\ link = "up" /\ toHost = <<>> /\ toRelay = <<>>
  /\ byStream = {} /\ streamIndexToId = [i \in Indices |-> None]
  /\ waitingForHerdr = {} /\ probingStarts = {}
  /\ probe = [s \in Streams |-> "none"]
  /\ \/ launch = "none" /\ askers = {}
     \/ launch = "pending" /\ askers = {AutoStart}      \* config.herdr.autoStart
  /\ fastFailures = 0
  /\ herdr \in {"absent", "stale", "up", "foreign"}

Msg(t, s) == [t |-> t, s |-> s]
Say(ms) == IF link = "up" THEN toRelay' = toRelay \o ms ELSE UNCHANGED toRelay
Pending(q, s) == {q[k].t : k \in {j \in DOMAIN q : q[j].s = s}}
-----------------------------------------------------------------------------
(* Mutants. *)
ForgetKeepsIndex(S) == streamIndexToId     \* streamIndexToId.delete forgotten
StopLeavesHeld(S) ==                       \* stop knows running sessions only
  /\ byStream' = byStream \ S
  /\ UNCHANGED <<waitingForHerdr, probingStarts>>
HeldSilently(s) ==                         \* held, and nobody is told
  /\ waitingForHerdr' = waitingForHerdr \cup {s}
  /\ UNCHANGED <<toRelay, ptys>>
ExitUnreported(s, fast) == UNCHANGED <<toRelay, fastFailures>>
-----------------------------------------------------------------------------
(* The relay. *)

(* startSession, with a v2 index that no live stream has, or none. *)
RelayStart(s) ==
  /\ link = "up" /\ s \notin used
  /\ used' = used \cup {s} /\ open' = open \cup {s}
  /\ \E i \in (Indices \ {index[r] : r \in open}) \cup {None} :
       index' = [index EXCEPT ![s] = i]
  /\ toHost' = Append(toHost, Msg("start", s))
  /\ UNCHANGED <<heard, link, toRelay, ptys, starts, launching, herdr>>

(* The window leaves: detachClient. *)
RelayStop(s) ==
  /\ link = "up" /\ s \in open
  /\ open' = open \ {s} /\ heard' = [heard EXCEPT ![s] = "nothing"]
  /\ toHost' = Append(toHost, Msg("stop", s))
  /\ UNCHANGED <<used, index, link, toRelay, ptys, starts, launching, herdr>>

(* The window was told that Herdr does not run, and asks for it; bound: once   *)
(* it has heard the answer to what it asked before.                           *)
RelayAsk(s) ==
  /\ link = "up" /\ s \in open /\ heard[s] \in {"not_running", "start_failed"}
  /\ "herdr_start" \notin Pending(toHost, s) /\ s \notin askers /\ Pending(toRelay, s) = {}
  /\ toHost' = Append(toHost, Msg("herdr_start", s))
  /\ UNCHANGED <<relay, link, toRelay, ptys, starts, launching, herdr>>

RelayHears ==
  /\ toRelay # <<>>
  /\ LET m == Head(toRelay) IN
       IF m.s \in open
       THEN /\ heard' = [heard EXCEPT ![m.s] = IF m.t = "exit" THEN "nothing" ELSE m.t]
            /\ open' = IF m.t = "exit" THEN open \ {m.s} ELSE open
       ELSE UNCHANGED <<heard, open>>
  /\ toRelay' = Tail(toRelay)
  /\ UNCHANGED <<used, index, link, toHost, ptys, starts, launching, herdr>>

(* The connection breaks.  The relay releases every session; the connector    *)
(* may still read what had arrived.                                           *)
LinkLost ==
  /\ link = "up" /\ link' = "lost"
  /\ open' = {} /\ toRelay' = <<>>
  /\ heard' = [s \in Streams |-> "nothing"]
  /\ UNCHANGED <<used, index, toHost, ptys, starts, launching, herdr>>

Reconnect ==
  /\ link = "down" /\ link' = "up"
  /\ UNCHANGED <<relay, toHost, toRelay, ptys, starts, launching, herdr>>
-----------------------------------------------------------------------------
(* What the connector's handlers share. *)

Tell(t, S) == [k \in 1 .. Len(SetToSeq(S)) |-> Msg(t, SetToSeq(S)[k])]

\* forget: of the indices.
IndicesWithout(S) ==
  [i \in Indices |-> IF \E s \in S : index[s] = i THEN None ELSE streamIndexToId[i]]

\* stop, for the streams S.
StopStreams(S) ==
  /\ byStream' = byStream \ S
  /\ waitingForHerdr' = waitingForHerdr \ S
  /\ probingStarts' = probingStarts \ S

(* spawn for the streams S; those in F fail to start. *)
Spawn(S, F) ==
  /\ byStream' = byStream \cup (S \ F)
  /\ streamIndexToId' = [i \in Indices |->
       IF \E s \in S \ F : index[s] = i THEN CHOOSE s \in S \ F : index[s] = i
       ELSE streamIndexToId[i]]
  /\ Say(Tell("ready", S \ F) \o Tell("refused", F))
  /\ UNCHANGED fastFailures

WaitForHerdr(s) ==
  /\ waitingForHerdr' = waitingForHerdr \cup {s}
  /\ Say(<<Msg("not_running", s)>>)
  /\ UNCHANGED ptys

Refuse(s) ==
  /\ Say(<<Msg("refused", s)>>)
  /\ UNCHANGED <<waitingForHerdr, ptys>>
-----------------------------------------------------------------------------
(* The connector. *)

(* session_start: the command may be missing, the socket decides the rest. *)
StartSession(s) ==
  \/ /\ Refuse(s)
     /\ UNCHANGED <<probingStarts, probe>>
  \/ /\ herdr = "foreign" /\ Refuse(s)
     /\ UNCHANGED <<probingStarts, probe>>
  \/ /\ herdr = "absent" /\ WaitForHerdr(s)
     /\ UNCHANGED <<probingStarts, probe>>
  \/ /\ herdr \in {"stale", "up"}
     /\ probingStarts' = probingStarts \cup {s}
     /\ probe' = [probe EXCEPT ![s] = "asked"]
     /\ UNCHANGED <<waitingForHerdr, toRelay, ptys>>

Receive ==
  /\ link \in {"up", "lost"} /\ toHost # <<>>
  /\ toHost' = Tail(toHost)
  /\ LET m == Head(toHost) IN
       \/ /\ m.t = "start" /\ StartSession(m.s)
          /\ UNCHANGED launching
       \/ /\ m.t = "stop" /\ StopStreams({m.s})
          /\ streamIndexToId' = IF m.s \in byStream THEN IndicesWithout({m.s}) ELSE streamIndexToId
          /\ UNCHANGED <<toRelay, fastFailures, probe, launching>>
       \/ /\ m.t = "herdr_start"
          /\ launch' = "pending" /\ askers' = askers \cup {m.s}
          /\ UNCHANGED <<toRelay, ptys, starts>>
  /\ UNCHANGED <<relay, link, herdr>>

(* The probe finds out; a socket that does not answer in time counts as        *)
(* running.                                                                    *)
ProbeAnswered(s) ==
  /\ probe[s] = "asked"
  /\ \E a \in {"running"} \cup
            (CASE herdr = "up" -> {} [] herdr = "foreign" -> {"unavailable"} [] OTHER -> {"stopped"}) :
       probe' = [probe EXCEPT ![s] = a]
  /\ UNCHANGED <<relay, wires, ptys, waitingForHerdr, probingStarts, launching, herdr>>

ProbeDone(s) ==
  /\ probe[s] \in {"running", "stopped", "unavailable"}
  /\ probe' = [probe EXCEPT ![s] = "none"]
  /\ probingStarts' = probingStarts \ {s}
  /\ IF s \notin probingStarts THEN UNCHANGED <<waitingForHerdr, toRelay, ptys>>
     ELSE \/ /\ probe[s] = "running" /\ UNCHANGED waitingForHerdr
             /\ \E F \in SUBSET {s} : Spawn({s}, F)
          \/ probe[s] = "stopped" /\ WaitForHerdr(s)
          \/ probe[s] = "unavailable" /\ Refuse(s)
  /\ UNCHANGED <<relay, link, toHost, launching, herdr>>

(* herdrLaunch settles, and so do the startHerdrFor calls that await it.       *)
AskingWindows == askers \ {AutoStart}
ServeHeld ==
  /\ waitingForHerdr' = {}
  /\ \E F \in SUBSET waitingForHerdr : Spawn(waitingForHerdr, F)

LaunchStarted ==
  /\ launch = "pending" /\ herdr = "up"
  /\ launch' = "started" /\ askers' = {}
  /\ IF AskingWindows = {} THEN UNCHANGED <<waitingForHerdr, toRelay, ptys>> ELSE ServeHeld
  /\ UNCHANGED <<relay, link, toHost, probingStarts, probe, herdr>>

LaunchFailed ==
  /\ launch = "pending" /\ launch' = "failed" /\ askers' = {}
  /\ Say(Tell("start_failed", AskingWindows))
  /\ UNCHANGED <<relay, link, toHost, ptys, starts, herdr>>

(* onExit and reportExit. *)
AfterExit(s, fast) ==
  LET n == IF fast THEN fastFailures + 1 ELSE 0 IN
  /\ fastFailures' = IF n < FAST_FAILURE_LIMIT THEN n ELSE FAST_FAILURE_LIMIT
  /\ Say(<<Msg(IF n < FAST_FAILURE_LIMIT THEN "exit" ELSE "start_failed", s)>>)

PtyExit(s, fast) ==
  /\ s \in byStream
  /\ byStream' = byStream \ {s}
  /\ streamIndexToId' = IndicesWithout({s})
  /\ AfterExit(s, fast)
  /\ UNCHANGED <<relay, link, toHost, starts, launching, herdr>>

(* The close event: stopAll. *)
Disconnected ==
  /\ link = "lost" /\ link' = "down"
  /\ toHost' = <<>>
  /\ StopStreams(Streams)
  /\ streamIndexToId' = IndicesWithout(Streams)
  /\ UNCHANGED <<relay, toRelay, fastFailures, probe, launching, herdr>>

(* Herdr starts, stops, dies and leaves its socket behind, or is another's. *)
HerdrChanges ==
  /\ herdr' \in {"absent", "stale", "up", "foreign"} \ {herdr}
  /\ UNCHANGED <<relay, wires, ptys, starts, launching>>

Next ==
  \/ \E s \in Streams :
       \/ RelayStart(s) \/ RelayStop(s) \/ RelayAsk(s)
       \/ ProbeAnswered(s) \/ ProbeDone(s)
       \/ \E fast \in BOOLEAN : PtyExit(s, fast)
  \/ RelayHears \/ LinkLost \/ Reconnect \/ Disconnected
  \/ Receive \/ LaunchStarted \/ LaunchFailed
  \/ HerdrChanges

Spec == Init /\ [][Next]_vars

(* Messages that were sent are read, the close event comes, and a probe is     *)
(* answered (it has a timeout).                                                *)
LiveSpec ==
  /\ Spec
  /\ WF_vars(Receive) /\ WF_vars(RelayHears) /\ WF_vars(Disconnected)
  /\ \A s \in Streams : WF_vars(ProbeAnswered(s)) /\ WF_vars(ProbeDone(s))
-----------------------------------------------------------------------------
(* What a window types reaches its own PTY: the index table lists exactly the  *)
(* running sessions that have an index, and, with nothing under way, an open   *)
(* stream's index leads to it or nowhere, though the relay gives the index of  *)
(* a stream that ended to the next one.                                        *)
InputRouting ==
  /\ \A i \in Indices : streamIndexToId[i] # None =>
       streamIndexToId[i] \in byStream /\ index[streamIndexToId[i]] = i
  /\ \A s \in byStream : index[s] # None => streamIndexToId[index[s]] = s
  /\ toHost = <<>> => \A s \in open : index[s] # None => streamIndexToId[index[s]] \in {s, None}

(* A PTY, a held start or a start being probed belongs to a stream the relay   *)
(* still has, or is about to be stopped, or its end is being reported: probes, *)
(* launches and reconnects that end late leave nothing running for a window    *)
(* that went away.                                                             *)
NothingLeftBehind ==
  LET mine == byStream \cup waitingForHerdr \cup probingStarts IN
  /\ link = "up" => \A s \in mine : s \in open \/ "stop" \in Pending(toHost, s)
  /\ link = "down" => mine = {}

(* No window waits for a session that nobody works on: its start is under way, *)
(* or it runs, or is held until Herdr does, or it was told, or is being told,    *)
(* why it does not: one that was told it is ready has a PTY until it is told   *)
(* otherwise.                                                                  *)
EveryWindowAnswered ==
  link = "up" => \A s \in open :
    \/ "start" \in Pending(toHost, s)
    \/ s \in byStream \cup probingStarts
    \/ Pending(toRelay, s) \cap (Errors \cup {"exit"}) # {}
    \/ heard[s] \in {"refused", "start_failed"} \/ s \in waitingForHerdr

(* A window whose session was asked for hears of it, whatever state Herdr is   *)
(* in, unless it leaves or the connection breaks first.                        *)
WindowHears ==
  \A s \in Streams :
    (s \in open /\ link = "up") ~> (heard[s] # "nothing" \/ s \notin open)
=============================================================================
