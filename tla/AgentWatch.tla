----------------------------- MODULE AgentWatch -----------------------------
(***************************************************************************)
(* The connector's watch over the agents of its workstation                  *)
(* (packages/cli/src/connector/agent-watch.ts): a poll and a subscription    *)
(* that only ask for a read, reads that never overlap, and a summary sent     *)
(* to the relay when it differs from the last one.                            *)
(*                                                                         *)
(* Herdr answers a read with a snapshot it takes at some moment of the call.  *)
(* A change of what is focused raises an event; other changes (an agent's     *)
(* status) do not, and events are lost while the subscription is down.  The   *)
(* module has no Next of its own: HostLink starts and stops the watch.        *)
(***************************************************************************)
EXTENDS Naturals

CONSTANTS
  Summaries,   \* what summarizeAgents can say
  None

ASSUME SummaryAssumption == None \notin Summaries

VARIABLES
  pollTimer, debounceTimer,   \* whether each is set
  subscription,   \* "off", "wait": not acknowledged, or "up"
  pending, stale,
  lastSummary,
  herdr,          \* the summary of Herdr's present state
  snapshot,       \* the one in the answer on its way, or None
  event,          \* an event Herdr sent has not been handled
  unseen,         \* the present state may be one that no event tells of
  agentStatus     \* host.agentStatus at the relay

watch == <<pollTimer, debounceTimer, subscription, pending, stale, lastSummary>>
agents == <<herdr, snapshot, event, unseen>>

WatchTypeOK ==
  /\ {pollTimer, debounceTimer, pending, stale, event, unseen} \subseteq BOOLEAN
  /\ subscription \in {"off", "wait", "up"}
  /\ herdr \in Summaries
  /\ {snapshot, lastSummary, agentStatus} \subseteq Summaries \cup {None}

WatchInit ==
  /\ pollTimer = FALSE /\ debounceTimer = FALSE /\ pending = FALSE /\ stale = FALSE
  /\ subscription = "off" /\ lastSummary = None
  /\ herdr \in Summaries
  /\ snapshot = None /\ event = FALSE /\ unseen = FALSE /\ agentStatus = None

(* --- the watch --- *)

\* Mutant: a read asked for while one is in flight is forgotten.
Read_Forgets ==
  /\ pending' = TRUE
  /\ stale' = FALSE

\* A read asked for while one is in flight waits for it as stale.
Read ==
  /\ pending' = TRUE
  /\ stale' = pending

StartWatch ==
  IF pollTimer
  THEN UNCHANGED <<watch, event>>
  ELSE /\ pollTimer' = TRUE
       /\ subscription' = "wait"
       /\ Read
       /\ UNCHANGED <<debounceTimer, lastSummary, event>>

StopWatch ==
  /\ pollTimer' = FALSE /\ debounceTimer' = FALSE /\ stale' = FALSE
  /\ subscription' = "off" /\ lastSummary' = None
  /\ event' = FALSE
  /\ UNCHANGED pending

PollTick ==
  /\ pollTimer
  /\ Read
  /\ UNCHANGED <<pollTimer, debounceTimer, subscription, lastSummary, agents, agentStatus>>

DebounceFires ==
  /\ debounceTimer
  /\ debounceTimer' = FALSE
  /\ Read
  /\ UNCHANGED <<pollTimer, subscription, lastSummary, agents, agentStatus>>

\* The summary an answer leaves as the last one, None when it is dropped as the
\* watch has stopped, or is the one already reported.
News == IF pollTimer /\ snapshot # lastSummary THEN snapshot ELSE None

\* What the finally of read does, whether Herdr answered or not.
Settle ==
  /\ pending /\ pending' = FALSE
  /\ debounceTimer' = (debounceTimer \/ (stale /\ pollTimer))
  /\ snapshot' = None
  /\ UNCHANGED <<pollTimer, subscription, stale, herdr, event>>

\* Herdr's answer arrives; what is sent for it reaches the relay if delivered.
ReadEnds(delivered) ==
  /\ snapshot # None
  /\ Settle
  /\ lastSummary' = IF News # None THEN News ELSE lastSummary
  /\ agentStatus' = IF News # None /\ delivered THEN News ELSE agentStatus
  /\ UNCHANGED unseen

ReadFails ==
  /\ Settle
  /\ unseen' = TRUE
  /\ UNCHANGED <<lastSummary, agentStatus>>

\* Both the acknowledgement of a subscription and each event ask for a read.
ScheduleRead ==
  /\ debounceTimer' = TRUE
  /\ UNCHANGED <<pollTimer, pending, stale, lastSummary, herdr, snapshot, unseen, agentStatus>>

SubscriptionStarts ==
  /\ subscription = "wait"
  /\ subscription' = "up"
  /\ UNCHANGED event
  /\ ScheduleRead

EventArrives ==
  /\ event
  /\ event' = FALSE
  /\ UNCHANGED subscription
  /\ ScheduleRead

(* --- Herdr --- *)

HerdrOnly == UNCHANGED <<pollTimer, debounceTimer, pending, stale, lastSummary, agentStatus>>

FocusChanges(s) ==
  /\ s # herdr
  /\ herdr' = s
  /\ event' = (event \/ subscription = "up")
  /\ UNCHANGED <<subscription, snapshot, unseen>>
  /\ HerdrOnly

\* A change no event tells of; only a poll can find it.
StatusChanges(s) ==
  /\ s # herdr
  /\ herdr' = s
  /\ unseen' = TRUE
  /\ UNCHANGED <<subscription, snapshot, event>>
  /\ HerdrOnly

HerdrAnswers ==
  /\ pending /\ snapshot = None
  /\ snapshot' = herdr
  /\ unseen' = FALSE
  /\ UNCHANGED <<subscription, herdr, event>>
  /\ HerdrOnly

\* The subscription is closed (a restart of Herdr, events_lost) and retried.
SubscriptionLost ==
  /\ subscription = "up"
  /\ subscription' = "wait"
  /\ event' = FALSE
  /\ UNCHANGED <<herdr, snapshot, unseen>>
  /\ HerdrOnly
=============================================================================
