----------------------------- MODULE Attachment -----------------------------
(***************************************************************************)
(* What the relay promises about workstations and the windows attached to   *)
(* them, without sockets, records, streams or timers: a host is down, up,    *)
(* waiting to come back, or stalled (it came back on a connection that was   *)
(* already closing); a window joins an up host once, is served while the     *)
(* host is up, and leaves once.  All windows of a host are served together   *)
(* and wait together, and a host that waits does so for at least one window. *)
(***************************************************************************)
EXTENDS Naturals

CONSTANTS HostIds, WindowConns, None

VARIABLES
  state,    \* of each workstation
  at,       \* the workstation each window is attached to
  served,   \* the windows that have a PTY session
  left      \* the windows that were attached and are no more

avars == <<state, at, served, left>>

Of(i) == {c \in WindowConns : at[c] = i}

AInit ==
  /\ state = [i \in HostIds |-> "down"]
  /\ at = [c \in WindowConns |-> None]
  /\ served = {} /\ left = {}

(* Windows go, none of them ever to come back. *)
Part(W) ==
  /\ at' = [c \in WindowConns |-> IF c \in W THEN None ELSE at[c]]
  /\ served' = served \ W
  /\ left' = left \cup W

Come(i) ==
  /\ state[i] = "down"
  /\ state' = [state EXCEPT ![i] = "up"]
  /\ UNCHANGED <<at, served, left>>

Join(c, i) ==
  /\ state[i] = "up" /\ at[c] = None /\ c \notin left
  /\ at' = [at EXCEPT ![c] = i]
  /\ served' = served \cup {c}
  /\ UNCHANGED <<state, left>>

(* The connection is lost, or replaced by one that is closing, and all its     *)
(* windows can wait.                                                           *)
Interrupt(i, s) ==
  /\ state[i] # "down" /\ Of(i) # {}
  /\ state' = [state EXCEPT ![i] = s]
  /\ served' = served \ Of(i)
  /\ UNCHANGED <<at, left>>

(* A newer connection serves every window again. *)
Resume(i) ==
  /\ state[i] \in {"waiting", "stalled"}
  /\ state' = [state EXCEPT ![i] = "up"]
  /\ served' = served \cup Of(i)
  /\ UNCHANGED <<at, left>>

(* A newer connection that starts without windows. *)
Replace(i) ==
  /\ state[i] # "down"
  /\ state' = [state EXCEPT ![i] = "up"]
  /\ Part(Of(i))

(* Windows W leave and hosts D go down; so does a waiting host nobody waits    *)
(* for.  A stalled one is connected, and without windows nothing is amiss.     *)
Emptied(W, s) == {i \in HostIds : state[i] = s /\ Of(i) \subseteq W}

Leave(W, D) ==
  /\ \A c \in W : at[c] # None
  /\ LET E == D \cup Emptied(W, "waiting")
     IN /\ state' = [i \in HostIds |-> IF i \in E THEN "down"
                                       ELSE IF i \in Emptied(W, "stalled") THEN "up"
                                       ELSE state[i]]
        /\ Part(W \cup UNION {Of(i) : i \in E})

ANext ==
  \/ \E i \in HostIds : Come(i) \/ Resume(i) \/ Replace(i)
  \/ \E i \in HostIds, s \in {"waiting", "stalled"} : Interrupt(i, s)
  \/ \E c \in WindowConns, i \in HostIds : Join(c, i)
  \/ \E W \in SUBSET WindowConns, D \in SUBSET HostIds : Leave(W, D)

ASpec == AInit /\ [][ANext]_avars
=============================================================================
