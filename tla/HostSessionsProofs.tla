--------------------------- MODULE HostSessionsProofs ---------------------------
(***************************************************************************)
(* The PTY sessions of a connector, for any number of windows, indices and   *)
(* messages under way.                                                       *)
(*                                                                         *)
(* All three invariants come down to the order of two messages.  The relay   *)
(* gives an index to a new stream once the stream that had it is not open;    *)
(* then the stop of that stream is under way, ahead of the start of the new   *)
(* one (Apart), or its PTY had ended before the relay heard so (Ended).       *)
(***************************************************************************)
EXTENDS HostSessions, FiniteSetTheorems, TLAPS

(* What the connector works on, and where a start or a stop is under way. *)
Busy == byStream \cup waitingForHerdr \cup probingStarts
Starts(k, s) == k \in DOMAIN toHost /\ toHost[k] = Msg("start", s)
Stops(k, s) == k \in DOMAIN toHost /\ toHost[k] = Msg("stop", s)

(* Only so many wait at a time. *)
FewWait == IsFiniteSet(waitingForHerdr) /\ IsFiniteSet(askers)

(* The relay's half: open streams have indices of their own, and none is open     *)
(* while there is no connection.                                                 *)
RelaySide ==
  /\ open \subseteq used
  /\ \A r, s \in open : index[r] = index[s] /\ index[s] # None => r = s
  /\ link # "up" => open = {} /\ toRelay = <<>>
  /\ link = "down" => Busy = {} /\ toHost = <<>>

(* A stream is started once, and is at one stage at a time. *)
StartedOnce ==
  /\ byStream \cap waitingForHerdr = {} /\ byStream \cap probingStarts = {}
  /\ waitingForHerdr \cap probingStarts = {}
  /\ Busy \subseteq used
  /\ \A s \in Streams : \A k \in DOMAIN toHost : Starts(k, s) => s \in used /\ s \notin Busy
  /\ \A s \in Streams : \A j, k \in DOMAIN toHost : Starts(j, s) /\ Starts(k, s) => j = k

(* A stream whose end is being reported has nothing left on the workstation. *)
Ended ==
  \A s \in Streams : \A k \in DOMAIN toRelay :
    toRelay[k].t = "exit" /\ toRelay[k].s = s =>
      s \in used \ Busy /\ \A j \in DOMAIN toHost : ~Starts(j, s)

(* What is worked on, or about to be, is open or about to be stopped. *)
Left ==
  link = "up" =>
    /\ \A s \in Busy : s \in open \/ \E j \in DOMAIN toHost : Stops(j, s)
    /\ \A s \in Streams : \A k \in DOMAIN toHost :
         Starts(k, s) => s \in open \/ \E j \in DOMAIN toHost : j > k /\ Stops(j, s)

(* Of two streams with one index, the stop of the first comes before the start   *)
(* of the second.                                                                *)
Same(r, s) == index[r] = index[s] /\ index[s] # None
Apart ==
  /\ \A r, s \in Busy : Same(r, s) => r = s
  /\ \A s \in Busy, r \in Streams : \A k \in DOMAIN toHost :
       Starts(k, r) /\ Same(r, s) => \E j \in DOMAIN toHost : j < k /\ Stops(j, s)
  /\ \A r, s \in Streams : \A k, l \in DOMAIN toHost :
       k < l /\ Starts(k, s) /\ Starts(l, r) /\ Same(r, s)
         => \E j \in DOMAIN toHost : k < j /\ j < l /\ Stops(j, s)

(* The index table leads to running sessions, and to each that has an index. *)
Table ==
  /\ \A i \in Indices : streamIndexToId[i] # None =>
       streamIndexToId[i] \in byStream /\ index[streamIndexToId[i]] = i
  /\ \A s \in byStream : index[s] # None => streamIndexToId[index[s]] = s

(* The last word on a stream: the window has heard it, or it is on its way, and    *)
(* nothing else comes after it.                                                    *)
LastWords == {"refused", "start_failed", "exit"}
OnlyLast(s, k) ==
  \A j \in DOMAIN toRelay : j > k /\ toRelay[j].s = s => toRelay[j].t \in LastWords
Final(s) ==
  \/ heard[s] \in LastWords /\ OnlyLast(s, 0)
  \/ \E k \in DOMAIN toRelay :
       toRelay[k].s = s /\ toRelay[k].t \in LastWords /\ OnlyLast(s, k)

(* An open stream whose start has been dealt with is worked on, or its window has  *)
(* the last word.                                                                  *)
Answered ==
  link = "up" => \A s \in open :
    (\E k \in DOMAIN toHost : Starts(k, s)) \/ s \in Busy \/ Final(s)

(* A stream that is to be stopped was started, and is not open. *)
StopsGone == \A s \in Streams : \A k \in DOMAIN toHost : Stops(k, s) => s \in used \ open

Sides == RelaySide /\ StartedOnce /\ Left /\ Apart /\ StopsGone
SessionsInv == TypeOK /\ FewWait /\ Sides /\ Ended /\ Table /\ Answered

(***************************************************************************)
(* Messages told to several windows at once.                               *)
(***************************************************************************)

(* What is told to a finite set of streams is one message to each, in some order. *)
LEMMA TellFacts ==
  ASSUME NEW S \in SUBSET Streams, IsFiniteSet(S), NEW t \in {"ready"} \cup Errors
  PROVE  /\ Tell(t, S) \in Seq(Answers)
         /\ \A k \in DOMAIN Tell(t, S) : Tell(t, S)[k].t = t /\ Tell(t, S)[k].s \in S
         /\ \A s \in S : \E k \in DOMAIN Tell(t, S) : Tell(t, S)[k].s = s
<1> DEFINE n == Cardinality(S)
           f == SetToSeq(S)
<1>1. n \in Nat /\ ExistsBijection(1 .. n, S)
  BY FS_CardinalityType
<1>2. f \in [1 .. n -> S] /\ IsInjective(f)
  <2>1. \E g \in [1 .. n -> S] : IsInjective(g)
    BY <1>1 DEF ExistsBijection, Bijection, Injection
  <2> QED
    BY <2>1 DEF SetToSeq
<1>3. f \in Injection(1 .. n, S)
  BY <1>2 DEF Injection
<1>4. IsFiniteSet(1 .. n) /\ Cardinality(1 .. n) = n
  BY <1>1, FS_Interval
<1>5. f \in Surjection(1 .. n, S)
  BY <1>3, <1>4, FS_Injection
<1>6. \A s \in S : \E k \in 1 .. n : f[k] = s
  BY <1>5 DEF Surjection
<1>7. Len(f) = n
  BY <1>1, <1>2
<1>8. Tell(t, S) = [k \in 1 .. n |-> Msg(t, f[k])]
  BY <1>7 DEF Tell
<1>9. \A k \in 1 .. n : Msg(t, f[k]) \in Answers /\ Msg(t, f[k]).t = t /\ Msg(t, f[k]).s = f[k]
  BY <1>2 DEF Msg, Answers, Errors
<1>10. Tell(t, S) \in Seq(Answers) /\ DOMAIN Tell(t, S) = 1 .. n
  BY <1>1, <1>8, <1>9
<1> QED
  BY <1>2, <1>6, <1>8, <1>9, <1>10

(* The head and the rest of a queue. *)
LEMMA HeadTail ==
  ASSUME NEW T, NEW q \in Seq(T), q # <<>>
  PROVE  /\ Head(q) \in T /\ 1 \in DOMAIN q /\ Head(q) = q[1]
         /\ Tail(q) \in Seq(T)
         /\ \A k \in DOMAIN Tail(q) : k \in Nat /\ k + 1 \in DOMAIN q /\ Tail(q)[k] = q[k + 1]
         /\ \A k \in DOMAIN q : k \in Nat /\ (k > 1 => k - 1 \in DOMAIN Tail(q) /\ Tail(q)[k - 1] = q[k])
OBVIOUS

(* Two queues, one after the other. *)
LEMMA Joined ==
  ASSUME NEW T, NEW q \in Seq(T), NEW r \in Seq(T)
  PROVE  /\ q \o r \in Seq(T)
         /\ DOMAIN (q \o r) = 1 .. Len(q) + Len(r)
         /\ \A k \in DOMAIN q : (q \o r)[k] = q[k]
         /\ \A k \in DOMAIN r : (q \o r)[Len(q) + k] = r[k]
OBVIOUS

(* What is said to the relay joins the queue while there is a connection, and is   *)
(* lost otherwise.                                                                 *)
LEMMA SayFacts ==
  ASSUME TypeOK, NEW ms \in Seq(Answers), Say(ms)
  PROVE  /\ toRelay' \in Seq(Answers)
         /\ link # "up" => toRelay' = toRelay
         /\ link = "up" =>
              /\ DOMAIN toRelay' = 1 .. Len(toRelay) + Len(ms)
              /\ \A k \in DOMAIN toRelay : toRelay'[k] = toRelay[k]
              /\ \A k \in DOMAIN ms : toRelay'[Len(toRelay) + k] = ms[k]
<1>1. toRelay \in Seq(Answers)
  BY DEF TypeOK
<1>2. CASE link = "up"
  <2>1. toRelay' = toRelay \o ms
    BY <1>2 DEF Say
  <2> QED
    BY <1>1, <1>2, <2>1, Joined
<1>3. CASE link # "up"
  BY <1>1, <1>3 DEF Say
<1> QED
  BY <1>2, <1>3

(* A spawn adds the streams that started, and says of each what came of it. *)
LEMMA SpawnFacts ==
  ASSUME TypeOK, NEW S \in SUBSET Streams, IsFiniteSet(S), NEW F \in SUBSET S, Spawn(S, F)
  PROVE  /\ byStream' = byStream \cup (S \ F)
         /\ byStream' \in SUBSET Streams
         /\ streamIndexToId' \in [Indices -> Streams \cup {None}]
         /\ fastFailures' = fastFailures
         /\ \E ms \in Seq(Answers) :
              /\ Say(ms)
              /\ \A k \in DOMAIN ms : \/ ms[k].t = "ready" /\ ms[k].s \in S \ F
                                      \/ ms[k].t = "refused" /\ ms[k].s \in F
              /\ \A s \in F : \E k \in DOMAIN ms : ms[k].s = s
<1>1. IsFiniteSet(S \ F) /\ IsFiniteSet(F)
  BY FS_Subset
<1> DEFINE a == Tell("ready", S \ F)
           b == Tell("refused", F)
<1>2. /\ a \in Seq(Answers)
      /\ \A k \in DOMAIN a : a[k].t = "ready" /\ a[k].s \in S \ F
  BY <1>1, TellFacts
<1>3. /\ b \in Seq(Answers)
      /\ \A k \in DOMAIN b : b[k].t = "refused" /\ b[k].s \in F
      /\ \A s \in F : \E k \in DOMAIN b : b[k].s = s
  BY <1>1, TellFacts DEF Errors
<1> HIDE DEF a, b
<1>4. PICK ms : ms = a \o b
  OBVIOUS
<1>5. /\ ms \in Seq(Answers) /\ DOMAIN ms = 1 .. Len(a) + Len(b)
      /\ \A k \in DOMAIN a : ms[k] = a[k]
      /\ \A k \in DOMAIN b : ms[Len(a) + k] = b[k]
  BY <1>2, <1>3, <1>4
<1>6. \A k \in DOMAIN ms : \/ ms[k].t = "ready" /\ ms[k].s \in S \ F
                           \/ ms[k].t = "refused" /\ ms[k].s \in F
  <2> SUFFICES ASSUME NEW k \in DOMAIN ms
               PROVE  \/ ms[k].t = "ready" /\ ms[k].s \in S \ F
                      \/ ms[k].t = "refused" /\ ms[k].s \in F
    OBVIOUS
  <2>1. CASE k <= Len(a)
    BY <1>2, <1>3, <1>5, <2>1
  <2>2. CASE k > Len(a)
    <3>1. k - Len(a) \in DOMAIN b /\ k = Len(a) + (k - Len(a))
      BY <1>2, <1>3, <1>5, <2>2
    <3> QED
      BY <1>3, <1>5, <3>1
  <2> QED
    BY <1>2, <1>5, <2>1, <2>2
<1>7. \A s \in F : \E k \in DOMAIN ms : ms[k].s = s
  <2> SUFFICES ASSUME NEW s \in F
               PROVE  \E k \in DOMAIN ms : ms[k].s = s
    OBVIOUS
  <2>1. PICK k \in DOMAIN b : b[k].s = s
    BY <1>3
  <2>2. Len(a) + k \in DOMAIN ms
    BY <1>2, <1>3, <1>5
  <2> QED
    BY <1>5, <2>1, <2>2
<1>8. Say(ms)
  BY <1>4 DEF Spawn, a, b
<1>9. streamIndexToId' \in [Indices -> Streams \cup {None}]
  <2>1. \A i \in Indices : (\E s \in S \ F : index[s] = i)
                             => (CHOOSE s \in S \ F : index[s] = i) \in Streams
    OBVIOUS
  <2> QED
    BY <2>1 DEF Spawn, TypeOK
<1> QED
  BY <1>5, <1>6, <1>7, <1>8, <1>9 DEF Spawn, TypeOK

(* The end of a stream in the table: forget. *)
LEMMA IndicesType ==
  ASSUME TypeOK, NEW S
  PROVE  IndicesWithout(S) \in [Indices -> Streams \cup {None}]
BY DEF TypeOK, IndicesWithout

(***************************************************************************)
(* Type correctness.                                                       *)
(***************************************************************************)

(* The relay's steps keep the types. *)
LEMMA RelayType ==
  ASSUME TypeOK,
         \/ \E s \in Streams : RelayStart(s) \/ RelayStop(s) \/ RelayAsk(s)
         \/ RelayHears \/ LinkLost \/ Reconnect
  PROVE  TypeOK'
<1>1. ASSUME NEW s \in Streams, NEW t \in {"start", "stop", "herdr_start"}
      PROVE  Append(toHost, Msg(t, s)) \in Seq(Asks)
  BY DEF TypeOK, Asks, Msg
<1>2. ASSUME NEW s \in Streams, RelayStart(s)
      PROVE  TypeOK'
  BY <1>1, <1>2 DEF TypeOK, RelayStart, ptys, starts, launching
<1>3. ASSUME NEW s \in Streams, RelayStop(s)
      PROVE  TypeOK'
  BY <1>1, <1>3 DEF TypeOK, RelayStop, ptys, starts, launching
<1>4. ASSUME NEW s \in Streams, RelayAsk(s)
      PROVE  TypeOK'
  BY <1>1, <1>4 DEF TypeOK, RelayAsk, ptys, starts, launching, relay
<1>5. CASE RelayHears
  <2>1. /\ Head(toRelay) \in Answers /\ Tail(toRelay) \in Seq(Answers)
        /\ Head(toRelay).s \in Streams /\ Head(toRelay).t \in {"ready", "exit"} \cup Errors
    <3>1. toRelay \in Seq(Answers) /\ toRelay # <<>>
      BY <1>5 DEF TypeOK, RelayHears
    <3>2. Head(toRelay) \in Answers /\ Tail(toRelay) \in Seq(Answers)
      BY <3>1, HeadTail
    <3> QED
      BY <3>2 DEF Answers
  <2>2. heard' \in [Streams -> {"nothing", "ready"} \cup Errors] /\ open' \in SUBSET Streams
    BY <1>5, <2>1 DEF TypeOK, RelayHears
  <2>3. toRelay' \in Seq(Answers)
    BY <1>5, <2>1 DEF RelayHears
  <2> QED
    BY <1>5, <2>2, <2>3 DEF TypeOK, RelayHears, ptys, starts, launching
<1>6. CASE LinkLost
  BY <1>6 DEF TypeOK, LinkLost, ptys, starts, launching
<1>7. CASE Reconnect
  BY <1>7 DEF TypeOK, Reconnect, ptys, starts, launching, relay
<1> QED
  BY <1>2, <1>3, <1>4, <1>5, <1>6, <1>7

(* So do the connector's. *)
LEMMA ReceiveType ==
  ASSUME TypeOK, Receive
  PROVE  TypeOK'
<1> DEFINE m == Head(toHost)
<1>1. m \in Asks /\ m.s \in Streams /\ toHost' \in Seq(Asks)
  <2>1. toHost \in Seq(Asks) /\ toHost # <<>> /\ toHost' = Tail(toHost)
    BY DEF TypeOK, Receive
  <2>2. m \in Asks /\ toHost' \in Seq(Asks)
    BY <2>1, HeadTail
  <2> QED
    BY <2>2 DEF Asks
<1>2. UNCHANGED <<relay, link, herdr>>
  BY DEF Receive
<1>3. ASSUME NEW t \in Errors, Say(<<Msg(t, m.s)>>)
      PROVE  toRelay' \in Seq(Answers)
  <2>1. <<Msg(t, m.s)>> \in Seq(Answers)
    BY <1>1 DEF Msg, Answers
  <2> QED
    BY <1>3, <2>1, SayFacts
<1> HIDE DEF m
<1>4. CASE StartSession(m.s) /\ UNCHANGED launching
  <2>1. CASE Refuse(m.s) /\ UNCHANGED <<probingStarts, probe>>
    <3>1. toRelay' \in Seq(Answers)
      BY <1>3, <2>1 DEF Refuse, Errors
    <3> QED
      BY <1>1, <1>2, <1>4, <2>1, <3>1 DEF TypeOK, Refuse, ptys, launching, relay
  <2>2. CASE WaitForHerdr(m.s) /\ UNCHANGED <<probingStarts, probe>>
    <3>1. toRelay' \in Seq(Answers)
      BY <1>3, <2>2 DEF WaitForHerdr, Errors
    <3> QED
      BY <1>1, <1>2, <1>4, <2>2, <3>1 DEF TypeOK, WaitForHerdr, ptys, launching, relay
  <2>3. CASE /\ probingStarts' = probingStarts \cup {m.s}
             /\ probe' = [probe EXCEPT ![m.s] = "asked"]
             /\ UNCHANGED <<waitingForHerdr, toRelay, ptys>>
    BY <1>1, <1>2, <1>4, <2>3 DEF TypeOK, ptys, launching, relay
  <2> QED
    BY <1>4, <2>1, <2>2, <2>3 DEF StartSession
<1>5. CASE /\ StopStreams({m.s})
           /\ streamIndexToId' = IF m.s \in byStream THEN IndicesWithout({m.s}) ELSE streamIndexToId
           /\ UNCHANGED <<toRelay, fastFailures, probe, launching>>
  <2>1. streamIndexToId' \in [Indices -> Streams \cup {None}]
    BY <1>5, IndicesType DEF TypeOK
  <2> QED
    BY <1>1, <1>2, <1>5, <2>1 DEF TypeOK, StopStreams, launching, relay
<1>6. CASE /\ launch' = "pending" /\ askers' = askers \cup {m.s}
           /\ UNCHANGED <<toRelay, ptys, starts>>
  BY <1>1, <1>2, <1>6 DEF TypeOK, ptys, starts, relay
<1> QED
  BY <1>4, <1>5, <1>6 DEF Receive, m

(* A message to one window is a queue of one. *)
LEMMA SayOne ==
  ASSUME TypeOK, NEW s \in Streams, NEW t \in {"exit"} \cup Errors
  PROVE  /\ <<Msg(t, s)>> \in Seq(Answers)
         /\ DOMAIN <<Msg(t, s)>> = {1}
         /\ <<Msg(t, s)>>[1].t = t /\ <<Msg(t, s)>>[1].s = s
<1>1. Msg(t, s) \in Answers /\ Msg(t, s).t = t /\ Msg(t, s).s = s
  BY DEF Msg, Answers
<1> QED
  BY <1>1

(* The connector's own steps keep the types. *)
LEMMA ConnectorType ==
  ASSUME TypeOK, FewWait,
         \/ \E s \in Streams : \/ ProbeAnswered(s) \/ ProbeDone(s)
                               \/ \E fast \in BOOLEAN : PtyExit(s, fast)
         \/ LaunchStarted \/ LaunchFailed \/ Disconnected \/ HerdrChanges \/ UNCHANGED vars
  PROVE  TypeOK'
<1>1. ASSUME NEW s \in Streams, ProbeAnswered(s)
      PROVE  TypeOK'
  <2>1. probe' \in [Streams -> {"none", "asked", "running", "stopped", "unavailable"}]
    BY <1>1 DEF TypeOK, ProbeAnswered
  <2> QED
    BY <1>1, <2>1 DEF TypeOK, ProbeAnswered, relay, wires, ptys, launching
<1>2. ASSUME NEW s \in Streams, ProbeDone(s)
      PROVE  TypeOK'
  <2>1. CASE UNCHANGED <<waitingForHerdr, toRelay, ptys>>
    BY <1>2, <2>1 DEF TypeOK, ProbeDone, relay, ptys, launching
  <2>2. CASE UNCHANGED waitingForHerdr /\ \E F \in SUBSET {s} : Spawn({s}, F)
    <3>1. PICK F \in SUBSET {s} : Spawn({s}, F)
      BY <2>2
    <3>2. IsFiniteSet({s}) /\ {s} \in SUBSET Streams
      BY FS_Singleton
    <3>3. /\ byStream' \in SUBSET Streams /\ fastFailures' = fastFailures
          /\ streamIndexToId' \in [Indices -> Streams \cup {None}]
          /\ toRelay' \in Seq(Answers)
      BY <3>1, <3>2, SpawnFacts, SayFacts
    <3> QED
      BY <1>2, <2>2, <3>3 DEF TypeOK, ProbeDone, relay, launching
  <2>3. CASE WaitForHerdr(s)
    <3>1. toRelay' \in Seq(Answers)
      BY <2>3, SayOne, SayFacts DEF WaitForHerdr, Errors
    <3> QED
      BY <1>2, <2>3, <3>1 DEF TypeOK, ProbeDone, WaitForHerdr, relay, ptys, launching
  <2>4. CASE Refuse(s)
    <3>1. toRelay' \in Seq(Answers)
      BY <2>4, SayOne, SayFacts DEF Refuse, Errors
    <3> QED
      BY <1>2, <2>4, <3>1 DEF TypeOK, ProbeDone, Refuse, relay, ptys, launching
  <2> QED
    BY <1>2, <2>1, <2>2, <2>3, <2>4 DEF ProbeDone
<1>3. ASSUME NEW s \in Streams, NEW fast \in BOOLEAN, PtyExit(s, fast)
      PROVE  TypeOK'
  <2>1. fastFailures' \in 0 .. FAST_FAILURE_LIMIT
    BY <1>3, SessionsAssumption DEF PtyExit, AfterExit, TypeOK
  <2>2. toRelay' \in Seq(Answers)
    <3>1. PICK t \in {"exit", "start_failed"} : Say(<<Msg(t, s)>>)
      BY <1>3 DEF PtyExit, AfterExit
    <3> QED
      BY <3>1, SayOne, SayFacts DEF Errors
  <2>3. streamIndexToId' \in [Indices -> Streams \cup {None}]
    BY <1>3, IndicesType DEF PtyExit
  <2> QED
    BY <1>3, <2>1, <2>2, <2>3 DEF PtyExit, TypeOK, relay, starts, launching
<1>4. CASE LaunchStarted
  <2>1. CASE UNCHANGED <<waitingForHerdr, toRelay, ptys>>
    BY <1>4, <2>1 DEF TypeOK, LaunchStarted, relay, ptys
  <2>2. CASE ServeHeld
    <3>1. PICK F \in SUBSET waitingForHerdr : Spawn(waitingForHerdr, F)
      BY <2>2 DEF ServeHeld
    <3>2. IsFiniteSet(waitingForHerdr) /\ waitingForHerdr \in SUBSET Streams
      BY DEF FewWait, TypeOK
    <3>3. /\ byStream' \in SUBSET Streams /\ fastFailures' = fastFailures
          /\ streamIndexToId' \in [Indices -> Streams \cup {None}]
          /\ toRelay' \in Seq(Answers)
      BY <3>1, <3>2, SpawnFacts, SayFacts
    <3> QED
      BY <1>4, <2>2, <3>3 DEF TypeOK, LaunchStarted, ServeHeld, relay
  <2> QED
    BY <1>4, <2>1, <2>2 DEF LaunchStarted
<1>5. CASE LaunchFailed
  <2>1. IsFiniteSet(AskingWindows) /\ AskingWindows \in SUBSET Streams
    BY FS_Subset DEF AskingWindows, FewWait, TypeOK
  <2>2. toRelay' \in Seq(Answers)
    BY <1>5, <2>1, TellFacts, SayFacts DEF LaunchFailed, Errors
  <2> QED
    BY <1>5, <2>2 DEF TypeOK, LaunchFailed, relay, ptys, starts
<1>6. CASE Disconnected
  BY <1>6, IndicesType DEF Disconnected, StopStreams, TypeOK, relay, launching
<1>7. CASE HerdrChanges
  BY <1>7 DEF HerdrChanges, TypeOK, relay, wires, ptys, starts, launching
<1>8. CASE UNCHANGED vars
  BY <1>8 DEF vars, TypeOK, relay, wires, ptys, starts, launching
<1> QED
  BY <1>1, <1>2, <1>3, <1>4, <1>5, <1>6, <1>7, <1>8

(* Only so many wait at a time. *)
LEMMA FewWaitStep ==
  ASSUME TypeOK, FewWait, [Next]_vars
  PROVE  FewWait'
<1>1. /\ \/ waitingForHerdr' \subseteq waitingForHerdr
         \/ \E s \in Streams : waitingForHerdr' = waitingForHerdr \cup {s}
      /\ \/ askers' \subseteq askers
         \/ \E s \in Streams : askers' = askers \cup {s}
  <2>1. ASSUME NEW s \in Streams, RelayStart(s) \/ RelayStop(s) \/ RelayAsk(s) \/ ProbeAnswered(s)
                                  \/ \E fast \in BOOLEAN : PtyExit(s, fast)
        PROVE  UNCHANGED <<waitingForHerdr, askers>>
    BY <2>1 DEF RelayStart, RelayStop, RelayAsk, ProbeAnswered, PtyExit, starts, launching
  <2>2. ASSUME NEW s \in Streams, ProbeDone(s)
        PROVE  /\ UNCHANGED askers
               /\ waitingForHerdr' = waitingForHerdr \/ waitingForHerdr' = waitingForHerdr \cup {s}
    BY <2>2 DEF ProbeDone, WaitForHerdr, Refuse, launching
  <2>3. CASE RelayHears \/ LinkLost \/ Reconnect \/ HerdrChanges \/ UNCHANGED vars
    BY <2>3 DEF RelayHears, LinkLost, Reconnect, HerdrChanges, vars, starts, launching
  <2>4. CASE Receive
    <3> DEFINE m == Head(toHost)
    <3>1. m.s \in Streams
      <4>1. toHost \in Seq(Asks) /\ toHost # <<>>
        BY <2>4 DEF Receive, TypeOK
      <4>2. m \in Asks
        BY <4>1, HeadTail
      <4> QED
        BY <4>2 DEF Asks
    <3>2. CASE StartSession(m.s) /\ UNCHANGED launching
      BY <3>1, <3>2 DEF StartSession, Refuse, WaitForHerdr, launching
    <3>3. CASE StopStreams({m.s}) /\ UNCHANGED launching
      BY <3>3 DEF StopStreams, launching
    <3>4. CASE askers' = askers \cup {m.s} /\ UNCHANGED starts
      BY <3>1, <3>4 DEF starts
    <3> QED
      BY <2>4, <3>2, <3>3, <3>4 DEF Receive
  <2>5. CASE LaunchStarted \/ LaunchFailed \/ Disconnected
    BY <2>5 DEF LaunchStarted, ServeHeld, LaunchFailed, Disconnected, StopStreams, starts, launching
  <2> QED
    BY <2>1, <2>2, <2>3, <2>4, <2>5 DEF Next
<1> QED
  BY <1>1, FS_Subset, FS_AddElement DEF FewWait

(***************************************************************************)
(* The order of starts and stops.                                          *)
(***************************************************************************)

(* A message is a start of one stream or a stop of one. *)
LEMMA Kinds ==
  ASSUME NEW k, NEW r, NEW s
  PROVE  /\ Starts(k, r) /\ Starts(k, s) => r = s
         /\ ~(Starts(k, r) /\ Stops(k, s))
BY DEF Starts, Stops, Msg

(* A message that joins the queue. *)
LEMMA Appended ==
  ASSUME TypeOK, NEW t \in {"start", "stop", "herdr_start"}, NEW s \in Streams,
         toHost' = Append(toHost, Msg(t, s))
  PROVE  \E n \in Nat :
           /\ DOMAIN toHost' = DOMAIN toHost \cup {n}
           /\ \A k \in DOMAIN toHost : k \in Nat /\ k < n
           /\ \A r \in Streams : \A k \in DOMAIN toHost :
                (Starts(k, r)' <=> Starts(k, r)) /\ (Stops(k, r)' <=> Stops(k, r))
           /\ \A r \in Streams : (Starts(n, r)' <=> t = "start" /\ r = s)
                                   /\ (Stops(n, r)' <=> t = "stop" /\ r = s)
<1>1. toHost \in Seq(Asks) /\ Msg(t, s) \in Asks
  BY DEF TypeOK, Asks, Msg
<1>0. PICK n \in Nat : n = Len(toHost) + 1
  BY <1>1
<1>2. /\ n \in Nat /\ DOMAIN toHost' = DOMAIN toHost \cup {n}
      /\ \A k \in DOMAIN toHost : k \in Nat /\ k < n /\ toHost'[k] = toHost[k]
      /\ toHost'[n] = Msg(t, s)
  BY <1>0, <1>1
<1>3. \A r \in Streams : \A k \in DOMAIN toHost :
        (Starts(k, r)' <=> Starts(k, r)) /\ (Stops(k, r)' <=> Stops(k, r))
  BY <1>2 DEF Starts, Stops
<1>4. \A r \in Streams : (Starts(n, r)' <=> t = "start" /\ r = s)
                           /\ (Stops(n, r)' <=> t = "stop" /\ r = s)
  <2>1. ASSUME NEW u, NEW r
        PROVE  Msg(t, s) = Msg(u, r) <=> t = u /\ r = s
    BY DEF Msg
  <2> QED
    BY <1>2, <2>1 DEF Starts, Stops
<1> QED
  BY <1>2, <1>3, <1>4

(* A stream is started with an index that no open stream has. *)
LEMMA SidesStart ==
  ASSUME TypeOK, Sides, NEW s \in Streams, RelayStart(s)
  PROVE  Sides'
<1>1. PICK n \in Nat :
        /\ DOMAIN toHost' = DOMAIN toHost \cup {n}
        /\ \A k \in DOMAIN toHost : k \in Nat /\ k < n
        /\ \A r \in Streams : \A k \in DOMAIN toHost :
             (Starts(k, r)' <=> Starts(k, r)) /\ (Stops(k, r)' <=> Stops(k, r))
        /\ \A r \in Streams : (Starts(n, r)' <=> r = s) /\ ~Stops(n, r)'
  <2>1. toHost' = Append(toHost, Msg("start", s))
    BY DEF RelayStart
  <2> QED
    BY <2>1, Appended
<1>2. PICK i : /\ i \in (Indices \ {index[r] : r \in open}) \cup {None}
               /\ index' = [index EXCEPT ![s] = i]
  BY DEF RelayStart
<1>3. /\ s \notin used /\ used' = used \cup {s} /\ open' = open \cup {s} /\ link = "up" /\ link' = "up"
      /\ Busy' = Busy /\ byStream' = byStream /\ waitingForHerdr' = waitingForHerdr
      /\ probingStarts' = probingStarts
  BY DEF RelayStart, ptys, starts, Busy
<1>4. /\ open \subseteq used /\ Busy \subseteq used /\ open \subseteq Streams /\ Busy \subseteq Streams
      /\ \A r \in Streams : \A k \in DOMAIN toHost : Starts(k, r) => r \in used /\ r \notin Busy
  BY DEF Sides, RelaySide, StartedOnce, TypeOK, Busy
<1>5. /\ \A q, r \in used : Same(q, r)' <=> Same(q, r)
      /\ \A r \in Streams : r \in open /\ r # s => ~Same(s, r)' /\ ~Same(r, s)'
      /\ used \subseteq Streams
  BY <1>2, <1>3, <1>4 DEF Same, TypeOK
<1>6. RelaySide'
  <2>1. \A q, r \in open' : Same(q, r)' => q = r
    BY <1>3, <1>4, <1>5 DEF Sides, RelaySide, Same
  <2> QED
    BY <1>3, <1>4, <2>1 DEF Sides, RelaySide, Same
<1>7. StartedOnce'
  <2>1. \A r \in Streams : \A k \in DOMAIN toHost' : Starts(k, r)' => r \in used' /\ r \notin Busy'
    BY <1>1, <1>3, <1>4
  <2>2. \A r \in Streams : \A j, k \in DOMAIN toHost' : Starts(j, r)' /\ Starts(k, r)' => j = k
    BY <1>1, <1>3, <1>4 DEF Sides, StartedOnce
  <2> QED
    BY <1>3, <1>4, <2>1, <2>2 DEF Sides, StartedOnce
<1>8. Left'
  <2>1. \A r \in Busy : r \in open \/ \E j \in DOMAIN toHost : Stops(j, r)
    BY <1>3 DEF Sides, Left
  <2>2. \A r \in Streams : \A k \in DOMAIN toHost :
          Starts(k, r) => r \in open \/ \E j \in DOMAIN toHost : j > k /\ Stops(j, r)
    BY <1>3 DEF Sides, Left
  <2>3. \A r \in Busy' : r \in open' \/ \E j \in DOMAIN toHost' : Stops(j, r)'
    BY <1>1, <1>3, <1>4, <2>1
  <2>4. \A r \in Streams : \A k \in DOMAIN toHost' :
          Starts(k, r)' => r \in open' \/ \E j \in DOMAIN toHost' : j > k /\ Stops(j, r)'
    BY <1>1, <1>3, <2>2
  <2> QED
    BY <2>3, <2>4 DEF Left
<1>9. Apart'
  <2>1. \A q, r \in Busy' : Same(q, r)' => q = r
    BY <1>3, <1>4, <1>5 DEF Sides, Apart
  <2>2. ASSUME NEW q \in Busy', NEW r \in Streams, NEW k \in DOMAIN toHost', Starts(k, r)', Same(r, q)'
        PROVE  \E j \in DOMAIN toHost' : j < k /\ Stops(j, q)'
    <3>1. CASE k \in DOMAIN toHost
      <4>1. PICK j \in DOMAIN toHost : j < k /\ Stops(j, q)
        BY <1>1, <1>3, <1>4, <1>5, <2>2, <3>1 DEF Sides, Apart
      <4> QED
        BY <1>1, <1>3, <1>4, <4>1
    <3>2. CASE k = n /\ r = s
      <4>1. q \notin open
        BY <1>3, <1>4, <1>5, <2>2, <3>2
      <4>2. PICK j \in DOMAIN toHost : Stops(j, q)
        BY <1>3, <2>2, <4>1 DEF Sides, Left
      <4> QED
        BY <1>1, <1>3, <1>4, <2>2, <3>2, <4>2
    <3> QED
      BY <1>1, <2>2, <3>1, <3>2
  <2>3. ASSUME NEW q \in Streams, NEW r \in Streams, NEW k \in DOMAIN toHost', NEW l \in DOMAIN toHost',
               k < l, Starts(k, q)', Starts(l, r)', Same(r, q)'
        PROVE  \E j \in DOMAIN toHost' : k < j /\ j < l /\ Stops(j, q)'
    <3>1. k \in DOMAIN toHost /\ Starts(k, q)
      BY <1>1, <2>3
    <3>2. CASE l \in DOMAIN toHost
      <4>1. PICK j \in DOMAIN toHost : k < j /\ j < l /\ Stops(j, q)
        BY <1>1, <1>4, <1>5, <2>3, <3>1, <3>2 DEF Sides, Apart
      <4> QED
        BY <1>1, <4>1
    <3>3. CASE l = n /\ r = s
      <4>1. q \notin open
        BY <1>3, <1>4, <1>5, <2>3, <3>1, <3>3
      <4>2. PICK j \in DOMAIN toHost : k < j /\ Stops(j, q)
        BY <1>3, <3>1, <4>1 DEF Sides, Left
      <4> QED
        BY <1>1, <3>3, <4>2
    <3> QED
      BY <1>1, <2>3, <3>2, <3>3
  <2> QED
    BY <2>1, <2>2, <2>3 DEF Apart
<1>10. StopsGone'
  <2>1. \A r \in Streams : \A k \in DOMAIN toHost' : Stops(k, r)' => r \in used' \ open'
    BY <1>1, <1>3 DEF Sides, StopsGone
  <2> QED
    BY <2>1 DEF StopsGone
<1> QED
  BY <1>6, <1>7, <1>8, <1>9, <1>10 DEF Sides

(* A window leaves, and its stream's stop is the last of the queue; or it asks for *)
(* Herdr, with a message that neither starts nor stops.                            *)
LEMMA SidesStop ==
  ASSUME TypeOK, Sides, NEW s \in Streams, RelayStop(s) \/ RelayAsk(s)
  PROVE  Sides'
<1>0. PICK S \in {{}, {s}} : open' = open \ S /\ (S = {s} <=> RelayStop(s) /\ ~RelayAsk(s))
                            /\ (S = {} => RelayAsk(s))
  BY DEF RelayStop, RelayAsk, relay
<1>1. PICK n \in Nat :
        /\ DOMAIN toHost' = DOMAIN toHost \cup {n}
        /\ \A k \in DOMAIN toHost : k \in Nat /\ k < n
        /\ \A r \in Streams : \A k \in DOMAIN toHost :
             (Starts(k, r)' <=> Starts(k, r)) /\ (Stops(k, r)' <=> Stops(k, r))
        /\ \A r \in Streams : ~Starts(n, r)' /\ (Stops(n, r)' <=> r \in S)
  <2>1. CASE S = {s}
    <3>1. toHost' = Append(toHost, Msg("stop", s))
      BY <1>0, <2>1 DEF RelayStop
    <3> QED
      BY <2>1, <3>1, Appended
  <2>2. CASE S = {}
    <3>1. toHost' = Append(toHost, Msg("herdr_start", s))
      BY <1>0, <2>2 DEF RelayAsk
    <3> QED
      BY <2>2, <3>1, Appended
  <2> QED
    BY <2>1, <2>2
<1>2. /\ S \subseteq open /\ open' = open \ S /\ link = "up" /\ link' = "up" /\ UNCHANGED <<used, index, toRelay>>
      /\ Busy' = Busy /\ byStream' = byStream /\ waitingForHerdr' = waitingForHerdr
      /\ probingStarts' = probingStarts /\ Busy \subseteq Streams
      /\ \A q, r : Same(q, r)' <=> Same(q, r)
  BY <1>0 DEF RelayStop, RelayAsk, relay, ptys, starts, Busy, TypeOK, Same
<1>3. RelaySide'
  BY <1>2 DEF Sides, RelaySide
<1>4. StartedOnce'
  <2>1. \A r \in Streams : \A k \in DOMAIN toHost' : Starts(k, r)' => r \in used' /\ r \notin Busy'
    BY <1>1, <1>2 DEF Sides, StartedOnce
  <2>2. \A r \in Streams : \A j, k \in DOMAIN toHost' : Starts(j, r)' /\ Starts(k, r)' => j = k
    BY <1>1, <1>2 DEF Sides, StartedOnce
  <2> QED
    BY <1>2, <2>1, <2>2 DEF Sides, StartedOnce
<1>5. Left'
  <2>1. \A r \in Busy' : r \in open' \/ \E j \in DOMAIN toHost' : Stops(j, r)'
    BY <1>1, <1>2 DEF Sides, Left
  <2>2. \A r \in Streams : \A k \in DOMAIN toHost' :
          Starts(k, r)' => r \in open' \/ \E j \in DOMAIN toHost' : j > k /\ Stops(j, r)'
    BY <1>1, <1>2 DEF Sides, Left
  <2> QED
    BY <2>1, <2>2 DEF Left
<1>6. Apart'
  <2>1. \A q, r \in Busy' : Same(q, r)' => q = r
    BY <1>2 DEF Sides, Apart
  <2>2. \A q \in Busy', r \in Streams : \A k \in DOMAIN toHost' :
          Starts(k, r)' /\ Same(r, q)' => \E j \in DOMAIN toHost' : j < k /\ Stops(j, q)'
    BY <1>1, <1>2 DEF Sides, Apart
  <2>3. \A r, q \in Streams : \A k, l \in DOMAIN toHost' :
          k < l /\ Starts(k, q)' /\ Starts(l, r)' /\ Same(r, q)'
            => \E j \in DOMAIN toHost' : k < j /\ j < l /\ Stops(j, q)'
    BY <1>1, <1>2 DEF Sides, Apart
  <2> QED
    BY <2>1, <2>2, <2>3 DEF Apart
<1>7. StopsGone'
  <2>1. \A r \in Streams : \A k \in DOMAIN toHost' : Stops(k, r)' => r \in used' \ open'
    BY <1>1, <1>2 DEF Sides, StopsGone, RelaySide
  <2> QED
    BY <2>1 DEF StopsGone
<1> QED
  BY <1>3, <1>4, <1>5, <1>6, <1>7 DEF Sides

(* A step that reads and sends no message to the connector, ends what the connector *)
(* works on and closes streams that it does not.                                    *)
LEMMA SidesWork ==
  ASSUME TypeOK, Sides, UNCHANGED <<toHost, used, index, link>>, Busy' \subseteq Busy,
         byStream' \cap waitingForHerdr' = {}, byStream' \cap probingStarts' = {},
         waitingForHerdr' \cap probingStarts' = {}, link # "up" => toRelay' = toRelay,
         open' \subseteq open,
         \A s \in open \ open' : s \notin Busy' /\ \A k \in DOMAIN toHost : ~Starts(k, s)
  PROVE  Sides'
<1>1. /\ DOMAIN toHost' = DOMAIN toHost
      /\ \A k, s : (Starts(k, s)' <=> Starts(k, s)) /\ (Stops(k, s)' <=> Stops(k, s))
      /\ \A r, s : Same(r, s)' <=> Same(r, s)
  BY DEF Starts, Stops, Same
<1>2. RelaySide'
  BY DEF Sides, RelaySide
<1>3. StartedOnce'
  BY <1>1 DEF Sides, StartedOnce
<1>4. Left'
  BY <1>1 DEF Sides, Left
<1>5. Apart'
  BY <1>1 DEF Sides, Apart
<1>6. StopsGone'
  BY <1>1 DEF Sides, StopsGone
<1> QED
  BY <1>2, <1>3, <1>4, <1>5, <1>6 DEF Sides

(* The connector reads a message: a start adds its stream, a stop ends it. *)
LEMMA SidesRead ==
  ASSUME TypeOK, Sides, toHost # <<>>, toHost' = Tail(toHost),
         UNCHANGED <<open, used, index, link>>, link # "up" => toRelay' = toRelay,
         byStream' \cap waitingForHerdr' = {}, byStream' \cap probingStarts' = {},
         waitingForHerdr' \cap probingStarts' = {},
         \A s \in Busy' : s \in Busy \/ (s \in Streams /\ Starts(1, s)),
         \A s \in Busy' : ~Stops(1, s)
  PROVE  Sides'
<1>1. toHost \in Seq(Asks)
  BY DEF TypeOK
<1>2. /\ 1 \in DOMAIN toHost
      /\ \A k \in DOMAIN toHost' : k \in Nat /\ k + 1 \in DOMAIN toHost /\ toHost'[k] = toHost[k + 1]
      /\ \A k \in DOMAIN toHost : k \in Nat /\ (k > 1 => k - 1 \in DOMAIN toHost')
  BY <1>1, HeadTail
<1>3. \A k \in DOMAIN toHost' : \A s \in Streams :
        (Starts(k, s)' <=> Starts(k + 1, s)) /\ (Stops(k, s)' <=> Stops(k + 1, s))
  BY <1>2 DEF Starts, Stops
<1>4. \A k \in DOMAIN toHost : k > 1 => \A s \in Streams : Stops(k, s) => Stops(k - 1, s)'
  <2> SUFFICES ASSUME NEW k \in DOMAIN toHost, k > 1, NEW s \in Streams, Stops(k, s)
               PROVE  Stops(k - 1, s)'
    OBVIOUS
  <2>1. k - 1 \in DOMAIN toHost' /\ k - 1 + 1 = k
    BY <1>2
  <2> QED
    BY <1>3, <2>1
<1>5. /\ Busy \subseteq Streams /\ Busy' \subseteq Streams
      /\ \A r, s : Same(r, s)' <=> Same(r, s)
      /\ \A k \in DOMAIN toHost : k \in Nat /\ k >= 1
  BY <1>1 DEF TypeOK, Busy, Same
<1>6. RelaySide'
  BY <1>1 DEF Sides, RelaySide
<1>7. StartedOnce'
  <2>1. ASSUME NEW s \in Streams, NEW k \in DOMAIN toHost', Starts(k, s)'
        PROVE  s \in used' /\ s \notin Busy'
    <3>1. k + 1 \in DOMAIN toHost /\ Starts(k + 1, s) /\ k + 1 # 1
      BY <1>2, <1>3, <1>5, <2>1
    <3>2. s \in used /\ s \notin Busy /\ ~Starts(1, s)
      BY <1>2, <3>1 DEF Sides, StartedOnce
    <3> QED
      BY <3>2
  <2>2. ASSUME NEW s \in Streams, NEW j \in DOMAIN toHost', NEW k \in DOMAIN toHost',
               Starts(j, s)', Starts(k, s)'
        PROVE  j = k
    <3>1. j + 1 = k + 1
      BY <1>2, <1>3, <2>2 DEF Sides, StartedOnce
    <3> QED
      BY <1>2, <3>1
  <2>3. Busy' \subseteq used'
    BY <1>2 DEF Sides, StartedOnce
  <2> QED
    BY <2>1, <2>2, <2>3 DEF StartedOnce
<1>8. Left'
  <2>1. ASSUME link = "up", NEW s \in Busy', s \notin open
        PROVE  \E j \in DOMAIN toHost' : Stops(j, s)'
    <3>1. PICK j \in DOMAIN toHost : Stops(j, s)
      BY <1>2, <1>5, <2>1 DEF Sides, Left
    <3>2. j > 1
      BY <1>5, <3>1
    <3> QED
      BY <1>2, <1>4, <1>5, <3>1, <3>2
  <2>2. ASSUME link = "up", NEW s \in Streams, NEW k \in DOMAIN toHost', Starts(k, s)', s \notin open
        PROVE  \E j \in DOMAIN toHost' : j > k /\ Stops(j, s)'
    <3>1. k + 1 \in DOMAIN toHost /\ Starts(k + 1, s) /\ k \in Nat
      BY <1>2, <1>3, <2>2
    <3>2. PICK j \in DOMAIN toHost : j > k + 1 /\ Stops(j, s)
      BY <2>2, <3>1 DEF Sides, Left
    <3>3. j > 1 /\ j - 1 > k /\ j - 1 \in DOMAIN toHost'
      BY <1>2, <1>5, <3>1, <3>2
    <3> QED
      BY <1>4, <3>2, <3>3
  <2> QED
    BY <2>1, <2>2 DEF Left
<1>9. Apart'
  <2>1. ASSUME NEW r \in Busy', NEW s \in Busy', Same(r, s)
        PROVE  r = s
    <3>1. ASSUME NEW p \in Busy, NEW q \in Streams, Starts(1, q), Same(q, p)
          PROVE  FALSE
      BY <1>2, <1>5, <3>1 DEF Sides, Apart
    <3>2. Same(s, r)
      BY <2>1 DEF Same
    <3>3. Starts(1, r) /\ Starts(1, s) => r = s
      BY Kinds
    <3> QED
      BY <1>5, <2>1, <3>1, <3>2, <3>3 DEF Sides, Apart
  <2>2. ASSUME NEW s \in Busy', NEW r \in Streams, NEW k \in DOMAIN toHost', Starts(k, r)', Same(r, s)
        PROVE  \E j \in DOMAIN toHost' : j < k /\ Stops(j, s)'
    <3>1. k + 1 \in DOMAIN toHost /\ Starts(k + 1, r) /\ k \in Nat /\ 1 < k + 1
      BY <1>2, <1>3, <1>5, <2>2
    <3>2. PICK j \in DOMAIN toHost : j < k + 1 /\ j > 1 /\ Stops(j, s)
      <4>1. CASE s \in Busy
        <5>1. PICK j \in DOMAIN toHost : j < k + 1 /\ Stops(j, s)
          BY <2>2, <3>1, <4>1 DEF Sides, Apart
        <5> QED
          BY <1>5, <5>1
      <4>2. CASE Starts(1, s)
        BY <1>2, <1>5, <2>2, <3>1, <4>2 DEF Sides, Apart
      <4> QED
        BY <4>1, <4>2
    <3>3. j - 1 < k /\ j - 1 \in DOMAIN toHost'
      BY <1>2, <1>5, <3>1, <3>2
    <3> QED
      BY <1>4, <1>5, <3>2, <3>3
  <2>3. ASSUME NEW r \in Streams, NEW s \in Streams, NEW k \in DOMAIN toHost', NEW l \in DOMAIN toHost',
               k < l, Starts(k, s)', Starts(l, r)', Same(r, s)
        PROVE  \E j \in DOMAIN toHost' : k < j /\ j < l /\ Stops(j, s)'
    <3>1. /\ k + 1 \in DOMAIN toHost /\ Starts(k + 1, s) /\ k \in Nat
          /\ l + 1 \in DOMAIN toHost /\ Starts(l + 1, r) /\ l \in Nat /\ k + 1 < l + 1
      BY <1>2, <1>3, <2>3
    <3>2. PICK j \in DOMAIN toHost : k + 1 < j /\ j < l + 1 /\ Stops(j, s)
      BY <2>3, <3>1 DEF Sides, Apart
    <3>3. j > 1 /\ k < j - 1 /\ j - 1 < l /\ j - 1 \in DOMAIN toHost'
      BY <1>2, <1>5, <3>1, <3>2
    <3> QED
      BY <1>4, <3>2, <3>3
  <2> QED
    BY <1>5, <2>1, <2>2, <2>3 DEF Apart
<1>10. StopsGone'
  <2>1. \A r \in Streams : \A k \in DOMAIN toHost' : Stops(k, r)' => r \in used' \ open'
    BY <1>2, <1>3 DEF Sides, StopsGone
  <2> QED
    BY <2>1 DEF StopsGone
<1> QED
  BY <1>6, <1>7, <1>8, <1>9, <1>10 DEF Sides

(***************************************************************************)
(* What the relay is told.                                                 *)
(***************************************************************************)

(* A message on its way is one that was there, or one said by this step. *)
LEMMA SaidWhere ==
  ASSUME TypeOK, NEW ms \in Seq(Answers), Say(ms), NEW k \in DOMAIN toRelay'
  PROVE  \/ k \in DOMAIN toRelay /\ toRelay'[k] = toRelay[k]
         \/ link = "up" /\ \E j \in DOMAIN ms : toRelay'[k] = ms[j]
<1>1. toRelay \in Seq(Answers) /\ toRelay' \in Seq(Answers)
  BY SayFacts DEF TypeOK
<1>2. CASE link # "up"
  BY <1>2, SayFacts
<1>3. CASE link = "up"
  <2>1. /\ k \in 1 .. Len(toRelay) + Len(ms)
        /\ \A j \in DOMAIN toRelay : toRelay'[j] = toRelay[j]
        /\ \A j \in DOMAIN ms : toRelay'[Len(toRelay) + j] = ms[j]
    BY <1>3, SayFacts
  <2>2. CASE k <= Len(toRelay)
    BY <1>1, <2>1, <2>2
  <2>3. CASE k > Len(toRelay)
    <3>1. k - Len(toRelay) \in DOMAIN ms /\ Len(toRelay) + (k - Len(toRelay)) = k
      BY <1>1, <2>1, <2>3
    <3> QED
      BY <1>3, <2>1, <3>1
  <2> QED
    BY <1>1, <2>1, <2>2, <2>3
<1> QED
  BY <1>2, <1>3

(* Nothing said is as good as the empty message. *)
LEMMA SaidNothing ==
  ASSUME TypeOK, UNCHANGED toRelay
  PROVE  Say(<<>>)
<1>1. toRelay \in Seq(Answers)
  BY DEF TypeOK
<1> QED
  BY <1>1 DEF Say

(* An end is reported of a stream that is no longer worked on. *)
LEMMA SaidEnded ==
  ASSUME TypeOK, Ended, NEW ms \in Seq(Answers), Say(ms), used' = used,
         \A j \in DOMAIN ms : ms[j].t = "exit" =>
           ms[j].s \in used \ Busy' /\ \A k \in DOMAIN toHost' : ~Starts(k, ms[j].s)',
         \A s \in Busy' : s \in Busy \/ \E k \in DOMAIN toHost : Starts(k, s),
         \A s \in Streams : \A k \in DOMAIN toHost' : Starts(k, s)' => \E j \in DOMAIN toHost : Starts(j, s)
  PROVE  Ended'
<1> SUFFICES ASSUME NEW s \in Streams, NEW k \in DOMAIN toRelay',
                    toRelay'[k].t = "exit", toRelay'[k].s = s
             PROVE  s \in used' \ Busy' /\ \A j \in DOMAIN toHost' : ~Starts(j, s)'
  BY DEF Ended
<1>1. CASE k \in DOMAIN toRelay /\ toRelay'[k] = toRelay[k]
  <2>1. s \in used \ Busy /\ \A j \in DOMAIN toHost : ~Starts(j, s)
    BY <1>1 DEF Ended
  <2> QED
    BY <2>1
<1>2. CASE \E j \in DOMAIN ms : toRelay'[k] = ms[j]
  BY <1>2
<1> QED
  BY <1>1, <1>2, SaidWhere

(* The last word stays the last: it is joined by nothing but last words. *)
LEMMA SaidFinal ==
  ASSUME TypeOK, NEW ms \in Seq(Answers), Say(ms), link = "up", heard' = heard, NEW s \in Streams,
         \A j \in DOMAIN ms : ms[j].s = s => ms[j].t \in LastWords,
         Final(s) \/ \E j \in DOMAIN ms : ms[j].s = s
  PROVE  Final(s)'
<1>1. toRelay \in Seq(Answers) /\ toRelay' \in Seq(Answers)
  BY SayFacts DEF TypeOK
<1>2. /\ \A k \in DOMAIN toRelay : toRelay'[k] = toRelay[k] /\ k \in DOMAIN toRelay' /\ k <= Len(toRelay)
      /\ \A k \in DOMAIN ms : toRelay'[Len(toRelay) + k] = ms[k] /\ Len(toRelay) + k \in DOMAIN toRelay'
      /\ \A k \in DOMAIN toRelay' : k \in Nat
  BY <1>1, SayFacts
<1>3. \A k \in DOMAIN toRelay' : \/ k \in DOMAIN toRelay
                                 \/ toRelay'[k].s = s => toRelay'[k].t \in LastWords
  BY SaidWhere
<1>4. \A k \in Nat : OnlyLast(s, k) => OnlyLast(s, k)'
  BY <1>2, <1>3 DEF OnlyLast
<1>5. CASE heard[s] \in LastWords /\ OnlyLast(s, 0)
  BY <1>4, <1>5 DEF Final
<1>6. CASE \E k \in DOMAIN toRelay :
             toRelay[k].s = s /\ toRelay[k].t \in LastWords /\ OnlyLast(s, k)
  <2>1. PICK k \in DOMAIN toRelay :
             toRelay[k].s = s /\ toRelay[k].t \in LastWords /\ OnlyLast(s, k)
    BY <1>6
  <2>2. k \in DOMAIN toRelay' /\ toRelay'[k] = toRelay[k] /\ OnlyLast(s, k)'
    BY <1>2, <1>4, <2>1
  <2> QED
    BY <2>1, <2>2 DEF Final
<1>7. CASE \E j \in DOMAIN ms : ms[j].s = s
  <2>1. PICK j \in DOMAIN ms : ms[j].s = s
    BY <1>7
  <2>2. PICK k \in DOMAIN toRelay' : k = Len(toRelay) + j /\ toRelay'[k] = ms[j]
    BY <1>2, <2>1
  <2>3. \A l \in DOMAIN toRelay' : l > k => l \notin DOMAIN toRelay
    BY <1>1, <1>2, <2>1, <2>2
  <2>4. OnlyLast(s, k)'
    BY <1>3, <2>3 DEF OnlyLast
  <2> QED
    BY <2>1, <2>2, <2>4 DEF Final
<1> QED
  BY <1>5, <1>6, <1>7 DEF Final

(* Whatever the connector stops working on, it has told its window why. *)
LEMMA SaidAnswered ==
  ASSUME TypeOK, Answered, NEW ms \in Seq(Answers), Say(ms), UNCHANGED <<open, heard, link>>,
         \A j \in DOMAIN ms : ms[j].t \in LastWords \/ ms[j].s \in Busy',
         \A s \in open : s \in Busy \/ (\E k \in DOMAIN toHost : Starts(k, s)) =>
           \/ s \in Busy' \/ (\E k \in DOMAIN toHost' : Starts(k, s)')
           \/ \E j \in DOMAIN ms : ms[j].s = s
  PROVE  Answered'
<1> SUFFICES ASSUME link = "up", NEW s \in open, s \notin Busy',
                    ~\E k \in DOMAIN toHost' : Starts(k, s)'
             PROVE  Final(s)'
  BY DEF Answered
<1>1. Final(s) \/ \E j \in DOMAIN ms : ms[j].s = s
  BY DEF Answered
<1>2. s \in Streams
  BY DEF TypeOK
<1> QED
  BY <1>1, <1>2, SaidFinal

(***************************************************************************)
(* The index table.                                                        *)
(***************************************************************************)

(* A spawn enters its streams: no two have one index, nor does one that ran. *)
LEMMA TableSpawn ==
  ASSUME TypeOK, Sides, Table, NEW S \in SUBSET Busy, NEW F \in SUBSET S, Spawn(S, F), index' = index
  PROVE  Table'
<1>1. Busy \subseteq Streams /\ byStream \subseteq Busy
  BY DEF Busy, TypeOK
<1>2. \A r, s \in Busy : index[r] = index[s] /\ index[s] # None => r = s
  BY DEF Sides, Apart, Same
<1>3. /\ byStream' = byStream \cup (S \ F)
      /\ streamIndexToId' = [i \in Indices |->
           IF \E s \in S \ F : index[s] = i THEN CHOOSE s \in S \ F : index[s] = i
           ELSE streamIndexToId[i]]
  BY DEF Spawn
<1>4. ASSUME NEW s \in S \ F, index[s] # None
      PROVE  streamIndexToId'[index[s]] = s
  <2>1. index[s] \in Indices
    BY <1>1, <1>4 DEF TypeOK
  <2>2. \A r \in S \ F : index[r] = index[s] <=> r = s
    BY <1>2, <1>4
  <2>3. (CHOOSE r \in S \ F : index[r] = index[s]) = s
    BY <2>2
  <2> QED
    BY <1>3, <2>1, <2>3
<1>5. ASSUME NEW i \in Indices, ~\E s \in S \ F : index[s] = i
      PROVE  streamIndexToId'[i] = streamIndexToId[i]
  BY <1>3, <1>5
<1>6. ASSUME NEW i \in Indices, streamIndexToId'[i] # None
      PROVE  streamIndexToId'[i] \in byStream' /\ index[streamIndexToId'[i]] = i
  <2>1. CASE \E s \in S \ F : index[s] = i
    BY <1>3, <1>4, <1>6, <2>1, SessionsAssumption
  <2>2. CASE ~\E s \in S \ F : index[s] = i
    BY <1>3, <1>5, <1>6, <2>2 DEF Table
  <2> QED
    BY <2>1, <2>2
<1>7. ASSUME NEW s \in byStream', index[s] # None
      PROVE  streamIndexToId'[index[s]] = s
  <2>1. CASE s \in S \ F
    BY <1>4, <1>7, <2>1
  <2>2. CASE s \in byStream /\ s \notin S \ F
    <3>1. ~\E r \in S \ F : index[r] = index[s]
      BY <1>1, <1>2, <1>7, <2>2
    <3>2. index[s] \in Indices
      BY <1>1, <1>7, <2>2 DEF TypeOK
    <3> QED
      BY <1>5, <1>7, <2>2, <3>1, <3>2 DEF Table
  <2> QED
    BY <1>3, <2>1, <2>2
<1> QED
  BY <1>6, <1>7 DEF Table

(* A stream that ends leaves the table, and takes no other with it. *)
LEMMA TableForget ==
  ASSUME TypeOK, Sides, Table, NEW s \in byStream, byStream' = byStream \ {s}, index' = index,
         streamIndexToId' = IndicesWithout({s})
  PROVE  Table'
<1>1. Busy \subseteq Streams /\ byStream \subseteq Busy
  BY DEF Busy, TypeOK
<1>2. \A r \in Busy : index[r] = index[s] /\ index[s] # None => r = s
  BY <1>1 DEF Sides, Apart, Same
<1>3. \A i \in Indices : streamIndexToId'[i] = IF index[s] = i THEN None ELSE streamIndexToId[i]
  BY DEF IndicesWithout
<1>4. \A i \in Indices : streamIndexToId'[i] # None =>
        streamIndexToId'[i] \in byStream' /\ index[streamIndexToId'[i]] = i
  BY <1>3 DEF Table
<1>5. ASSUME NEW r \in byStream', index[r] # None
      PROVE  streamIndexToId'[index[r]] = r
  <2>1. r \in byStream /\ r \in Busy /\ r # s /\ index[r] \in Indices
    BY <1>1, <1>5 DEF TypeOK
  <2>2. index[s] # index[r]
    BY <1>2, <1>5, <2>1
  <2>3. streamIndexToId[index[r]] = r
    BY <1>5, <2>1 DEF Table
  <2> QED
    BY <1>3, <2>1, <2>2, <2>3
<1> QED
  BY <1>4, <1>5 DEF Table

(***************************************************************************)
(* The steps.                                                              *)
(***************************************************************************)

(* The relay starts and stops sessions, and asks for Herdr. *)
LEMMA RelayAsks ==
  ASSUME SessionsInv, NEW s \in Streams, RelayStart(s) \/ RelayStop(s) \/ RelayAsk(s)
  PROVE  Sides' /\ Ended' /\ Table' /\ Answered'
<1>1. TypeOK /\ Sides /\ Ended /\ Table /\ Answered
  BY DEF SessionsInv
<1>2. Sides'
  BY <1>1, SidesStart, SidesStop
<1>3. PICK t \in {"start", "stop", "herdr_start"} :
        /\ toHost' = Append(toHost, Msg(t, s)) /\ (t = "start" => s \notin used)
        /\ open' \subseteq open \cup {s} /\ (t = "start" <=> RelayStart(s))
        /\ \A r \in open' : r # s => heard'[r] = heard[r]
        /\ s \in open' => t = "start" \/ (heard' = heard /\ s \in open)
        /\ used \subseteq used' /\ link' = link
        /\ \A r \in Streams : r # s => index'[r] = index[r]
        /\ s \in used => index'[s] = index[s]
  BY <1>1 DEF RelayStart, RelayStop, RelayAsk, relay, TypeOK, Sides, RelaySide
<1>4. PICK n \in Nat :
        /\ DOMAIN toHost' = DOMAIN toHost \cup {n}
        /\ \A r \in Streams : \A k \in DOMAIN toHost : Starts(k, r)' <=> Starts(k, r)
        /\ \A r \in Streams : Starts(n, r)' <=> t = "start" /\ r = s
  BY <1>1, <1>3, Appended
<1>5. /\ Busy' = Busy /\ UNCHANGED <<byStream, streamIndexToId, toRelay>>
      /\ Busy \subseteq used /\ byStream \subseteq Busy /\ open \subseteq Streams
  BY <1>1 DEF RelayStart, RelayStop, RelayAsk, relay, ptys, starts, Busy, Sides, StartedOnce, TypeOK
<1>6. Ended'
  BY <1>1, <1>3, <1>4, <1>5 DEF Ended
<1>7. Table'
  <2>1. \A r \in byStream : index'[r] = index[r] /\ r \in Streams
    BY <1>1, <1>3, <1>5 DEF TypeOK
  <2>2. \A i \in Indices : streamIndexToId'[i] # None =>
          streamIndexToId'[i] \in byStream' /\ index'[streamIndexToId'[i]] = i
    BY <1>1, <1>5, <2>1 DEF Table
  <2>3. \A r \in byStream' : index'[r] # None => streamIndexToId'[index'[r]] = r
    BY <1>1, <1>5, <2>1 DEF Table
  <2> QED
    BY <2>2, <2>3 DEF Table
<1>8. Answered'
  <2> SUFFICES ASSUME link' = "up", NEW r \in open', r \notin Busy',
                      ~\E k \in DOMAIN toHost' : Starts(k, r)'
               PROVE  Final(r)'
    BY DEF Answered
  <2>1. r \in Streams /\ ~(t = "start" /\ r = s) /\ r \in open /\ heard'[r] = heard[r]
    BY <1>3, <1>4, <1>5
  <2>2. Final(r)
    BY <1>1, <1>3, <1>4, <1>5, <2>1 DEF Answered
  <2> QED
    BY <1>5, <2>1, <2>2 DEF Final, OnlyLast
<1> QED
  BY <1>2, <1>6, <1>7, <1>8

(* The relay hears what the connector said. *)
LEMMA Hears ==
  ASSUME SessionsInv, RelayHears
  PROVE  Sides' /\ Ended' /\ Table' /\ Answered'
<1>1. TypeOK /\ Sides /\ Ended /\ Table /\ Answered
  BY DEF SessionsInv
<1>2. PICK m \in Answers : m = toRelay[1]
  BY HeadTail DEF SessionsInv, TypeOK, RelayHears
<1>3. /\ toRelay \in Seq(Answers) /\ toRelay # <<>> /\ toRelay' = Tail(toRelay) /\ Head(toRelay) = m
      /\ 1 \in DOMAIN toRelay /\ m.s \in Streams
  BY <1>1, <1>2, HeadTail DEF RelayHears, TypeOK, Answers
<1>4. /\ \A k \in DOMAIN toRelay' : k \in Nat /\ k + 1 \in DOMAIN toRelay /\ toRelay'[k] = toRelay[k + 1]
      /\ \A k \in DOMAIN toRelay : k \in Nat /\ k >= 1
           /\ (k > 1 => k - 1 \in DOMAIN toRelay' /\ toRelay'[k - 1] = toRelay[k])
  BY <1>3, HeadTail
<1>5. /\ UNCHANGED <<used, index, link, toHost, byStream, streamIndexToId, waitingForHerdr, probingStarts>>
      /\ Busy' = Busy
      /\ \A k, s : Starts(k, s)' <=> Starts(k, s)
  BY DEF RelayHears, ptys, starts, Busy, Starts
<1>6. /\ open' \subseteq open
      /\ open \ open' \subseteq {m.s} /\ (open' # open => m.t = "exit")
      /\ \A s \in open' : s = m.s => m.t # "exit" /\ heard'[s] = m.t
      /\ \A s \in open' : s # m.s => heard'[s] = heard[s]
  BY <1>1, <1>3 DEF RelayHears, TypeOK
<1>7. Sides'
  <2>1. \A s \in open \ open' : s \notin Busy' /\ \A k \in DOMAIN toHost : ~Starts(k, s)
    BY <1>1, <1>2, <1>3, <1>5, <1>6 DEF Ended
  <2>2. link = "up"
    BY <1>1, <1>3 DEF Sides, RelaySide
  <2> QED
    BY <1>1, <1>5, <1>6, <2>1, <2>2, SidesWork DEF Sides, StartedOnce
<1>8. Ended'
  BY <1>1, <1>4, <1>5 DEF Ended
<1>9. Table'
  BY <1>1, <1>5 DEF Table
<1>10. Answered'
  <2> SUFFICES ASSUME link' = "up", NEW s \in open', s \notin Busy',
                      ~\E k \in DOMAIN toHost' : Starts(k, s)'
               PROVE  Final(s)'
    BY DEF Answered
  <2>1. Final(s)
    BY <1>1, <1>5, <1>6 DEF Answered
  <2>2. ASSUME NEW k \in Nat, k >= 1, OnlyLast(s, k)
        PROVE  OnlyLast(s, k - 1)'
    BY <1>4, <2>2 DEF OnlyLast
  <2>3. CASE heard[s] \in LastWords /\ OnlyLast(s, 0)
    <3>1. OnlyLast(s, 0)'
      BY <1>4, <2>3 DEF OnlyLast
    <3>2. m.s = s => m.t \in LastWords
      BY <1>2, <1>3, <1>4, <2>3 DEF OnlyLast
    <3> QED
      BY <1>6, <2>3, <3>1, <3>2 DEF Final
  <2>4. CASE \E k \in DOMAIN toRelay :
               toRelay[k].s = s /\ toRelay[k].t \in LastWords /\ OnlyLast(s, k)
    <3>1. PICK k \in DOMAIN toRelay :
               toRelay[k].s = s /\ toRelay[k].t \in LastWords /\ OnlyLast(s, k)
      BY <2>4
    <3>2. k \in Nat /\ k >= 1 /\ OnlyLast(s, k - 1)'
      BY <1>4, <2>2, <3>1
    <3>3. CASE k = 1
      BY <1>2, <1>6, <3>1, <3>2, <3>3 DEF Final
    <3>4. CASE k > 1
      BY <1>4, <3>1, <3>2, <3>4 DEF Final
    <3> QED
      BY <3>2, <3>3, <3>4
  <2> QED
    BY <2>1, <2>3, <2>4 DEF Final
<1> QED
  BY <1>7, <1>8, <1>9, <1>10

(* The connection breaks, its close event comes, and the connector is back. *)
LEMMA LinkSteps ==
  ASSUME SessionsInv, LinkLost \/ Disconnected \/ Reconnect
  PROVE  Sides' /\ Ended' /\ Table' /\ Answered'
<1>1. TypeOK /\ Sides /\ Ended /\ Table /\ Answered
  BY DEF SessionsInv
<1>2. \A r, s : Same(r, s)' <=> Same(r, s)
  BY DEF LinkLost, Disconnected, Reconnect, relay, Same
<1>3. CASE LinkLost
  <2>1. /\ link' = "lost" /\ open' = {} /\ toRelay' = <<>> /\ Busy' = Busy
        /\ UNCHANGED <<used, index, toHost, byStream, streamIndexToId, waitingForHerdr, probingStarts>>
        /\ \A k, s : (Starts(k, s)' <=> Starts(k, s)) /\ (Stops(k, s)' <=> Stops(k, s))
    BY <1>3 DEF LinkLost, ptys, starts, Busy, Starts, Stops
  <2>2. RelaySide' /\ Left'
    BY <2>1 DEF RelaySide, Left
  <2>3. StartedOnce'
    BY <1>1, <2>1 DEF Sides, StartedOnce
  <2>4. Apart'
    BY <1>1, <1>2, <2>1 DEF Sides, Apart
  <2>5. StopsGone'
    BY <1>1, <2>1 DEF Sides, StopsGone
  <2>6. Ended' /\ Answered'
    BY <2>1 DEF Ended, Answered
  <2>7. Table'
    BY <1>1, <2>1 DEF Table
  <2> QED
    BY <2>2, <2>3, <2>4, <2>5, <2>6, <2>7 DEF Sides
<1>4. CASE Disconnected
  <2>1. /\ link = "lost" /\ link' = "down" /\ toHost' = <<>>
        /\ byStream' = {} /\ waitingForHerdr' = {} /\ probingStarts' = {} /\ Busy' = {}
        /\ UNCHANGED <<used, index, open, toRelay>> /\ open = {} /\ toRelay = <<>>
    BY <1>1, <1>4 DEF Disconnected, StopStreams, relay, Busy, TypeOK, Sides, RelaySide
  <2>2. Sides'
    BY <2>1 DEF Sides, RelaySide, StartedOnce, Left, Apart, StopsGone, Starts, Stops
  <2>3. Ended' /\ Answered'
    BY <2>1 DEF Ended, Answered
  <2>4. \A i \in Indices : streamIndexToId'[i] = None
    <3>1. \A i \in Indices : streamIndexToId'[i] =
            IF \E s \in Streams : index[s] = i THEN None ELSE streamIndexToId[i]
      BY <1>4 DEF Disconnected, IndicesWithout
    <3>2. \A i \in Indices : streamIndexToId[i] # None => \E s \in Streams : index[s] = i
      BY <1>1 DEF Table, TypeOK
    <3> QED
      BY <3>1, <3>2
  <2>5. Table'
    BY <2>1, <2>4 DEF Table
  <2> QED
    BY <2>2, <2>3, <2>5
<1>5. CASE Reconnect
  <2>1. /\ link = "down" /\ link' = "up" /\ Busy = {} /\ toHost = <<>> /\ open = {} /\ toRelay = <<>>
        /\ Busy' = Busy /\ UNCHANGED <<used, index, open, heard, toHost, toRelay, byStream,
                                      streamIndexToId, waitingForHerdr, probingStarts>>
    BY <1>1, <1>5 DEF Reconnect, relay, ptys, starts, Busy, Sides, RelaySide
  <2>2. Sides'
    BY <1>1, <2>1 DEF Sides, RelaySide, StartedOnce, Left, Apart, StopsGone, Starts, Stops
  <2>3. Ended' /\ Answered'
    BY <2>1 DEF Ended, Answered
  <2>4. Table'
    BY <1>1, <2>1 DEF Table
  <2> QED
    BY <2>2, <2>3, <2>4
<1> QED
  BY <1>3, <1>4, <1>5

(* Steps of the connector that end some of what it works on and tell their         *)
(* windows why.                                                                    *)
LEMMA Works ==
  ASSUME SessionsInv, NEW ms \in Seq(Answers), Say(ms),
         UNCHANGED <<open, used, index, heard, link, toHost>>, Busy' \subseteq Busy,
         byStream' \cap waitingForHerdr' = {}, byStream' \cap probingStarts' = {},
         waitingForHerdr' \cap probingStarts' = {},
         \A j \in DOMAIN ms : ms[j].t = "exit" => ms[j].s \in Busy \ Busy',
         \A j \in DOMAIN ms : ms[j].t \in LastWords \/ ms[j].s \in Busy',
         \A s \in Busy \ Busy' : \E j \in DOMAIN ms : ms[j].s = s
  PROVE  Sides' /\ Ended' /\ Answered'
<1>1. TypeOK /\ Sides /\ Ended /\ Answered
  BY DEF SessionsInv
<1>2. link # "up" => toRelay' = toRelay
  BY DEF Say
<1>3. Sides'
  BY <1>1, <1>2, SidesWork
<1>4. \A k, s : Starts(k, s)' <=> Starts(k, s)
  BY DEF Starts
<1>5. Busy \subseteq used /\ Busy \subseteq Streams
  BY <1>1 DEF Sides, StartedOnce, TypeOK, Busy
<1>6. \A s \in Busy : \A k \in DOMAIN toHost : ~Starts(k, s)
  BY <1>1, <1>5 DEF Sides, StartedOnce
<1>7. Ended'
  <2>1. \A j \in DOMAIN ms : ms[j].t = "exit" =>
          ms[j].s \in used \ Busy' /\ \A k \in DOMAIN toHost' : ~Starts(k, ms[j].s)'
    BY <1>4, <1>5, <1>6
  <2> QED
    BY <1>1, <1>4, <2>1, SaidEnded
<1>8. Answered'
  BY <1>1, <1>4, SaidAnswered
<1> QED
  BY <1>3, <1>7, <1>8

(* A probe's answer, a change of Herdr, a failed launch. *)
LEMMA Asides ==
  ASSUME SessionsInv,
         (\E s \in Streams : ProbeAnswered(s)) \/ HerdrChanges \/ LaunchFailed \/ UNCHANGED vars
  PROVE  Sides' /\ Ended' /\ Table' /\ Answered'
<1>1. TypeOK /\ FewWait /\ Sides /\ Table
  BY DEF SessionsInv
<1>2. /\ UNCHANGED <<open, used, index, heard, link, toHost, byStream, streamIndexToId,
                    waitingForHerdr, probingStarts>>
      /\ Busy' = Busy
  BY DEF ProbeAnswered, HerdrChanges, LaunchFailed, vars, relay, wires, ptys, starts, Busy
<1>3. Table'
  BY <1>1, <1>2 DEF Table
<1>4. PICK ms \in Seq(Answers) : Say(ms) /\ \A j \in DOMAIN ms : ms[j].t = "start_failed"
  <2>1. CASE LaunchFailed
    <3>1. IsFiniteSet(AskingWindows) /\ AskingWindows \in SUBSET Streams
      BY <1>1, FS_Subset DEF AskingWindows, FewWait, TypeOK
    <3> QED
      BY <2>1, <3>1, TellFacts DEF LaunchFailed, Errors
  <2>2. CASE UNCHANGED toRelay
    <3>1. Say(<<>>) /\ <<>> \in Seq(Answers) /\ DOMAIN <<>> = {}
      BY <1>1, <2>2, SaidNothing
    <3> QED
      BY <3>1
  <2> QED
    BY <2>1, <2>2 DEF ProbeAnswered, HerdrChanges, vars, wires
<1>5. Sides' /\ Ended' /\ Answered'
  BY <1>1, <1>2, <1>4, Works DEF LastWords, Sides, StartedOnce
<1> QED
  BY <1>3, <1>5

(* A probe is done: its start is served, held or refused, unless it was stopped. *)
LEMMA Probed ==
  ASSUME SessionsInv, NEW s \in Streams, ProbeDone(s)
  PROVE  Sides' /\ Ended' /\ Table' /\ Answered'
<1>1. TypeOK /\ FewWait /\ Sides /\ Table /\ Sides /\ StartedOnce
  BY DEF SessionsInv, Sides
<1>2. /\ UNCHANGED <<open, used, index, heard, link, toHost>>
      /\ probingStarts' = probingStarts \ {s}
  BY DEF ProbeDone, relay
<1>3. CASE UNCHANGED <<waitingForHerdr, toRelay, ptys>> /\ s \notin probingStarts
  <2>1. /\ Busy' = Busy /\ probingStarts' = probingStarts
        /\ UNCHANGED <<waitingForHerdr, byStream, streamIndexToId>>
    BY <1>2, <1>3 DEF Busy, ptys
  <2>2. Table'
    BY <1>1, <1>2, <2>1 DEF Table
  <2>3. Say(<<>>) /\ <<>> \in Seq(Answers) /\ DOMAIN <<>> = {}
    BY <1>1, <1>3, SaidNothing
  <2>4. Sides' /\ Ended' /\ Answered'
    BY <1>1, <1>2, <2>1, <2>3, Works DEF StartedOnce
  <2> QED
    BY <2>2, <2>4
<1>4. ASSUME s \in probingStarts, UNCHANGED waitingForHerdr, NEW F \in SUBSET {s}, Spawn({s}, F)
      PROVE  Sides' /\ Ended' /\ Table' /\ Answered'
  <2>1. IsFiniteSet({s}) /\ {s} \in SUBSET Streams /\ {s} \in SUBSET Busy
    BY <1>4, FS_Singleton DEF Busy
  <2>2. Table'
    BY <1>1, <1>2, <1>4, <2>1, TableSpawn
  <2>3. PICK ms \in Seq(Answers) :
          /\ Say(ms)
          /\ \A k \in DOMAIN ms : \/ ms[k].t = "ready" /\ ms[k].s \in {s} \ F
                                  \/ ms[k].t = "refused" /\ ms[k].s \in F
          /\ \A r \in F : \E k \in DOMAIN ms : ms[k].s = r
    BY <1>1, <1>4, <2>1, SpawnFacts
  <2>4. byStream' = byStream \cup ({s} \ F)
    BY <1>4 DEF Spawn
  <2>5. Busy' = Busy \ F
    BY <1>1, <1>2, <1>4, <2>4 DEF Busy, StartedOnce
  <2>6. /\ byStream' \cap waitingForHerdr' = {} /\ byStream' \cap probingStarts' = {}
        /\ waitingForHerdr' \cap probingStarts' = {}
    BY <1>1, <1>2, <1>4, <2>4 DEF StartedOnce
  <2>7. /\ \A j \in DOMAIN ms : ms[j].t # "exit"
        /\ \A j \in DOMAIN ms : ms[j].t \in LastWords \/ ms[j].s \in Busy'
    BY <1>4, <2>3, <2>5 DEF LastWords, Busy
  <2>8. Sides' /\ Ended' /\ Answered'
    BY <1>2, <2>3, <2>5, <2>6, <2>7, Works
  <2> QED
    BY <2>2, <2>8
<1>5. ASSUME s \in probingStarts, NEW t \in {"not_running", "refused"}, Say(<<Msg(t, s)>>),
             waitingForHerdr' = waitingForHerdr \cup (IF t = "refused" THEN {} ELSE {s}),
             UNCHANGED ptys
      PROVE  Sides' /\ Ended' /\ Table' /\ Answered'
  <2>1. Table'
    BY <1>1, <1>2, <1>5 DEF Table, ptys
  <2>2. PICK ms \in Seq(Answers) : Say(ms) /\ DOMAIN ms = {1} /\ ms[1].t = t /\ ms[1].s = s
    BY <1>1, <1>5, SayOne DEF Errors
  <2>3. Busy' = Busy \ (IF t = "refused" THEN {s} ELSE {})
    BY <1>1, <1>2, <1>5 DEF Busy, StartedOnce, ptys
  <2>4. /\ byStream' \cap waitingForHerdr' = {} /\ byStream' \cap probingStarts' = {}
        /\ waitingForHerdr' \cap probingStarts' = {}
    BY <1>1, <1>2, <1>5 DEF StartedOnce, ptys
  <2>5. s \in Busy
    BY <1>5 DEF Busy
  <2>6. Sides' /\ Ended' /\ Answered'
    BY <1>2, <2>2, <2>3, <2>4, <2>5, Works DEF LastWords
  <2> QED
    BY <2>1, <2>6
<1> QED
  BY <1>3, <1>4, <1>5 DEF ProbeDone, WaitForHerdr, Refuse

(* A PTY ends, and its window is told. *)
LEMMA Exits ==
  ASSUME SessionsInv, NEW s \in Streams, NEW fast \in BOOLEAN, PtyExit(s, fast)
  PROVE  Sides' /\ Ended' /\ Table' /\ Answered'
<1>1. TypeOK /\ Sides /\ Table /\ StartedOnce
  BY DEF SessionsInv, Sides
<1>2. /\ s \in byStream /\ byStream' = byStream \ {s} /\ streamIndexToId' = IndicesWithout({s})
      /\ UNCHANGED <<open, used, index, heard, link, toHost, waitingForHerdr, probingStarts>>
  BY DEF PtyExit, relay, starts
<1>3. Table'
  BY <1>1, <1>2, TableForget
<1>4. PICK t \in {"exit", "start_failed"} : Say(<<Msg(t, s)>>)
  BY DEF PtyExit, AfterExit
<1>5. PICK ms \in Seq(Answers) : Say(ms) /\ DOMAIN ms = {1} /\ ms[1].t = t /\ ms[1].s = s
  BY <1>1, <1>4, SayOne DEF Errors
<1>6. /\ Busy' = Busy \ {s} /\ s \in Busy
      /\ byStream' \cap waitingForHerdr' = {} /\ byStream' \cap probingStarts' = {}
      /\ waitingForHerdr' \cap probingStarts' = {}
  BY <1>1, <1>2 DEF Busy, StartedOnce
<1>7. Sides' /\ Ended' /\ Answered'
  BY <1>2, <1>5, <1>6, Works DEF LastWords
<1> QED
  BY <1>3, <1>7

(* Herdr was started for a window: the starts held are served. *)
LEMMA Served ==
  ASSUME SessionsInv, LaunchStarted
  PROVE  Sides' /\ Ended' /\ Table' /\ Answered'
<1>1. TypeOK /\ FewWait /\ Sides /\ Table /\ StartedOnce
  BY DEF SessionsInv, Sides
<1>2. UNCHANGED <<open, used, index, heard, link, toHost, probingStarts>>
  BY DEF LaunchStarted, relay
<1>3. CASE UNCHANGED <<waitingForHerdr, toRelay, ptys>>
  <2>1. Busy' = Busy /\ UNCHANGED <<waitingForHerdr, byStream, streamIndexToId>>
    BY <1>2, <1>3 DEF Busy, ptys
  <2>2. Table'
    BY <1>1, <1>2, <2>1 DEF Table
  <2>3. Say(<<>>) /\ <<>> \in Seq(Answers) /\ DOMAIN <<>> = {}
    BY <1>1, <1>3, SaidNothing
  <2>4. Sides' /\ Ended' /\ Answered'
    BY <1>1, <1>2, <2>1, <2>3, Works DEF StartedOnce
  <2> QED
    BY <2>2, <2>4
<1>4. CASE ServeHeld
  <2>1. PICK F \in SUBSET waitingForHerdr : Spawn(waitingForHerdr, F)
    BY <1>4 DEF ServeHeld
  <2>2. /\ IsFiniteSet(waitingForHerdr) /\ waitingForHerdr \in SUBSET Streams
        /\ waitingForHerdr \in SUBSET Busy /\ waitingForHerdr' = {}
    BY <1>1, <1>4 DEF FewWait, TypeOK, Busy, ServeHeld
  <2>3. Table'
    BY <1>1, <1>2, <2>1, <2>2, TableSpawn
  <2>4. PICK ms \in Seq(Answers) :
          /\ Say(ms)
          /\ \A k \in DOMAIN ms : \/ ms[k].t = "ready" /\ ms[k].s \in waitingForHerdr \ F
                                  \/ ms[k].t = "refused" /\ ms[k].s \in F
          /\ \A r \in F : \E k \in DOMAIN ms : ms[k].s = r
    BY <1>1, <2>1, <2>2, SpawnFacts
  <2>5. byStream' = byStream \cup (waitingForHerdr \ F)
    BY <2>1 DEF Spawn
  <2>6. Busy' = Busy \ F
    BY <1>1, <1>2, <2>2, <2>5 DEF Busy, StartedOnce
  <2>7. /\ byStream' \cap waitingForHerdr' = {} /\ byStream' \cap probingStarts' = {}
        /\ waitingForHerdr' \cap probingStarts' = {}
    BY <1>1, <1>2, <2>2, <2>5 DEF StartedOnce
  <2>8. /\ \A j \in DOMAIN ms : ms[j].t # "exit"
        /\ \A j \in DOMAIN ms : ms[j].t \in LastWords \/ ms[j].s \in Busy'
    BY <2>2, <2>4, <2>6 DEF LastWords
  <2>9. Sides' /\ Ended' /\ Answered'
    BY <1>2, <2>4, <2>6, <2>7, <2>8, Works
  <2> QED
    BY <2>3, <2>9
<1> QED
  BY <1>3, <1>4 DEF LaunchStarted

(* The connector reads a start, a stop or a request for Herdr. *)
LEMMA Reads ==
  ASSUME SessionsInv, Receive
  PROVE  Sides' /\ Ended' /\ Table' /\ Answered'
<1>1. TypeOK /\ Sides /\ Ended /\ Table /\ Answered /\ StartedOnce
  BY DEF SessionsInv, Sides
<1>2. PICK m \in Asks : m = Head(toHost)
  BY <1>1, HeadTail DEF Receive, TypeOK
<1>3. /\ toHost \in Seq(Asks) /\ toHost # <<>> /\ toHost' = Tail(toHost) /\ m.s \in Streams
      /\ 1 \in DOMAIN toHost /\ m = toHost[1] /\ m = Msg(m.t, m.s)
  BY <1>1, <1>2, HeadTail DEF Receive, TypeOK, Asks, Msg
<1>4. UNCHANGED <<open, used, index, heard, link>>
  BY DEF Receive, relay
<1>5. /\ \A s : Starts(1, s) <=> m.t = "start" /\ s = m.s
      /\ \A s : Stops(1, s) <=> m.t = "stop" /\ s = m.s
  <2>1. ASSUME NEW t, NEW s
        PROVE  Msg(m.t, m.s) = Msg(t, s) <=> m.t = t /\ m.s = s
    BY DEF Msg
  <2> QED
    BY <1>3, <2>1 DEF Starts, Stops
<1>6. /\ \A k \in DOMAIN toHost' : k \in Nat /\ k + 1 \in DOMAIN toHost /\ toHost'[k] = toHost[k + 1]
      /\ \A k \in DOMAIN toHost : k \in Nat /\ k >= 1
           /\ (k > 1 => k - 1 \in DOMAIN toHost' /\ toHost'[k - 1] = toHost[k])
  BY <1>3, HeadTail
<1>7. /\ \A s \in Streams : \A k \in DOMAIN toHost' : Starts(k, s)' => Starts(k + 1, s)
      /\ \A s \in Streams : \A k \in DOMAIN toHost : Starts(k, s) /\ k > 1 => Starts(k - 1, s)'
  BY <1>6 DEF Starts
<1>8. \A s \in Streams : (\E k \in DOMAIN toHost : Starts(k, s)) =>
        (m.t = "start" /\ s = m.s) \/ \E k \in DOMAIN toHost' : Starts(k, s)'
  <2> SUFFICES ASSUME NEW s \in Streams, NEW k \in DOMAIN toHost, Starts(k, s)
               PROVE  (m.t = "start" /\ s = m.s) \/ \E l \in DOMAIN toHost' : Starts(l, s)'
    OBVIOUS
  <2>1. k = 1 \/ k > 1
    BY <1>6
  <2> QED
    BY <1>5, <1>6, <1>7, <2>1
<1>9. ASSUME NEW ms \in Seq(Answers), Say(ms), \A j \in DOMAIN ms : ms[j].t # "exit",
             byStream' \cap waitingForHerdr' = {}, byStream' \cap probingStarts' = {},
             waitingForHerdr' \cap probingStarts' = {},
             \A s \in Busy' : s \in Busy \/ (m.t = "start" /\ s = m.s),
             m.t = "stop" => m.s \notin Busy',
             \A j \in DOMAIN ms : ms[j].t \in LastWords \/ ms[j].s \in Busy',
             \A s \in open : s \in Busy \/ (m.t = "start" /\ s = m.s) =>
               s \in Busy' \/ \E j \in DOMAIN ms : ms[j].s = s
      PROVE  Sides' /\ Ended' /\ Answered'
  <2>1. link # "up" => toRelay' = toRelay
    BY <1>9 DEF Say
  <2>2. /\ \A s \in Busy' : s \in Busy \/ (s \in Streams /\ Starts(1, s))
        /\ \A s \in Busy' : ~Stops(1, s)
    BY <1>3, <1>5, <1>9
  <2>3. Sides'
    BY <1>1, <1>3, <1>4, <1>9, <2>1, <2>2, SidesRead
  <2>4. \A s \in Busy' : s \in Busy \/ \E k \in DOMAIN toHost : Starts(k, s)
    BY <1>3, <2>2
  <2>5. \A s \in Streams : \A k \in DOMAIN toHost' : Starts(k, s)' => \E j \in DOMAIN toHost : Starts(j, s)
    BY <1>6, <1>7
  <2>6. Ended'
    BY <1>1, <1>4, <1>9, <2>4, <2>5, SaidEnded
  <2>7. \A s \in open : s \in Busy \/ (\E k \in DOMAIN toHost : Starts(k, s)) =>
           \/ s \in Busy' \/ (\E k \in DOMAIN toHost' : Starts(k, s)')
           \/ \E j \in DOMAIN ms : ms[j].s = s
    BY <1>1, <1>8, <1>9 DEF TypeOK
  <2>8. Answered'
    BY <1>1, <1>4, <1>9, <2>7, SaidAnswered
  <2> QED
    BY <2>3, <2>6, <2>8
<1>10. m.t = "start" => m.s \notin Busy
  BY <1>1, <1>3, <1>5 DEF StartedOnce
<1>11. UNCHANGED toRelay => Say(<<>>) /\ <<>> \in Seq(Answers) /\ DOMAIN <<>> = {}
  BY <1>1, SaidNothing
<1>12. CASE m.t = "start" /\ StartSession(m.s)
  <2>1. ASSUME NEW t \in {"not_running", "refused"}, Say(<<Msg(t, m.s)>>),
               waitingForHerdr' = waitingForHerdr \cup (IF t = "refused" THEN {} ELSE {m.s}),
               UNCHANGED <<probingStarts, ptys>>
        PROVE  Sides' /\ Ended' /\ Table' /\ Answered'
    <3>1. PICK ms \in Seq(Answers) : Say(ms) /\ DOMAIN ms = {1} /\ ms[1].t = t /\ ms[1].s = m.s
      BY <1>1, <1>3, <2>1, SayOne DEF Errors
    <3>2. Busy' = Busy \cup (IF t = "refused" THEN {} ELSE {m.s})
      BY <2>1 DEF Busy, ptys
    <3>3. /\ byStream' \cap waitingForHerdr' = {} /\ byStream' \cap probingStarts' = {}
          /\ waitingForHerdr' \cap probingStarts' = {}
      BY <1>1, <1>10, <1>12, <2>1 DEF StartedOnce, ptys, Busy
    <3>4. Sides' /\ Ended' /\ Answered'
      BY <1>9, <1>12, <3>1, <3>2, <3>3 DEF LastWords
    <3> QED
      BY <1>1, <1>4, <2>1, <3>4 DEF Table, ptys
  <2>2. CASE probingStarts' = probingStarts \cup {m.s} /\ UNCHANGED <<waitingForHerdr, toRelay, ptys>>
    <3>1. Busy' = Busy \cup {m.s}
      BY <2>2 DEF Busy, ptys
    <3>2. /\ byStream' \cap waitingForHerdr' = {} /\ byStream' \cap probingStarts' = {}
          /\ waitingForHerdr' \cap probingStarts' = {}
      BY <1>1, <1>10, <1>12, <2>2 DEF StartedOnce, ptys, Busy
    <3>3. Sides' /\ Ended' /\ Answered'
      BY <1>9, <1>11, <1>12, <2>2, <3>1, <3>2
    <3> QED
      BY <1>1, <1>4, <2>2, <3>3 DEF Table, ptys
  <2> QED
    BY <1>12, <2>1, <2>2 DEF StartSession, Refuse, WaitForHerdr
<1>13. CASE /\ m.t = "stop" /\ StopStreams({m.s}) /\ UNCHANGED toRelay
            /\ streamIndexToId' = IF m.s \in byStream THEN IndicesWithout({m.s}) ELSE streamIndexToId
  <2>1. /\ byStream' = byStream \ {m.s} /\ Busy' = Busy \ {m.s}
        /\ byStream' \cap waitingForHerdr' = {} /\ byStream' \cap probingStarts' = {}
        /\ waitingForHerdr' \cap probingStarts' = {}
    BY <1>1, <1>13 DEF StopStreams, Busy, StartedOnce
  <2>2. m.s \notin open
    BY <1>1, <1>3, <1>5, <1>13 DEF Sides, StopsGone
  <2>3. Sides' /\ Ended' /\ Answered'
    BY <1>9, <1>11, <1>13, <2>1, <2>2
  <2>4. Table'
    <3>1. CASE m.s \in byStream
      BY <1>1, <1>4, <1>13, <2>1, <3>1, TableForget
    <3>2. CASE m.s \notin byStream
      BY <1>1, <1>4, <1>13, <2>1, <3>2 DEF Table
    <3> QED
      BY <3>1, <3>2
  <2> QED
    BY <2>3, <2>4
<1>14. CASE m.t = "herdr_start" /\ UNCHANGED <<toRelay, ptys, starts>>
  <2>1. Busy' = Busy /\ UNCHANGED <<byStream, waitingForHerdr, probingStarts, streamIndexToId>>
    BY <1>14 DEF ptys, starts, Busy
  <2>2. Sides' /\ Ended' /\ Answered'
    BY <1>1, <1>9, <1>11, <1>14, <2>1 DEF StartedOnce
  <2>3. Table'
    BY <1>1, <1>4, <2>1 DEF Table
  <2> QED
    BY <2>2, <2>3
<1> QED
  BY <1>2, <1>12, <1>13, <1>14 DEF Receive

(***************************************************************************)
(* The theorems.                                                           *)
(***************************************************************************)

(* The invariant holds at first. *)
LEMMA SessionsInit == Init => SessionsInv
<1> SUFFICES ASSUME Init
             PROVE  SessionsInv
  OBVIOUS
<1>1. TypeOK
  BY SessionsAssumption DEF Init, TypeOK
<1>2. FewWait
  <2>1. IsFiniteSet({}) /\ IsFiniteSet({AutoStart})
    BY FS_EmptySet, FS_Singleton
  <2> QED
    BY <2>1 DEF Init, FewWait
<1>3. Busy = {} /\ toHost = <<>> /\ toRelay = <<>> /\ open = {} /\ link = "up" /\ byStream = {}
  BY DEF Init, Busy
<1>4. Sides
  BY <1>3 DEF Init, Sides, RelaySide, StartedOnce, Left, Apart, StopsGone
<1>5. Ended /\ Answered
  BY <1>3 DEF Ended, Answered
<1>6. Table
  BY <1>3 DEF Init, Table
<1> QED
  BY <1>1, <1>2, <1>4, <1>5, <1>6 DEF SessionsInv

(* Every step keeps it. *)
LEMMA SessionsNext ==
  ASSUME SessionsInv, [Next]_vars
  PROVE  SessionsInv'
<1>1. TypeOK /\ FewWait
  BY DEF SessionsInv
<1>2. FewWait'
  BY <1>1, FewWaitStep
<1>3. TypeOK'
  BY <1>1, RelayType, ReceiveType, ConnectorType DEF Next
<1>4. Sides' /\ Ended' /\ Table' /\ Answered'
  BY RelayAsks, Hears, LinkSteps, Asides, Probed, Exits, Served, Reads DEF Next
<1> QED
  BY <1>2, <1>3, <1>4 DEF SessionsInv

(* In every behaviour the invariant holds. *)
THEOREM SessionsHold == Spec => []SessionsInv
<1> QED
  BY SessionsInit, SessionsNext, PTL DEF Spec

(* What a window types reaches its own PTY, whatever streams had its index before. *)
THEOREM InputIsRouted == Spec => []InputRouting
<1>1. SessionsInv => InputRouting
  <2> SUFFICES ASSUME SessionsInv
               PROVE  InputRouting
    OBVIOUS
  <2>1. TypeOK /\ Table /\ RelaySide /\ Left
    BY DEF SessionsInv, Sides
  <2>2. ASSUME toHost = <<>>, NEW s \in open, index[s] # None
        PROVE  streamIndexToId[index[s]] \in {s, None}
    <3>1. s \in Streams /\ index[s] \in Indices /\ link = "up"
      BY <2>1, <2>2 DEF TypeOK, RelaySide
    <3> DEFINE r == streamIndexToId[index[s]]
    <3>2. CASE r # None
      <4>1. r \in byStream /\ index[r] = index[s]
        BY <2>1, <3>1, <3>2 DEF Table
      <4>2. r \in open
        BY <2>1, <2>2, <3>1, <4>1 DEF Left, Busy
      <4> QED
        BY <2>1, <2>2, <4>1, <4>2 DEF RelaySide
    <3> QED
      BY <3>2
  <2> QED
    BY <2>1, <2>2 DEF InputRouting, Table
<1> QED
  BY <1>1, SessionsHold, PTL

(* A PTY, a held start and one being probed belong to a stream that the relay has, *)
(* or is about to be stopped, and none outlives the connection.                    *)
THEOREM NothingStays == Spec => []NothingLeftBehind
<1>1. SessionsInv => NothingLeftBehind
  <2> SUFFICES ASSUME SessionsInv
               PROVE  NothingLeftBehind
    OBVIOUS
  <2>1. RelaySide /\ Left
    BY DEF SessionsInv, Sides
  <2>2. ASSUME NEW s, NEW j \in DOMAIN toHost, Stops(j, s)
        PROVE  "stop" \in Pending(toHost, s)
    <3>1. toHost[j].t = "stop" /\ toHost[j].s = s
      BY <2>2 DEF Stops, Msg
    <3> QED
      BY <3>1 DEF Pending
  <2> QED
    BY <2>1, <2>2 DEF NothingLeftBehind, Left, RelaySide, Busy
<1> QED
  BY <1>1, SessionsHold, PTL

(* No window waits for a session that nobody works on. *)
THEOREM NoWindowForgotten == Spec => []EveryWindowAnswered
<1>1. SessionsInv => EveryWindowAnswered
  <2> SUFFICES ASSUME SessionsInv, link = "up", NEW s \in open
               PROVE  \/ "start" \in Pending(toHost, s)
                      \/ s \in byStream \cup probingStarts
                      \/ Pending(toRelay, s) \cap (Errors \cup {"exit"}) # {}
                      \/ heard[s] \in {"refused", "start_failed"} \/ s \in waitingForHerdr
    BY DEF EveryWindowAnswered
  <2>1. TypeOK /\ Answered /\ s \in Streams
    BY DEF SessionsInv, TypeOK
  <2>2. CASE \E k \in DOMAIN toHost : Starts(k, s)
    <3>1. PICK k \in DOMAIN toHost : toHost[k].t = "start" /\ toHost[k].s = s
      BY <2>2 DEF Starts, Msg
    <3>2. "start" \in Pending(toHost, s)
      BY <3>1 DEF Pending
    <3> QED
      BY <3>2
  <2>3. CASE s \in Busy
    BY <2>3 DEF Busy
  <2>4. CASE heard[s] \in LastWords
    BY <2>1, <2>4 DEF LastWords, TypeOK, Errors
  <2>5. CASE \E k \in DOMAIN toRelay : toRelay[k].s = s /\ toRelay[k].t \in LastWords
    <3>1. PICK k \in DOMAIN toRelay : toRelay[k].s = s /\ toRelay[k].t \in LastWords
      BY <2>5
    <3>2. toRelay[k].t \in Pending(toRelay, s) \cap (Errors \cup {"exit"})
      BY <3>1 DEF Pending, LastWords, Errors
    <3> QED
      BY <3>2
  <2> QED
    BY <2>1, <2>2, <2>3, <2>4, <2>5 DEF Answered, Final
<1> QED
  BY <1>1, SessionsHold, PTL
================================================================================
