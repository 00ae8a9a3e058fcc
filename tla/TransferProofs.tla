---------------------------- MODULE TransferProofs ----------------------------
(***************************************************************************)
(* What is passed between a window and its workstation a slice at a time,    *)
(* for any number of windows, uploads, slices and messages on their way.     *)
(*                                                                         *)
(* First the files pasted in a window (PasteUpload): none is reported saved  *)
(* before it is whole, and neither a pull nor a slot of the relay is lost    *)
(* between relay/src/server/paste-proxy.ts and cli/src/pasted-files.ts.      *)
(*                                                                         *)
(* Then the workstation's font in a window (HostFont), for any number of     *)
(* fonts, calls and reports: whatever comes late, the window draws with the   *)
(* font it was last told of.                                               *)
(***************************************************************************)
EXTENDS PasteUpload, HostFont, FiniteSetTheorems, TLAPS

\* What the two directions of the connector's WebSocket carry.

HostMsg == [type : {"begin"}, upload : Uploads, index : {0}]
             \cup [type : {"chunk"}, upload : Uploads, index : Nat]
             \cup [type : {"stop"}, stream : Windows]
RelayMsg == [type : {"request"}, upload : Uploads, index : Nat]
              \cup [type : {"ready", "error"}, upload : Uploads, index : {0}]
              \cup [type : {"exit", "start_failed"}, stream : Windows]

\* Message m is on its way in q.
Has(q, m) == \E k \in DOMAIN q : q[k] = m

\* Begins, slices and requests for slices are sent once.
Counted == {"begin", "chunk", "request"}
Once(q) == \A j, k \in DOMAIN q : q[j] = q[k] /\ q[j].type \in Counted => j = k

-----------------------------------------------------------------------------
(* Queues of messages. *)

(* A message is told by its fields. *)
LEMMA MsgFacts ==
  /\ \A t, u, i : Msg(t, u, i).type = t /\ Msg(t, u, i).upload = u /\ Msg(t, u, i).index = i
  /\ \A t, w : StreamMsg(t, w).type = t /\ StreamMsg(t, w).stream = w
  BY DEF Msg, StreamMsg

(* A message sent is the only one that comes to be on its way. *)
LEMMA Appended ==
  ASSUME NEW M, NEW q \in Seq(M), NEW m \in M
  PROVE  /\ Append(q, m) \in Seq(M)
         /\ \A x : Has(Append(q, m), x) <=> Has(q, x) \/ x = m
         /\ Once(q) /\ (m.type \notin Counted \/ ~Has(q, m)) => Once(Append(q, m))
  <1>1. /\ Append(q, m) \in Seq(M) /\ DOMAIN Append(q, m) = 1 .. Len(q) + 1
        /\ \A k \in 1 .. Len(q) : Append(q, m)[k] = q[k]
        /\ Append(q, m)[Len(q) + 1] = m
        /\ DOMAIN q = 1 .. Len(q) /\ Len(q) \in Nat
    OBVIOUS
  <1>2. \A x : Has(Append(q, m), x) <=> Has(q, x) \/ x = m
    BY <1>1 DEF Has
  <1>3. ASSUME Once(q), m.type \notin Counted \/ ~Has(q, m) PROVE Once(Append(q, m))
    <2> SUFFICES ASSUME NEW j \in 1 .. Len(q) + 1, NEW k \in 1 .. Len(q) + 1,
                        Append(q, m)[j] = Append(q, m)[k], Append(q, m)[j].type \in Counted
                 PROVE  j = k
      BY <1>1 DEF Once
    <2>1. CASE j \in 1 .. Len(q) /\ k \in 1 .. Len(q) BY <1>1, <1>3, <2>1 DEF Once
    <2>2. CASE j = Len(q) + 1 /\ k \in 1 .. Len(q) BY <1>1, <1>3, <2>2 DEF Has
    <2>3. CASE k = Len(q) + 1 /\ j \in 1 .. Len(q) BY <1>1, <1>3, <2>3 DEF Has
    <2> QED BY <1>1, <2>1, <2>2, <2>3
  <1> QED BY <1>1, <1>2, <1>3

(* A message taken is the only one that no longer is. *)
LEMMA Taken ==
  ASSUME NEW M, NEW q \in Seq(M), q # <<>>
  PROVE  /\ Head(q) \in M /\ Tail(q) \in Seq(M)
         /\ \A x : Has(q, x) <=> x = Head(q) \/ Has(Tail(q), x)
         /\ Once(q) => Once(Tail(q)) /\ (Head(q).type \in Counted => ~Has(Tail(q), Head(q)))
  <1>1. /\ Len(q) \in Nat \ {0} /\ DOMAIN q = 1 .. Len(q) /\ Head(q) = q[1] /\ q[1] \in M
        /\ Tail(q) \in Seq(M) /\ DOMAIN Tail(q) = 1 .. Len(q) - 1
        /\ \A k \in 1 .. Len(q) - 1 : Tail(q)[k] = q[k + 1]
    OBVIOUS
  <1>2. ASSUME NEW x PROVE Has(q, x) <=> x = Head(q) \/ Has(Tail(q), x)
    <2>1. ASSUME NEW k \in DOMAIN q, q[k] = x PROVE x = Head(q) \/ Has(Tail(q), x)
      <3>1. CASE k = 1 BY <1>1, <2>1, <3>1
      <3>2. CASE k # 1
        <4>1. k - 1 \in 1 .. Len(q) - 1 /\ Tail(q)[k - 1] = q[k] BY <1>1, <3>2
        <4> QED BY <1>1, <2>1, <4>1 DEF Has
      <3> QED BY <3>1, <3>2
    <2>2. ASSUME NEW k \in DOMAIN Tail(q), Tail(q)[k] = x PROVE Has(q, x)
      <3>1. k + 1 \in DOMAIN q /\ q[k + 1] = x BY <1>1, <2>2
      <3> QED BY <3>1 DEF Has
    <2>3. 1 \in DOMAIN q BY <1>1
    <2> QED BY <1>1, <2>1, <2>2, <2>3 DEF Has
  <1>3. ASSUME Once(q) PROVE Once(Tail(q)) /\ (Head(q).type \in Counted => ~Has(Tail(q), Head(q)))
    <2>1. Once(Tail(q)) 
      <3> SUFFICES ASSUME NEW j \in 1 .. Len(q) - 1, NEW k \in 1 .. Len(q) - 1,
                          Tail(q)[j] = Tail(q)[k], Tail(q)[j].type \in Counted
                   PROVE  j = k
        BY <1>1 DEF Once
      <3>1. j + 1 \in DOMAIN q /\ k + 1 \in DOMAIN q BY <1>1
      <3>2. j + 1 = k + 1 BY <1>1, <1>3, <3>1 DEF Once
      <3> QED BY <3>2
    <2>2. ASSUME Head(q).type \in Counted, NEW k \in DOMAIN Tail(q), Tail(q)[k] = Head(q) PROVE FALSE
      <3>1. k + 1 \in DOMAIN q /\ 1 \in DOMAIN q /\ q[k + 1] = q[1] /\ q[1].type \in Counted BY <1>1, <2>2
      <3>2. k + 1 = 1 BY <1>3, <3>1 DEF Once
      <3> QED BY <1>1, <2>2, <3>2
    <2> QED BY <2>1, <2>2 DEF Has
  <1> QED BY <1>1, <1>2, <1>3

(* Several messages sent at once. *)
LEMMA Joined ==
  ASSUME NEW M, NEW q \in Seq(M), NEW r \in Seq(M)
  PROVE  /\ q \o r \in Seq(M)
         /\ \A x : Has(q \o r, x) <=> Has(q, x) \/ Has(r, x)
         /\ Once(q) /\ Once(r) /\ (\A x : Has(q, x) /\ Has(r, x) => x.type \notin Counted)
              => Once(q \o r)
  <1>1. /\ q \o r \in Seq(M) /\ DOMAIN (q \o r) = 1 .. Len(q) + Len(r)
        /\ \A k \in 1 .. Len(q) : (q \o r)[k] = q[k]
        /\ \A k \in 1 .. Len(r) : (q \o r)[Len(q) + k] = r[k]
        /\ DOMAIN q = 1 .. Len(q) /\ Len(q) \in Nat
        /\ DOMAIN r = 1 .. Len(r) /\ Len(r) \in Nat
    OBVIOUS
  <1>2. ASSUME NEW k \in 1 .. Len(q) + Len(r), k \notin 1 .. Len(q)
        PROVE  k - Len(q) \in 1 .. Len(r) /\ (q \o r)[k] = r[k - Len(q)]
    <2>1. k - Len(q) \in 1 .. Len(r) /\ Len(q) + (k - Len(q)) = k BY <1>1, <1>2
    <2> QED BY <1>1, <2>1
  <1>3. ASSUME NEW x PROVE Has(q \o r, x) <=> Has(q, x) \/ Has(r, x)
    <2>1. Has(q \o r, x) => Has(q, x) \/ Has(r, x) BY <1>1, <1>2 DEF Has
    <2>2. Has(q, x) => Has(q \o r, x) BY <1>1 DEF Has
    <2>3. ASSUME NEW k \in 1 .. Len(r), r[k] = x PROVE Has(q \o r, x)
      <3>1. Len(q) + k \in DOMAIN (q \o r) BY <1>1
      <3> QED BY <1>1, <2>3, <3>1 DEF Has
    <2> QED BY <1>1, <2>1, <2>2, <2>3 DEF Has
  <1>4. ASSUME Once(q), Once(r), \A x : Has(q, x) /\ Has(r, x) => x.type \notin Counted
        PROVE  Once(q \o r)
    <2> SUFFICES ASSUME NEW j \in 1 .. Len(q) + Len(r), NEW k \in 1 .. Len(q) + Len(r),
                        (q \o r)[j] = (q \o r)[k], (q \o r)[j].type \in Counted
                 PROVE  j = k
      BY <1>1 DEF Once
    <2>1. CASE j \in 1 .. Len(q) /\ k \in 1 .. Len(q) BY <1>1, <1>4, <2>1 DEF Once
    <2>2. CASE j \notin 1 .. Len(q) /\ k \in 1 .. Len(q)
      <3>1. Has(r, (q \o r)[j]) /\ Has(q, (q \o r)[j]) BY <1>1, <1>2, <2>2 DEF Has
      <3> QED BY <1>4, <3>1
    <2>3. CASE k \notin 1 .. Len(q) /\ j \in 1 .. Len(q)
      <3>1. Has(r, (q \o r)[j]) /\ Has(q, (q \o r)[j]) BY <1>1, <1>2, <2>3 DEF Has
      <3> QED BY <1>4, <3>1
    <2>4. CASE j \notin 1 .. Len(q) /\ k \notin 1 .. Len(q)
      <3>1. j - Len(q) \in DOMAIN r /\ k - Len(q) \in DOMAIN r /\ r[j - Len(q)] = r[k - Len(q)]
            /\ r[j - Len(q)].type \in Counted
        BY <1>1, <1>2, <2>4
      <3>2. j - Len(q) = k - Len(q) BY <1>4, <3>1 DEF Once
      <3> QED BY <3>2, <1>1
    <2> QED BY <2>1, <2>2, <2>3, <2>4
  <1> QED BY <1>1, <1>3, <1>4

(* A sweep reports each upload it aborts, and nothing else. *)
LEMMA ErrorsFacts ==
  ASSUME NEW S \in SUBSET Uploads, NEW errors \in [1 .. Cardinality(S) -> S], Swept(S, errors),
         Cardinality(S) \in Nat
  PROVE  /\ ErrorsOf(errors) \in Seq(RelayMsg) /\ Once(ErrorsOf(errors))
         /\ \A x : Has(ErrorsOf(errors), x) <=> \E v \in S : x = Msg("error", v, 0)
  <1>1. /\ DOMAIN errors = 1 .. Cardinality(S) /\ DOMAIN ErrorsOf(errors) = DOMAIN errors
        /\ \A k \in DOMAIN errors : errors[k] \in S /\ ErrorsOf(errors)[k] = Msg("error", errors[k], 0)
        /\ \A k \in DOMAIN errors : ErrorsOf(errors)[k].type \notin Counted
    BY MsgFacts DEF ErrorsOf, Counted
  <1>2. \A v \in Uploads : Msg("error", v, 0) \in RelayMsg BY DEF Msg, RelayMsg
  <1>3. ErrorsOf(errors) \in Seq(RelayMsg) BY <1>1, <1>2 DEF ErrorsOf
  <1>4. \A v \in S : \E k \in DOMAIN errors : errors[k] = v BY DEF Swept
  <1>5. ASSUME NEW x PROVE Has(ErrorsOf(errors), x) <=> \E v \in S : x = Msg("error", v, 0)
    <2>1. Has(ErrorsOf(errors), x) => \E v \in S : x = Msg("error", v, 0) BY <1>1 DEF Has
    <2>2. ASSUME NEW v \in S, x = Msg("error", v, 0) PROVE Has(ErrorsOf(errors), x)
      BY <1>1, <1>4, <2>2 DEF Has
    <2> QED BY <2>1, <2>2
  <1>6. Once(ErrorsOf(errors)) BY <1>1 DEF Once
  <1> QED BY <1>3, <1>5, <1>6

(* requestMore asks for each slice of an interval once. *)
LEMMA RequestsFacts ==
  ASSUME NEW u \in Uploads, NEW n \in Nat, NEW c \in Nat
  PROVE  /\ Requests(u, n, c) \in Seq(RelayMsg) /\ Once(Requests(u, n, c))
         /\ \A x : Has(Requests(u, n, c), x) <=> \E i \in n .. n + c - 1 : x = Msg("request", u, i)
  <1>1. /\ DOMAIN Requests(u, n, c) = 1 .. c
        /\ \A k \in 1 .. c : Requests(u, n, c)[k] = Msg("request", u, n + k - 1)
    BY DEF Requests
  <1>2. \A i \in Nat : Msg("request", u, i) \in RelayMsg BY DEF Msg, RelayMsg
  <1>3. \A k \in 1 .. c : n + k - 1 \in Nat OBVIOUS
  <1>4. Requests(u, n, c) \in Seq(RelayMsg) BY <1>1, <1>2, <1>3 DEF Requests
  <1>5. ASSUME NEW x
        PROVE  Has(Requests(u, n, c), x) <=> \E i \in n .. n + c - 1 : x = Msg("request", u, i)
    <2>1. ASSUME NEW k \in 1 .. c, Requests(u, n, c)[k] = x
          PROVE  \E i \in n .. n + c - 1 : x = Msg("request", u, i)
      <3>1. n + k - 1 \in n .. n + c - 1 OBVIOUS
      <3> QED BY <1>1, <2>1, <3>1
    <2>2. ASSUME NEW i \in n .. n + c - 1, x = Msg("request", u, i) PROVE Has(Requests(u, n, c), x)
      <3>1. i - n + 1 \in 1 .. c /\ n + (i - n + 1) - 1 = i OBVIOUS
      <3> QED BY <1>1, <2>2, <3>1 DEF Has
    <2> QED BY <1>1, <2>1, <2>2 DEF Has
  <1>6. Once(Requests(u, n, c))
    <2> SUFFICES ASSUME NEW j \in 1 .. c, NEW k \in 1 .. c,
                        Msg("request", u, n + j - 1) = Msg("request", u, n + k - 1)
                 PROVE  j = k
      BY <1>1 DEF Once
    <2>1. n + j - 1 = n + k - 1 BY MsgFacts
    <2> QED BY <2>1
  <1> QED BY <1>4, <1>5, <1>6

(* What is asked for next is an interval that fills the window. *)
LEMMA WantedFacts ==
  ASSUME NEW u \in Uploads, NEW P, IsFiniteSet(P), NEW n \in Nat, n <= Chunks[u],
         Cardinality(P) <= PASTE_UPLOAD_WINDOW
  PROVE  LET W == Wanted(u, P, n) IN
         /\ IsFiniteSet(W) /\ Cardinality(W) \in Nat
         /\ W = n .. n + Cardinality(W) - 1 /\ n + Cardinality(W) <= Chunks[u]
         /\ Cardinality(P) + Cardinality(W) <= PASTE_UPLOAD_WINDOW
         /\ P = {} /\ n < Chunks[u] => W # {}
  <1> DEFINE W == Wanted(u, P, n)
             K == PASTE_UPLOAD_WINDOW - Cardinality(P)
             m == IF n + K <= Chunks[u] THEN n + K ELSE Chunks[u]
  <1>1. Cardinality(P) \in Nat BY FS_CardinalityType
  <1>2. K \in Nat /\ Chunks[u] \in Nat /\ Chunks[u] > 0 /\ PASTE_UPLOAD_WINDOW > 0
    BY <1>1, UploadAssumption, LimitAssumption
  <1>3. m \in Nat /\ n <= m /\ m <= Chunks[u] /\ m - n <= K BY <1>2
  <1>4. W = n .. m - 1 BY <1>2 DEF Wanted, Slices
  <1>9. PASTE_UPLOAD_WINDOW = K + Cardinality(P) /\ PASTE_UPLOAD_WINDOW \in Nat
    BY <1>1, LimitAssumption
  <1>10. m = IF n + K <= Chunks[u] THEN n + K ELSE Chunks[u] OBVIOUS
  <1> HIDE DEF W, m, K
  <1>5. IsFiniteSet(W) /\ Cardinality(W) = m - n
    <2>1. m - 1 \in Int /\ n \in Int BY <1>3
    <2>2. IsFiniteSet(n .. m - 1) /\ Cardinality(n .. m - 1) = IF n > m - 1 THEN 0 ELSE (m - 1) - n + 1
      BY <2>1, FS_Interval
    <2>3. (IF n > m - 1 THEN 0 ELSE (m - 1) - n + 1) = m - n BY <1>3
    <2> QED BY <1>4, <2>2, <2>3
  <1>6. W = n .. n + Cardinality(W) - 1 /\ n + Cardinality(W) <= Chunks[u] BY <1>3, <1>4, <1>5
  <1>7. Cardinality(P) + Cardinality(W) <= PASTE_UPLOAD_WINDOW BY <1>1, <1>2, <1>3, <1>5, <1>9
  <1>8. ASSUME P = {}, n < Chunks[u] PROVE W # {}
    <2>1. Cardinality(P) = 0 BY <1>8, FS_EmptySet
    <2>2. n \in n .. m - 1 BY <1>2, <1>3, <1>8, <1>9, <1>10, <2>1
    <2> QED BY <1>4, <2>2
  <1> QED BY <1>3, <1>5, <1>6, <1>7, <1>8 DEF W

-----------------------------------------------------------------------------
(* The invariant. *)

Beginning(u) == Has(toHost, Msg("begin", u, 0))
Asked(u, i) == Has(toRelay, Msg("request", u, i))
Sent(u, i) == Has(toHost, Msg("chunk", u, i))
Done(u) == Has(toRelay, Msg("ready", u, 0))
Failing(u) == Has(toRelay, Msg("error", u, 0))

\* The types, with those of the messages on their way.
Typed == TypeOK /\ toHost \in Seq(HostMsg) /\ toRelay \in Seq(RelayMsg)

(* Until its connector has begun an upload, nothing of it is there. *)
Unbegun(u) == phase[u] = "new" \/ Beginning(u)
Unopened ==
  \A u \in Uploads :
    /\ phase[u] = "new" => ~Beginning(u)
    /\ Unbegun(u) => u \notin uploads /\ file[u] = {} /\ received[u] = 0 /\ pending[u] = {}

\* A slot is held by an upload begun in a window that is there, whose connector has
\* or will have it, or has reported its end.
Held ==
  /\ \A u \in slots : WindowOf[u] \in live /\ phase[u] # "new"
  /\ \A u \in Uploads : Sending(u) => u \in slots
  /\ \A w \in Windows : Has(toHost, StreamMsg("stop", w)) => w \notin live
  /\ \A u \in slots : Beginning(u) \/ u \in uploads \/ Done(u) \/ Failing(u)

\* What an upload in flight waits for and has on disk are the slices it asked for.
Progress ==
  /\ IsFiniteSet(uploads)
  /\ \A u \in uploads :
       /\ pending[u] # {} /\ pending[u] \cap file[u] = {}
       /\ pending[u] \cup file[u] = 0 .. nextToRequest[u] - 1
       /\ received[u] = Cardinality(file[u])
  /\ \A u \in Uploads : Cardinality(pending[u]) <= PASTE_UPLOAD_WINDOW

\* A slice asked for, being read or on its way is waited for, and is one of the three.
Flying ==
  /\ Once(toHost) /\ Once(toRelay)
  /\ \A u \in Uploads : \A i \in Nat :
       /\ Asked(u, i) \/ <<u, i>> \in reading \/ Sent(u, i) => i \in pending[u]
       /\ ~(Asked(u, i) /\ <<u, i>> \in reading)
       /\ ~(Asked(u, i) /\ Sent(u, i))
       /\ ~(<<u, i>> \in reading /\ Sent(u, i))

\* What is waited for is under way while its window sends.
Pulled ==
  \A u \in uploads : Sending(u) =>
    \A i \in pending[u] : Asked(u, i) \/ <<u, i>> \in reading \cap requested \/ Sent(u, i)

\* An upload reported or shown as saved is over and has all its slices.
Whole ==
  \A u \in Uploads : phase[u] = "saved" \/ Done(u) =>
    u \notin uploads /\ ~Unbegun(u) /\ file[u] = Slices(u)

PasteInv == Typed /\ Unopened /\ Held /\ Progress /\ Flying /\ Pulled /\ Whole

-----------------------------------------------------------------------------
(* The window's steps. *)

(* The window touches neither the connector nor what is on its way to the relay, so   *)
(* that only phases, slots, reads and what it sends matter.                           *)
LEMMA WindowKeeps ==
  ASSUME PasteInv, UNCHANGED <<toRelay, connector>>,
         phase' \in [Uploads -> {"new", "sending"} \cup Ended],
         reading' \subseteq reading, requested' \subseteq requested, live' \subseteq live,
         slots' \subseteq Uploads, toHost' \in Seq(HostMsg), Once(toHost'),
         \* what is sent: the begin of a new upload, a slice that was read, a stop
         \A u \in Uploads : Beginning(u)' => Beginning(u) \/ (phase[u] = "new" /\ phase'[u] # "new"),
         \A u \in Uploads, i \in Nat : Sent(u, i)' =>
           Sent(u, i) \/ (<<u, i>> \in reading /\ <<u, i>> \notin reading'),
         \A w \in Windows : Has(toHost', StreamMsg("stop", w)) =>
           Has(toHost, StreamMsg("stop", w)) \/ w \notin live',
         \* nothing sent is lost
         \A x : Has(toHost, x) => Has(toHost', x),
         \* phases: an upload that begins is begun with a slot, none becomes saved
         \A u \in Uploads : phase'[u] = "new" => phase[u] = "new",
         \A u \in Uploads : phase'[u] = "saved" => phase[u] = "saved",
         \A u \in slots' : WindowOf[u] \in live' /\ phase'[u] # "new" /\ (u \in slots \/ Beginning(u)'),
         \A u \in Uploads : phase'[u] = "sending" => u \in slots' /\ (phase[u] = "sending" \/ phase[u] = "new"),
         \* a slice that was waited for is still read, or sent
         \A u \in Uploads, i \in Nat : phase'[u] = "sending" /\ <<u, i>> \in reading \cap requested =>
           <<u, i>> \in reading' \cap requested' \/ Sent(u, i)'
  PROVE  PasteInv'
  <1> USE DEF connector
  <1>1. Typed' BY DEF PasteInv, Typed, TypeOK
  <1>2. \A u \in Uploads : /\ (Asked(u, 0)' <=> Asked(u, 0)) /\ (Done(u)' <=> Done(u)) /\ (Failing(u)' <=> Failing(u))
                           /\ \A i \in Nat : Asked(u, i)' <=> Asked(u, i)
    BY DEF Asked, Done, Failing
  <1>3. \A u \in Uploads : Unbegun(u)' => Unbegun(u)
    BY DEF Unbegun
  <1>4. Unopened'
    <2> SUFFICES ASSUME NEW u \in Uploads
                 PROVE  /\ phase'[u] = "new" => ~Beginning(u)'
                        /\ Unbegun(u)' => u \notin uploads /\ file[u] = {} /\ received[u] = 0 /\ pending[u] = {}
      BY DEF Unopened
    <2>1. phase'[u] = "new" => ~Beginning(u)' BY DEF PasteInv, Unopened
    <2>2. Unbegun(u)' => u \notin uploads /\ file[u] = {} /\ received[u] = 0 /\ pending[u] = {}
      BY <1>3 DEF PasteInv, Unopened
    <2> QED BY <2>1, <2>2
  <1>5. Held'
    <2>1. \A u \in Uploads : Beginning(u) => Beginning(u)' BY DEF Beginning
    <2>2. \A u \in slots' : Beginning(u)' \/ u \in uploads \/ Done(u) \/ Failing(u)
      BY <2>1 DEF PasteInv, Held
    <2>3. \A w \in Windows : Has(toHost', StreamMsg("stop", w)) => w \notin live'
      BY DEF PasteInv, Held
    <2>4. \A u \in slots' : (Done(u)' <=> Done(u)) /\ (Failing(u)' <=> Failing(u)) BY <1>2
    <2> QED BY <2>2, <2>3, <2>4 DEF Held, Sending
  <1>6. Progress' BY DEF PasteInv, Progress
  <1>7. Flying'
    <2> SUFFICES ASSUME NEW u \in Uploads, NEW i \in Nat
                 PROVE  /\ Asked(u, i)' \/ <<u, i>> \in reading' \/ Sent(u, i)' => i \in pending[u]
                        /\ ~(Asked(u, i)' /\ <<u, i>> \in reading')
                        /\ ~(Asked(u, i)' /\ Sent(u, i)')
                        /\ ~(<<u, i>> \in reading' /\ Sent(u, i)')
      BY DEF Flying, PasteInv
    <2> QED BY <1>2 DEF PasteInv, Flying
  <1>8. Pulled'
    <2> SUFFICES ASSUME NEW u \in uploads, phase'[u] = "sending", NEW i \in pending[u]
                 PROVE  Asked(u, i)' \/ <<u, i>> \in reading' \cap requested' \/ Sent(u, i)'
      BY DEF Pulled, Sending
    <2>1. u \in Uploads /\ i \in Nat /\ phase[u] = "sending"
      <3>1. u \in Uploads /\ pending[u] \in SUBSET Nat BY DEF PasteInv, Typed, TypeOK
      <3>2. phase[u] # "new" BY <3>1 DEF PasteInv, Unopened, Unbegun
      <3> QED BY <3>1, <3>2
    <2>2. Asked(u, i) \/ <<u, i>> \in reading \cap requested \/ Sent(u, i)
      BY <2>1 DEF PasteInv, Pulled, Sending
    <2>3. Sent(u, i) => Sent(u, i)' BY DEF Sent
    <2> QED BY <1>2, <2>1, <2>2, <2>3
  <1>9. Whole'
    <2> SUFFICES ASSUME NEW u \in Uploads, phase'[u] = "saved" \/ Done(u)'
                 PROVE  u \notin uploads /\ ~Unbegun(u)' /\ file[u] = Slices(u)
      BY DEF Whole
    <2> QED BY <1>2, <1>3 DEF PasteInv, Whole
  <1> QED BY <1>1, <1>4, <1>5, <1>6, <1>7, <1>8, <1>9 DEF PasteInv

(* A begin is sent once for an upload, by a window that has a session and nothing else to send. *)
LEMMA BeginHolds ==
  ASSUME PasteInv, NEW u \in Uploads, Begin(u)
  PROVE  PasteInv'
  <1>1. /\ phase[u] = "new" /\ WindowOf[u] \in live
        /\ UNCHANGED <<reading, live, requested, toRelay, connector>>
    BY DEF Begin
  <1>2. Typed /\ Once(toHost) BY DEF PasteInv, Flying
  <1>3. CASE /\ phase' = [phase EXCEPT ![u] = "sending"] /\ slots' = slots \cup {u}
             /\ toHost' = Append(toHost, Msg("begin", u, 0))
    <2>1. Msg("begin", u, 0) \in HostMsg BY DEF Msg, HostMsg
    <2>2. ~Has(toHost, Msg("begin", u, 0)) BY <1>1 DEF PasteInv, Unopened, Beginning
    <2>3. /\ toHost' \in Seq(HostMsg) /\ Once(toHost')
          /\ \A x : Has(toHost', x) <=> Has(toHost, x) \/ x = Msg("begin", u, 0)
      BY <1>2, <1>3, <2>1, <2>2, Appended DEF Typed
    <2>4. /\ \A v \in Uploads : Beginning(v)' <=> Beginning(v) \/ v = u
          /\ \A v \in Uploads, i \in Nat : Sent(v, i)' <=> Sent(v, i)
          /\ \A w \in Windows : Has(toHost', StreamMsg("stop", w)) <=> Has(toHost, StreamMsg("stop", w))
      BY <2>3, MsgFacts DEF Beginning, Sent
    <2>5. phase \in [Uploads -> {"new", "sending"} \cup Ended] /\ slots \subseteq Uploads
      BY <1>2 DEF Typed, TypeOK
    <2>6. phase' \in [Uploads -> {"new", "sending"} \cup Ended]
          /\ \A v \in Uploads : phase'[v] = IF v = u THEN "sending" ELSE phase[v]
      BY <1>3, <2>5
    <2>7. Held BY DEF PasteInv
    <2>8. \A v \in slots' : WindowOf[v] \in live' /\ phase'[v] # "new" /\ (v \in slots \/ Beginning(v)')
      BY <1>1, <1>3, <2>4, <2>5, <2>6, <2>7 DEF Held
    <2>9. \A v \in Uploads : phase'[v] = "sending" => v \in slots' /\ (phase[v] = "sending" \/ phase[v] = "new")
      BY <1>1, <1>3, <2>6, <2>7 DEF Held, Sending
    <2> QED BY <1>1, <1>3, <2>3, <2>4, <2>5, <2>6, <2>8, <2>9, WindowKeeps
  <1>4. CASE phase' = [phase EXCEPT ![u] = "refused"] /\ UNCHANGED <<slots, toHost>>
    <2>1. phase \in [Uploads -> {"new", "sending"} \cup Ended] /\ slots \subseteq Uploads
      BY <1>2 DEF Typed, TypeOK
    <2>2. phase' \in [Uploads -> {"new", "sending"} \cup Ended]
          /\ \A v \in Uploads : phase'[v] = IF v = u THEN "refused" ELSE phase[v]
      BY <1>4, <2>1 DEF Ended
    <2>3. Held BY DEF PasteInv
    <2>4. UNCHANGED toHost BY <1>4
    <2> QED BY <1>1, <1>2, <1>4, <2>1, <2>2, <2>3, <2>4, WindowKeeps DEF Held, Sending, Typed, Beginning, Sent
  <1> QED BY <1>3, <1>4 DEF Begin

(* A window may end what it sends at any time, and tells nobody. *)
LEMMA GivingUpHolds ==
  ASSUME PasteInv, NEW u \in Uploads, NEW R \in SUBSET reading,
         phase' = [phase EXCEPT ![u] = IF Sending(u) THEN "given_up" ELSE @], reading' = reading \ R,
         \A s \in R : s[1] = u, UNCHANGED <<relay, toHost, toRelay, connector>>
  PROVE  PasteInv'
  <1>1. Typed /\ Once(toHost) /\ Held BY DEF PasteInv, Flying
  <1>2. phase \in [Uploads -> {"new", "sending"} \cup Ended] /\ slots \subseteq Uploads
    BY <1>1 DEF Typed, TypeOK
  <1>3. phase' \in [Uploads -> {"new", "sending"} \cup Ended]
        /\ \A v \in Uploads : phase'[v] = IF v = u /\ phase[u] = "sending" THEN "given_up" ELSE phase[v]
    BY <1>2 DEF Ended, Sending
  <1>4. UNCHANGED <<live, slots, requested, toHost>> BY DEF relay
  <1>5. \A v \in Uploads, i \in Nat : phase'[v] = "sending" /\ <<v, i>> \in reading \cap requested =>
           <<v, i>> \in reading' \cap requested'
    BY <1>3, <1>4
  <1> QED BY <1>1, <1>2, <1>3, <1>4, <1>5, WindowKeeps DEF Held, Sending, Typed, Beginning, Sent

(* A slice read is sent if the relay still waits for it; a bad image fails. *)
LEMMA ReadDoneHolds ==
  ASSUME PasteInv, NEW u \in Uploads, NEW i \in Slices(u), ReadDone(u, i)
  PROVE  PasteInv'
  <1>1. /\ <<u, i>> \in reading /\ reading' = reading \ {<<u, i>>}
        /\ UNCHANGED <<live, toRelay, connector>>
    BY DEF ReadDone
  <1>2. Typed /\ Once(toHost) /\ Held BY DEF PasteInv, Flying
  <1>3. /\ phase \in [Uploads -> {"new", "sending"} \cup Ended] /\ slots \subseteq Uploads
        /\ toHost \in Seq(HostMsg) /\ i \in Nat
    BY <1>2 DEF Typed, TypeOK, Slices
  <1>4. CASE (~Sending(u) \/ u \notin slots \/ <<u, i>> \notin requested)
             /\ UNCHANGED <<phase, slots, requested, toHost>>
    <2>1. UNCHANGED <<phase, slots, requested, toHost>> BY <1>4
    <2>2. \A v \in Uploads, j \in Nat : phase'[v] = "sending" /\ <<v, j>> \in reading \cap requested =>
           <<v, j>> \in reading' \cap requested'
      BY <1>1, <1>2, <1>4, <2>1 DEF Held, Sending
    <2> QED BY <1>1, <1>2, <1>3, <2>1, <2>2, WindowKeeps DEF Held, Sending, Beginning, Sent
  <1>5. CASE /\ Sending(u) /\ Settle({u}) /\ Abort(WindowOf[u], "failed") /\ UNCHANGED toHost
    <2>1. UNCHANGED toHost BY <1>5
    <2>2. /\ slots' = slots \ {u} /\ requested' = {s \in requested : s[1] \notin {u}}
          /\ phase' \in [Uploads -> {"new", "sending"} \cup Ended]
          /\ \A v \in Uploads : phase'[v] = IF WindowOf[v] = WindowOf[u] /\ phase[v] = "sending"
                                            THEN "failed" ELSE phase[v]
      BY <1>3, <1>5 DEF Settle, Abort, Sending, Ended
    <2>3. \A v \in Uploads, j \in Nat : phase'[v] = "sending" /\ <<v, j>> \in reading \cap requested =>
           <<v, j>> \in reading' \cap requested'
      BY <1>1, <2>2
    <2> QED BY <1>1, <1>2, <1>3, <2>1, <2>2, <2>3, WindowKeeps DEF Held, Sending, Beginning, Sent
  <1>6. CASE /\ requested' = requested \ {<<u, i>>}
             /\ toHost' = Append(toHost, Msg("chunk", u, i))
             /\ UNCHANGED <<phase, slots>>
    <2>1. Msg("chunk", u, i) \in HostMsg BY <1>3 DEF Msg, HostMsg
    <2>2. ~Has(toHost, Msg("chunk", u, i)) BY <1>1, <1>3 DEF PasteInv, Flying, Sent
    <2>3. /\ toHost' \in Seq(HostMsg) /\ Once(toHost')
          /\ \A x : Has(toHost', x) <=> Has(toHost, x) \/ x = Msg("chunk", u, i)
      BY <1>2, <1>3, <1>6, <2>1, <2>2, Appended
    <2>4. /\ \A v \in Uploads : Beginning(v)' <=> Beginning(v)
          /\ \A v \in Uploads, j \in Nat : Sent(v, j)' <=> Sent(v, j) \/ (v = u /\ j = i)
          /\ \A w \in Windows : Has(toHost', StreamMsg("stop", w)) <=> Has(toHost, StreamMsg("stop", w))
      BY <2>3, MsgFacts DEF Beginning, Sent
    <2>5. \A v \in Uploads, j \in Nat : <<v, j>> \in reading /\ <<v, j>> # <<u, i>> => <<v, j>> \in reading'
      BY <1>1
    <2>6. \A v \in Uploads, j \in Nat : phase'[v] = "sending" /\ <<v, j>> \in reading \cap requested =>
           <<v, j>> \in reading' \cap requested' \/ Sent(v, j)'
      BY <1>1, <1>6, <2>4
    <2>7. \A v \in Uploads, j \in Nat : Sent(v, j)' =>
           Sent(v, j) \/ (<<v, j>> \in reading /\ <<v, j>> \notin reading')
      BY <1>1, <2>4
    <2> QED BY <1>1, <1>2, <1>3, <1>6, <2>3, <2>4, <2>6, <2>7, WindowKeeps DEF Held, Sending
  <1> QED BY <1>4, <1>5, <1>6 DEF ReadDone

(* A window that closes takes its slots along and stops its stream. *)
LEMMA WindowGoneHolds ==
  ASSUME PasteInv, NEW w \in Windows, WindowGone(w)
  PROVE  PasteInv'
  <1>1. /\ live' = live \ {w} /\ Settle(Of(w)) /\ Abort(w, "aborted")
        /\ toHost' = Append(toHost, StreamMsg("stop", w)) /\ UNCHANGED <<reading, toRelay, connector>>
    BY DEF WindowGone, Release
  <1>2. Typed /\ Once(toHost) /\ Held BY DEF PasteInv, Flying
  <1>3. /\ phase \in [Uploads -> {"new", "sending"} \cup Ended] /\ slots \subseteq Uploads
        /\ toHost \in Seq(HostMsg) /\ requested \subseteq AllSlices
    BY <1>2 DEF Typed, TypeOK
  <1>4. StreamMsg("stop", w) \in HostMsg /\ StreamMsg("stop", w).type \notin Counted
    BY DEF StreamMsg, HostMsg, Counted
  <1>5. /\ toHost' \in Seq(HostMsg) /\ Once(toHost')
        /\ \A x : Has(toHost', x) <=> Has(toHost, x) \/ x = StreamMsg("stop", w)
    BY <1>1, <1>2, <1>3, <1>4, Appended
  <1>6. /\ \A v \in Uploads : Beginning(v)' <=> Beginning(v)
        /\ \A v \in Uploads, j \in Nat : Sent(v, j)' <=> Sent(v, j)
        /\ \A y \in Windows : Has(toHost', StreamMsg("stop", y)) <=> Has(toHost, StreamMsg("stop", y)) \/ y = w
    BY <1>5, MsgFacts DEF Beginning, Sent
  <1>7. /\ slots' = slots \ Of(w) /\ requested' = {s \in requested : s[1] \notin Of(w)}
        /\ phase' \in [Uploads -> {"new", "sending"} \cup Ended]
        /\ \A v \in Uploads : phase'[v] = IF WindowOf[v] = w /\ phase[v] = "sending" THEN "aborted" ELSE phase[v]
    BY <1>1, <1>3 DEF Settle, Abort, Sending, Ended
  <1>8. \A v \in Uploads, j \in Nat : phase'[v] = "sending" /\ <<v, j>> \in reading \cap requested =>
           <<v, j>> \in reading' \cap requested'
    BY <1>1, <1>7 DEF Of
  <1>9. \A v \in slots' : WindowOf[v] \in live' /\ phase'[v] # "new" /\ v \in slots
    BY <1>1, <1>2, <1>3, <1>7 DEF Of, Held
  <1>10. \A v \in Uploads : phase'[v] = "sending" => v \in slots' /\ phase[v] = "sending"
    BY <1>2, <1>7 DEF Of, Held, Sending
  <1> QED BY <1>1, <1>2, <1>3, <1>5, <1>6, <1>7, <1>8, <1>9, <1>10, WindowKeeps DEF Held, Sending

-----------------------------------------------------------------------------
(* What the relay and the window hear: m, the first of the messages on their way. *)

(* The connector is left alone, so that slots, phases and reads matter. *)
LEMMA RelayKeeps ==
  ASSUME PasteInv, toRelay # <<>>, toRelay' = Tail(toRelay), UNCHANGED <<toHost, connector>>,
         NEW m, m = Head(toRelay),
         phase' \in [Uploads -> {"new", "sending"} \cup Ended],
         \A u \in Uploads : phase'[u] = "new" <=> phase[u] = "new",
         \A u \in Uploads : phase'[u] = "saved" => phase[u] = "saved" \/ m = Msg("ready", u, 0),
         \A u \in Uploads : phase'[u] = "sending" => phase[u] = "sending" /\ u \in slots',
         live' \subseteq live, slots' \subseteq slots,
         \A u \in slots' : WindowOf[u] \in live' /\ m # Msg("ready", u, 0) /\ m # Msg("error", u, 0),
         reading' \subseteq AllSlices, requested' \subseteq AllSlices,
         \A u \in Uploads, i \in Nat : <<u, i>> \in reading' =>
           <<u, i>> \in reading \/ m = Msg("request", u, i),
         \A u \in Uploads, i \in Nat :
           phase'[u] = "sending" /\ (<<u, i>> \in reading \cap requested \/ m = Msg("request", u, i)) =>
             <<u, i>> \in reading' \cap requested'
  PROVE  PasteInv'
  <1> USE DEF connector
  <1>0. toRelay \in Seq(RelayMsg) /\ Once(toRelay) BY DEF PasteInv, Typed, Flying
  <1>1. /\ toRelay' \in Seq(RelayMsg) /\ Once(toRelay')
        /\ \A x : Has(toRelay, x) <=> x = m \/ Has(toRelay', x)
        /\ m.type \in Counted => ~Has(toRelay', m)
    BY <1>0, Taken
  <1>2. /\ \A u \in Uploads, i \in Nat :
             /\ Asked(u, i) <=> m = Msg("request", u, i) \/ Asked(u, i)'
             /\ m = Msg("request", u, i) => ~Asked(u, i)'
        /\ \A u \in Uploads : /\ Done(u) <=> m = Msg("ready", u, 0) \/ Done(u)'
                              /\ Failing(u) <=> m = Msg("error", u, 0) \/ Failing(u)'
                              /\ Beginning(u)' <=> Beginning(u)
                              /\ \A i \in Nat : Sent(u, i)' <=> Sent(u, i)
    BY <1>1, MsgFacts DEF Asked, Done, Failing, Beginning, Sent, Counted
  <1>3. Typed' BY <1>1 DEF PasteInv, Typed, TypeOK
  <1>4. \A u \in Uploads : Unbegun(u)' <=> Unbegun(u) BY <1>2 DEF Unbegun
  <1>5. Unopened' BY <1>2, <1>4 DEF PasteInv, Unopened
  <1>6. Held'
    <2>1. slots \subseteq Uploads BY DEF PasteInv, Typed, TypeOK
    <2>2. \A u \in slots' : Beginning(u)' \/ u \in uploads \/ Done(u)' \/ Failing(u)'
      BY <1>2, <2>1 DEF PasteInv, Held
    <2>3. \A u \in slots' : phase'[u] # "new" BY <2>1 DEF PasteInv, Held
    <2>4. \A w \in Windows : Has(toHost', StreamMsg("stop", w)) => w \notin live'
      BY DEF PasteInv, Held
    <2> QED BY <2>2, <2>3, <2>4 DEF Held, Sending
  <1>7. Progress' BY DEF PasteInv, Progress
  <1>8. Flying'
    <2> SUFFICES ASSUME NEW u \in Uploads, NEW i \in Nat
                 PROVE  /\ Asked(u, i)' \/ <<u, i>> \in reading' \/ Sent(u, i)' => i \in pending[u]
                        /\ ~(Asked(u, i)' /\ <<u, i>> \in reading')
                        /\ ~(Asked(u, i)' /\ Sent(u, i)')
                        /\ ~(<<u, i>> \in reading' /\ Sent(u, i)')
      BY <1>1 DEF Flying, PasteInv
    <2> QED BY <1>2 DEF PasteInv, Flying
  <1>9. Pulled'
    <2> SUFFICES ASSUME NEW u \in uploads, phase'[u] = "sending", NEW i \in pending[u]
                 PROVE  Asked(u, i)' \/ <<u, i>> \in reading' \cap requested' \/ Sent(u, i)'
      BY DEF Pulled, Sending
    <2>1. u \in Uploads /\ i \in Nat BY DEF PasteInv, Typed, TypeOK
    <2>2. Asked(u, i) \/ <<u, i>> \in reading \cap requested \/ Sent(u, i)
      BY <2>1 DEF PasteInv, Pulled, Sending
    <2> QED BY <1>2, <2>1, <2>2
  <1>10. Whole'
    <2> SUFFICES ASSUME NEW u \in Uploads, phase'[u] = "saved" \/ Done(u)'
                 PROVE  u \notin uploads /\ ~Unbegun(u)' /\ file[u] = Slices(u)
      BY DEF Whole
    <2> QED BY <1>2, <1>4 DEF PasteInv, Whole
  <1> QED BY <1>3, <1>5, <1>6, <1>7, <1>8, <1>9, <1>10 DEF PasteInv

(* Requests, the two ends of an upload, and the two of a stream. *)
LEMMA RelayReceiveHolds ==
  ASSUME PasteInv, RelayReceive
  PROVE  PasteInv'
  <1> DEFINE m == Head(toRelay)
  <1>1. toRelay # <<>> /\ toRelay' = Tail(toRelay) /\ UNCHANGED <<toHost, connector>> BY DEF RelayReceive
  <1>2. Typed /\ Held BY DEF PasteInv
  <1>3. /\ phase \in [Uploads -> {"new", "sending"} \cup Ended] /\ slots \subseteq Uploads
        /\ requested \subseteq AllSlices /\ reading \subseteq AllSlices
        /\ toRelay \in Seq(RelayMsg)
    BY <1>2 DEF Typed, TypeOK
  <1>4. m \in RelayMsg /\ Has(toRelay, m) BY <1>1, <1>3, Taken
  <1>5. /\ \A u \in slots : WindowOf[u] \in live /\ phase[u] # "new"
        /\ \A u \in Uploads : phase[u] = "sending" => u \in slots
    BY <1>2 DEF Held, Sending
  <1>a. ASSUME NEW u \in Uploads, NEW i \in Nat, m = Msg("request", u, i), ForwardRequest(u, i)
        PROVE  PasteInv'
    <2>1. i \in pending[u] BY <1>4, <1>a DEF PasteInv, Flying, Asked
    <2>2. i \in Slices(u) BY <1>2, <2>1 DEF Typed, TypeOK
    <2>3. <<u, i>> \in AllSlices BY <2>2 DEF AllSlices
    <2>4. /\ requested' = IF u \in slots THEN requested \cup {<<u, i>>} ELSE requested
          /\ reading' = IF u \in slots /\ phase[u] = "sending" THEN reading \cup {<<u, i>>} ELSE reading
          /\ UNCHANGED <<phase, live, slots>>
      BY <1>a DEF ForwardRequest, Sending
    <2>5. \A v \in Uploads, j \in Nat : (m = Msg("request", v, j) <=> v = u /\ j = i)
          /\ m # Msg("ready", v, 0) /\ m # Msg("error", v, 0)
      BY <1>a, MsgFacts
    <2>6. reading' \subseteq AllSlices /\ requested' \subseteq AllSlices BY <1>3, <2>3, <2>4
    <2>7. \A v \in Uploads, j \in Nat : <<v, j>> \in reading' => <<v, j>> \in reading \/ (v = u /\ j = i)
      BY <2>4
    <2>8. \A v \in Uploads, j \in Nat :
           phase'[v] = "sending" /\ (<<v, j>> \in reading \cap requested \/ (v = u /\ j = i)) =>
             <<v, j>> \in reading' \cap requested'
      BY <1>5, <2>4
    <2> HIDE DEF m
    <2> QED BY <1>1, <1>3, <1>5, <2>4, <2>5, <2>6, <2>7, <2>8, RelayKeeps DEF m
  <1>b. ASSUME NEW u \in Uploads, m = Msg("ready", u, 0), ForwardReady(u)
        PROVE  PasteInv'
    <2>1. \A v \in Uploads, j \in Nat : (m = Msg("ready", v, 0) <=> v = u)
          /\ m # Msg("request", v, j) /\ m # Msg("error", v, 0)
      BY <1>b, MsgFacts
    <2>2. /\ UNCHANGED <<reading, live>>
          /\ slots' = slots \ {u} /\ requested' \subseteq requested
          /\ \A s \in requested : s[1] # u => s \in requested'
          /\ phase' \in [Uploads -> {"new", "sending"} \cup Ended]
          /\ \A v \in Uploads : phase'[v] = IF v = u /\ phase[u] = "sending" THEN "saved" ELSE phase[v]
      <3>1. CASE WindowOf[u] \in live
        BY <1>3, <1>b, <3>1 DEF ForwardReady, Settle, Sending, Ended
      <3>2. CASE WindowOf[u] \notin live
        BY <1>3, <1>5, <1>b, <3>2 DEF ForwardReady
      <3> QED BY <3>1, <3>2
    <2>3. \A v \in Uploads, j \in Nat : phase'[v] = "sending" /\ <<v, j>> \in reading \cap requested =>
             <<v, j>> \in reading' \cap requested'
      BY <2>2
    <2> HIDE DEF m
    <2> QED BY <1>1, <1>3, <1>5, <2>1, <2>2, <2>3, RelayKeeps DEF m
  <1>c. ASSUME NEW u \in Uploads, m = Msg("error", u, 0), ForwardError(u)
        PROVE  PasteInv'
    <2>1. \A v \in Uploads, j \in Nat : (m = Msg("error", v, 0) <=> v = u)
          /\ m # Msg("request", v, j) /\ m # Msg("ready", v, 0)
      BY <1>c, MsgFacts
    <2>2. /\ UNCHANGED <<reading, live>>
          /\ slots' = slots \ {u} /\ requested' \subseteq requested
          /\ \A s \in requested : s[1] # u => s \in requested'
          /\ phase' \in [Uploads -> {"new", "sending"} \cup Ended]
          /\ \A v \in Uploads : phase'[v] = IF WindowOf[v] = WindowOf[u] /\ phase[v] = "sending"
                                            THEN "failed" ELSE phase[v]
      <3>1. CASE WindowOf[u] \in live
        BY <1>3, <1>c, <3>1 DEF ForwardError, Settle, Abort, Sending, Ended
      <3>2. CASE WindowOf[u] \notin live
        BY <1>3, <1>5, <1>c, <3>2 DEF ForwardError
      <3> QED BY <3>1, <3>2
    <2>3. \A v \in Uploads, j \in Nat : phase'[v] = "sending" /\ <<v, j>> \in reading \cap requested =>
             <<v, j>> \in reading' \cap requested'
      BY <2>2
    <2>4. \A v \in Uploads : phase'[v] = "sending" => phase[v] = "sending" /\ v \in slots'
      BY <1>5, <2>2
    <2>5. \A v \in Uploads : (phase'[v] = "new" <=> phase[v] = "new") /\ (phase'[v] = "saved" => phase[v] = "saved")
      BY <2>2
    <2> HIDE DEF m
    <2> QED BY <1>1, <1>3, <1>5, <2>1, <2>2, <2>3, <2>4, <2>5, RelayKeeps DEF m
  <1>d. ASSUME NEW w \in Windows, NEW type \in {"exit", "start_failed"}, m = StreamMsg(type, w),
               (type = "exit" /\ ForwardExit(w)) \/ (type = "start_failed" /\ ForwardStartFailed(w))
        PROVE  PasteInv'
    <2>1. \A v \in Uploads, j \in Nat : m # Msg("error", v, 0) /\ m # Msg("request", v, j) /\ m # Msg("ready", v, 0)
      BY <1>d, MsgFacts
    <2>2. /\ reading' = reading /\ live' \subseteq live /\ slots' \subseteq slots /\ requested' \subseteq requested
          /\ \A v \in slots' : WindowOf[v] \in live'
          /\ \A v \in slots : WindowOf[v] # w => v \in slots'
          /\ \A s \in requested : s[1] \in Uploads /\ WindowOf[s[1]] # w => s \in requested'
          /\ phase' \in [Uploads -> {"new", "sending"} \cup Ended]
          /\ \/ /\ phase' = phase /\ slots' = slots /\ requested' = requested
             \/ \A v \in Uploads : phase'[v] = IF WindowOf[v] = w /\ phase[v] = "sending"
                                            THEN phase'[v] ELSE phase[v]
          /\ \A v \in Uploads : phase'[v] = phase[v] \/ (phase[v] = "sending" /\ phase'[v] \in {"failed", "aborted"})
          /\ \A v \in Uploads : WindowOf[v] = w /\ phase'[v] = "sending" => slots' = slots /\ requested' = requested
      <3>1. CASE type = "exit" /\ w \in live
        BY <1>3, <1>5, <1>d, <3>1 DEF ForwardExit, Release, Settle, Abort, Sending, Ended, Of
      <3>2. CASE type = "start_failed" /\ w \in live
        BY <1>3, <1>5, <1>d, <3>2 DEF ForwardStartFailed, Abort, Sending, Ended
      <3>3. CASE w \notin live
        BY <1>3, <1>5, <1>d, <3>3 DEF ForwardStartFailed, ForwardExit
      <3> QED BY <1>d, <3>1, <3>2, <3>3
    <2>3. \A v \in Uploads, j \in Nat : phase'[v] = "sending" /\ <<v, j>> \in reading \cap requested =>
             <<v, j>> \in reading' \cap requested'
      BY <2>2
    <2>4. \A v \in Uploads : phase'[v] = "sending" => phase[v] = "sending" /\ v \in slots'
      BY <1>5, <2>2
    <2>5. \A v \in Uploads : (phase'[v] = "new" <=> phase[v] = "new") /\ (phase'[v] = "saved" => phase[v] = "saved")
      BY <2>2
    <2> HIDE DEF m
    <2> QED BY <1>1, <1>3, <2>1, <2>2, <2>3, <2>4, <2>5, RelayKeeps DEF m
  <1>6. /\ m.type = "request" => m.upload \in Uploads /\ m.index \in Nat /\ m = Msg("request", m.upload, m.index)
        /\ m.type = "ready" => m.upload \in Uploads /\ m = Msg("ready", m.upload, 0)
        /\ m.type = "error" => m.upload \in Uploads /\ m = Msg("error", m.upload, 0)
        /\ m.type \in {"exit", "start_failed"} => m.stream \in Windows /\ m = StreamMsg(m.type, m.stream)
    BY <1>4 DEF RelayMsg, Msg, StreamMsg
  <1>7. \/ m.type = "request" /\ ForwardRequest(m.upload, m.index)
        \/ m.type = "ready" /\ ForwardReady(m.upload)
        \/ m.type = "error" /\ ForwardError(m.upload)
        \/ m.type = "exit" /\ ForwardExit(m.stream)
        \/ m.type = "start_failed" /\ ForwardStartFailed(m.stream)
    BY DEF RelayReceive
  <1> HIDE DEF m
  <1> QED BY <1>6, <1>7, <1>a, <1>b, <1>c, <1>d

-----------------------------------------------------------------------------
(* The connector's steps. *)

(* What is no longer on its way once the connector has taken m. *)
LEMMA HostTakes ==
  ASSUME PasteInv, toHost # <<>>, toHost' = Tail(toHost), NEW m, m = Head(toHost)
  PROVE  /\ m \in HostMsg /\ Has(toHost, m) /\ toHost' \in Seq(HostMsg) /\ Once(toHost')
         /\ \A u \in Uploads : /\ Beginning(u) <=> m = Msg("begin", u, 0) \/ Beginning(u)'
                               /\ m = Msg("begin", u, 0) => ~Beginning(u)'
                               /\ Unbegun(u)' /\ UNCHANGED phase => Unbegun(u)
         /\ \A u \in Uploads, i \in Nat : /\ Sent(u, i) <=> m = Msg("chunk", u, i) \/ Sent(u, i)'
                                          /\ m = Msg("chunk", u, i) => ~Sent(u, i)'
         /\ \A w \in Windows : Has(toHost', StreamMsg("stop", w)) => Has(toHost, StreamMsg("stop", w))
  <1>1. toHost \in Seq(HostMsg) /\ Once(toHost) BY DEF PasteInv, Typed, Flying
  <1>2. /\ m \in HostMsg /\ toHost' \in Seq(HostMsg) /\ Once(toHost')
        /\ \A x : Has(toHost, x) <=> x = m \/ Has(toHost', x)
        /\ m.type \in Counted => ~Has(toHost', m)
    BY <1>1, Taken
  <1> QED BY <1>2, MsgFacts DEF Beginning, Sent, Counted, Unbegun

(* What a sweep aborts is finite, and is the connector's. *)
LEMMA SweepFacts ==
  ASSUME PasteInv, NEW S \in SUBSET Idle
  PROVE  S \in SUBSET Uploads /\ S \subseteq uploads /\ IsFiniteSet(S) /\ Cardinality(S) \in Nat
         /\ \A u \in S : ~Sending(u)
  <1>1. S \subseteq uploads /\ \A u \in S : ~Sending(u) BY DEF Idle
  <1>2. uploads \subseteq Uploads /\ IsFiniteSet(uploads) BY DEF PasteInv, Typed, TypeOK, Progress
  <1>3. IsFiniteSet(S) BY <1>1, <1>2, FS_Subset
  <1> QED BY <1>1, <1>2, <1>3, FS_CardinalityType

(* Uploads D end at the connector, and the relay hears of each that has a slot. *)
LEMMA HostEnds ==
  ASSUME PasteInv, toHost # <<>>, toHost' = Tail(toHost), NEW m, m = Head(toHost),
         UNCHANGED <<window, relay, pending, nextToRequest, received>>, ptys' \subseteq Windows,
         NEW D \in SUBSET uploads, NEW E \in SUBSET Uploads, NEW r \in Seq(RelayMsg),
         uploads' = uploads \ D, Discard(D), toRelay' = toRelay \o r,
         Once(r), \A x : Has(r, x) <=> \E v \in E : x = Msg("error", v, 0),
         \A v \in D : v \in E \/ v \notin slots,
         \A v \in Uploads : m = Msg("begin", v, 0) => v \in E,
         \A v \in Uploads, i \in Nat : m = Msg("chunk", v, i) => v \notin uploads'
  PROVE  PasteInv'
  <1> USE DEF window, relay
  <1>1. /\ m \in HostMsg /\ Has(toHost, m) /\ toHost' \in Seq(HostMsg) /\ Once(toHost')
        /\ \A u \in Uploads : /\ Beginning(u) <=> m = Msg("begin", u, 0) \/ Beginning(u)'
                              /\ Unbegun(u)' => Unbegun(u)
        /\ \A u \in Uploads, i \in Nat : Sent(u, i) <=> m = Msg("chunk", u, i) \/ Sent(u, i)'
        /\ \A w \in Windows : Has(toHost', StreamMsg("stop", w)) => Has(toHost, StreamMsg("stop", w))
    BY HostTakes
  <1>2. toRelay \in Seq(RelayMsg) /\ Once(toRelay) BY DEF PasteInv, Typed, Flying
  <1>3. \A x : Has(r, x) => x.type \notin Counted BY MsgFacts DEF Counted
  <1>4. /\ toRelay' \in Seq(RelayMsg) /\ Once(toRelay')
        /\ \A x : Has(toRelay', x) <=> Has(toRelay, x) \/ Has(r, x)
    BY <1>2, <1>3, Joined
  <1>5. /\ \A u \in Uploads, i \in Nat : Asked(u, i)' <=> Asked(u, i)
        /\ \A u \in Uploads : (Done(u)' <=> Done(u)) /\ (Failing(u)' <=> Failing(u) \/ u \in E)
    <2>1. \A u, i : ~Has(r, Msg("request", u, i)) /\ ~Has(r, Msg("ready", u, i)) BY MsgFacts
    <2>2. \A u : Has(r, Msg("error", u, 0)) <=> u \in E BY MsgFacts
    <2> QED BY <1>4, <2>1, <2>2 DEF Asked, Done, Failing
  <1>6. /\ uploads \subseteq Uploads /\ slots \subseteq Uploads /\ file \in [Uploads -> SUBSET Nat]
        /\ pending \in [Uploads -> SUBSET Nat] /\ IsFiniteSet(uploads)
    BY DEF PasteInv, Typed, TypeOK, Progress
  <1>7. file' \in [Uploads -> SUBSET Nat] /\ \A u \in Uploads : file'[u] = IF u \in D THEN {} ELSE file[u]
    BY <1>6 DEF Discard
  <1>8. Typed' BY <1>1, <1>4, <1>7 DEF PasteInv, Typed, TypeOK
  <1>9. Unopened' BY <1>1, <1>7 DEF PasteInv, Unopened
  <1>10. Held'
    <2>1. \A u \in slots : Beginning(u)' \/ u \in uploads' \/ Done(u)' \/ Failing(u)'
      BY <1>1, <1>5, <1>6 DEF PasteInv, Held
    <2>2. Held BY DEF PasteInv
    <2> QED BY <1>1, <2>1, <2>2 DEF Held, Sending
  <1>11. Progress'
    <2>1. IsFiniteSet(uploads') BY <1>6, FS_Subset
    <2> QED BY <1>6, <1>7, <2>1 DEF PasteInv, Progress
  <1>12. Flying'
    <2> SUFFICES ASSUME NEW u \in Uploads, NEW i \in Nat
                 PROVE  /\ Asked(u, i)' \/ <<u, i>> \in reading' \/ Sent(u, i)' => i \in pending[u]
                        /\ ~(Asked(u, i)' /\ <<u, i>> \in reading')
                        /\ ~(Asked(u, i)' /\ Sent(u, i)')
                        /\ ~(<<u, i>> \in reading' /\ Sent(u, i)')
      BY <1>1, <1>4 DEF Flying
    <2> QED BY <1>1, <1>5 DEF PasteInv, Flying
  <1>13. Pulled'
    <2> SUFFICES ASSUME NEW u \in uploads', phase[u] = "sending", NEW i \in pending[u]
                 PROVE  Asked(u, i)' \/ <<u, i>> \in reading \cap requested \/ Sent(u, i)'
      BY DEF Pulled, Sending
    <2>1. u \in Uploads /\ u \in uploads /\ i \in Nat BY <1>6
    <2> QED BY <1>1, <1>5, <2>1 DEF PasteInv, Pulled, Sending
  <1>14. Whole' BY <1>1, <1>5, <1>7 DEF PasteInv, Whole
  <1> QED BY <1>8, <1>9, <1>10, <1>11, <1>12, <1>13, <1>14 DEF PasteInv

(* What it is asked for first. *)
LEMMA FirstWanted ==
  ASSUME NEW u \in Uploads, NEW W, W = Wanted(u, {}, 0)
  PROVE  /\ W \subseteq Slices(u) /\ IsFiniteSet(W) /\ Cardinality(W) \in Nat
         /\ W = 0 .. Cardinality(W) - 1
         /\ Cardinality(W) <= Chunks[u] /\ Cardinality(W) <= PASTE_UPLOAD_WINDOW /\ W # {}
  <1>1. IsFiniteSet({}) /\ Cardinality({}) = 0 BY FS_EmptySet
  <1>2. Chunks[u] \in Nat \ {0} /\ PASTE_UPLOAD_WINDOW \in Nat BY UploadAssumption, LimitAssumption
  <1>3. W \subseteq Slices(u) BY DEF Wanted
  <1>4. 0 \in Nat /\ 0 <= Chunks[u] /\ 0 <= PASTE_UPLOAD_WINDOW BY <1>2
  <1>5. /\ IsFiniteSet(W) /\ Cardinality(W) \in Nat
        /\ W = 0 .. 0 + Cardinality(W) - 1 /\ 0 + Cardinality(W) <= Chunks[u]
        /\ Cardinality({}) + Cardinality(W) <= PASTE_UPLOAD_WINDOW
        /\ {} = {} /\ 0 < Chunks[u] => W # {}
    BY <1>1, <1>4, WantedFacts
  <1> QED BY <1>1, <1>2, <1>3, <1>5

\* q holds the errors of uploads D; the requests for slices W of u; none of the latter.
AllErrors(q, D) == q \in Seq(RelayMsg) /\ Once(q) /\ \A x : Has(q, x) <=> \E v \in D : x = Msg("error", v, 0)
AllRequests(q, u, W) ==
  q \in Seq(RelayMsg) /\ Once(q) /\ \A x : Has(q, x) <=> \E i \in W : x = Msg("request", u, i)
\* t tells the relay of both besides what q does.
Tells(t, q, D, u, W) ==
  /\ t \in Seq(RelayMsg) /\ Once(t)
  /\ \A v, i : Has(t, Msg("request", v, i)) <=>
       Has(q, Msg("request", v, i)) \/ (v = u /\ i \in W)
  /\ \A v : /\ Has(t, Msg("ready", v, 0)) <=> Has(q, Msg("ready", v, 0))
            /\ Has(t, Msg("error", v, 0)) <=> Has(q, Msg("error", v, 0)) \/ v \in D
NotAsked(q, u, W) == \A i \in W : ~Has(q, Msg("request", u, i))

(* The errors of a sweep, then requests for slices nobody was asked for. *)
LEMMA Told ==
  ASSUME NEW q \in Seq(RelayMsg), Once(q),
         NEW es, NEW D, AllErrors(es, D), NEW rs, NEW u, NEW W, AllRequests(rs, u, W), NotAsked(q, u, W),
         NEW t, t = (q \o es) \o rs
  PROVE  Tells(t, q, D, u, W)
  <1> USE DEF AllErrors, AllRequests, NotAsked, Tells
  <1>4. \A x : Has(es, x) => x.type \notin Counted BY MsgFacts DEF Counted
  <1>5. /\ q \o es \in Seq(RelayMsg) /\ Once(q \o es)
        /\ \A x : Has(q \o es, x) <=> Has(q, x) \/ Has(es, x)
    BY <1>4, Joined
  <1>6. \A x : Has(q \o es, x) /\ Has(rs, x) => x.type \notin Counted BY <1>4, <1>5, MsgFacts
  <1>7. /\ t \in Seq(RelayMsg) /\ Once(t)
        /\ \A x : Has(t, x) <=> Has(q, x) \/ Has(es, x) \/ Has(rs, x)
    <2> DEFINE qe == q \o es
    <2>1. qe \in Seq(RelayMsg) /\ Once(qe) /\ rs \in Seq(RelayMsg) /\ Once(rs) /\ t = qe \o rs
          /\ \A x : Has(qe, x) /\ Has(rs, x) => x.type \notin Counted
      BY <1>5, <1>6
    <2>2. \A x : Has(qe, x) <=> Has(q, x) \/ Has(es, x) BY <1>5
    <2> HIDE DEF qe
    <2>3. qe \o rs \in Seq(RelayMsg) /\ Once(qe \o rs) /\ \A x : Has(qe \o rs, x) <=> Has(qe, x) \/ Has(rs, x)
      BY <2>1, Joined
    <2> QED BY <2>1, <2>2, <2>3
  <1>8. \A v, i : /\ ~Has(es, Msg("request", v, i)) /\ ~Has(es, Msg("ready", v, i))
                  /\ ~Has(rs, Msg("error", v, i)) /\ ~Has(rs, Msg("ready", v, i))
                  /\ Has(rs, Msg("request", v, i)) <=> v = u /\ i \in W
    <2>1. ASSUME NEW v, NEW i PROVE ~Has(es, Msg("request", v, i)) /\ ~Has(es, Msg("ready", v, i))
      <3>1. \A w : Msg("error", w, 0) # Msg("request", v, i) /\ Msg("error", w, 0) # Msg("ready", v, i)
        BY ONLY MsgFacts
      <3> QED BY <3>1
    <2>2. ASSUME NEW v, NEW i PROVE ~Has(rs, Msg("error", v, i)) /\ ~Has(rs, Msg("ready", v, i))
      <3>1. \A j : Msg("request", u, j) # Msg("error", v, i) /\ Msg("request", u, j) # Msg("ready", v, i)
        BY ONLY MsgFacts
      <3> QED BY <3>1
    <2>3. ASSUME NEW v, NEW i PROVE Has(rs, Msg("request", v, i)) <=> v = u /\ i \in W
      <3>1. \A j : Msg("request", v, i) = Msg("request", u, j) <=> v = u /\ i = j BY MsgFacts
      <3> QED BY <3>1
    <2> QED BY <2>1, <2>2, <2>3
  <1>9. \A v : Has(es, Msg("error", v, 0)) <=> v \in D BY MsgFacts
  <1> QED BY <1>7, <1>8, <1>9

(* The connector begins an upload and asks for its first slices. *)
LEMMA HostStarts ==
  ASSUME PasteInv, toHost # <<>>, toHost' = Tail(toHost), UNCHANGED <<window, relay, ptys, received>>,
         NEW u \in Uploads, Head(toHost) = Msg("begin", u, 0),
         NEW D \in SUBSET Idle, NEW errors \in [1 .. Cardinality(D) -> D], Swept(D, errors),
         NEW W, W = Wanted(u, {}, 0),
         uploads' = (uploads \ D) \cup {u}, Discard(D),
         pending' = [pending EXCEPT ![u] = W],
         nextToRequest' = [nextToRequest EXCEPT ![u] = Cardinality(W)],
         toRelay' = toRelay \o ErrorsOf(errors) \o Requests(u, 0, Cardinality(W))
  PROVE  PasteInv'
  <1> USE DEF window, relay
  <1>1. /\ toHost' \in Seq(HostMsg) /\ Once(toHost')
        /\ Beginning(u) /\ ~Beginning(u)'
        /\ \A v \in Uploads : (v # u => (Beginning(v) <=> Beginning(v)')) /\ (Unbegun(v)' => Unbegun(v))
        /\ \A v \in Uploads, i \in Nat : Sent(v, i) <=> Sent(v, i)'
        /\ \A w \in Windows : Has(toHost', StreamMsg("stop", w)) => Has(toHost, StreamMsg("stop", w))
    BY HostTakes, MsgFacts
  <1>2. Unbegun(u) /\ ~Unbegun(u)' BY <1>1 DEF PasteInv, Unopened, Unbegun
  <1>3. u \notin uploads /\ file[u] = {} /\ received[u] = 0 /\ pending[u] = {}
    BY <1>2 DEF PasteInv, Unopened
  <1>4. /\ D \in SUBSET Uploads /\ D \subseteq uploads /\ IsFiniteSet(D) /\ Cardinality(D) \in Nat
        /\ \A v \in D : ~Sending(v)
    BY SweepFacts
  <1>5. /\ W \subseteq Slices(u) /\ IsFiniteSet(W) /\ Cardinality(W) \in Nat /\ W = 0 .. Cardinality(W) - 1
        /\ Cardinality(W) <= Chunks[u] /\ Cardinality(W) <= PASTE_UPLOAD_WINDOW /\ W # {}
    BY FirstWanted
  <1>8. toRelay \in Seq(RelayMsg) /\ Once(toRelay) BY DEF PasteInv, Typed, Flying
  <1>10. W \subseteq Nat BY <1>5 DEF Slices
  <1>12. \A i \in W : ~Asked(u, i) BY <1>3, <1>10 DEF PasteInv, Flying
  <1>14. /\ toRelay' \in Seq(RelayMsg) /\ Once(toRelay')
         /\ \A v, i : Has(toRelay', Msg("request", v, i)) <=>
              Has(toRelay, Msg("request", v, i)) \/ (v = u /\ i \in W)
         /\ \A v : /\ Has(toRelay', Msg("ready", v, 0)) <=> Has(toRelay, Msg("ready", v, 0))
                   /\ Has(toRelay', Msg("error", v, 0)) <=> Has(toRelay, Msg("error", v, 0)) \/ v \in D
    <2>1. W = 0 .. 0 + Cardinality(W) - 1 BY <1>5
    <2>2. \A i \in W : ~Has(toRelay, Msg("request", u, i)) BY <1>12 DEF Asked
    <2>3. 0 \in Nat /\ Cardinality(W) \in Nat /\ D \in SUBSET Uploads /\ Cardinality(D) \in Nat BY <1>4, <1>5
    <2> DEFINE es == ErrorsOf(errors)
               rs == Requests(u, 0, Cardinality(W))
               t == toRelay'
    <2>4. /\ es \in Seq(RelayMsg) /\ Once(es) /\ \A x : Has(es, x) <=> \E v \in D : x = Msg("error", v, 0)
      BY <2>3, ErrorsFacts
    <2>5. /\ rs \in Seq(RelayMsg) /\ Once(rs) /\ \A x : Has(rs, x) <=> \E i \in W : x = Msg("request", u, i)
      <3>1. /\ rs \in Seq(RelayMsg) /\ Once(rs)
            /\ \A x : Has(rs, x) <=> \E i \in 0 .. 0 + Cardinality(W) - 1 : x = Msg("request", u, i)
        BY <2>3, RequestsFacts
      <3> HIDE DEF rs
      <3> QED BY <2>1, <3>1
    <2>6. t = (toRelay \o es) \o rs OBVIOUS
    <2> HIDE DEF es, rs, t
    <2>7. Tells(t, toRelay, D, u, W)
      <3>1. AllErrors(es, D) /\ AllRequests(rs, u, W) /\ NotAsked(toRelay, u, W)
        BY <2>2, <2>4, <2>5 DEF AllErrors, AllRequests, NotAsked
      <3> QED BY <1>8, <2>6, <3>1, Told
    <2> QED BY <2>7 DEF t, Tells
  <1>15. /\ \A v \in Uploads, i \in Nat : Asked(v, i)' <=> Asked(v, i) \/ (v = u /\ i \in W)
         /\ \A v \in Uploads : (Done(v)' <=> Done(v)) /\ (Failing(v)' <=> Failing(v) \/ v \in D)
    BY <1>14 DEF Asked, Done, Failing
  <1>16. /\ uploads \subseteq Uploads /\ slots \subseteq Uploads /\ file \in [Uploads -> SUBSET Nat]
         /\ pending \in [Uploads -> SUBSET Nat] /\ nextToRequest \in [Uploads -> Nat]
         /\ received \in [Uploads -> Nat] /\ IsFiniteSet(uploads)
    BY DEF PasteInv, Typed, TypeOK, Progress
  <1>17. /\ file' \in [Uploads -> SUBSET Nat] /\ \A v \in Uploads : file'[v] = IF v \in D THEN {} ELSE file[v]
         /\ pending' \in [Uploads -> SUBSET Nat] /\ nextToRequest' \in [Uploads -> Nat]
         /\ \A v \in Uploads : pending'[v] = IF v = u THEN W ELSE pending[v]
         /\ \A v \in Uploads : nextToRequest'[v] = IF v = u THEN Cardinality(W) ELSE nextToRequest[v]
    BY <1>5, <1>10, <1>16 DEF Discard
  <1>18. Typed'
    <2>1. \A v \in Uploads : /\ pending'[v] \cup file'[v] \subseteq Slices(v)
                             /\ nextToRequest'[v] <= Chunks[v]
      BY <1>5, <1>17 DEF PasteInv, Typed, TypeOK
    <2>2. uploads' \subseteq Uploads BY <1>16
    <2> QED BY <1>1, <1>14, <1>17, <2>1, <2>2 DEF PasteInv, Typed, TypeOK
  <1>19. Unopened'
    <2> SUFFICES ASSUME NEW v \in Uploads
                 PROVE  /\ phase[v] = "new" => ~Beginning(v)'
                        /\ Unbegun(v)' => v \notin uploads' /\ file'[v] = {} /\ received[v] = 0 /\ pending'[v] = {}
      BY DEF Unopened
    <2>1. phase[v] = "new" => ~Beginning(v)' BY <1>1 DEF PasteInv, Unopened
    <2>2. Unbegun(v)' => v # u /\ Unbegun(v) BY <1>1, <1>2
    <2> QED BY <1>17, <2>1, <2>2 DEF PasteInv, Unopened
  <1>20. Held'
    <2>1. \A v \in slots : Beginning(v)' \/ v \in uploads' \/ Done(v)' \/ Failing(v)'
      BY <1>1, <1>15, <1>16 DEF PasteInv, Held
    <2>2. Held BY DEF PasteInv
    <2> QED BY <1>1, <2>1, <2>2 DEF Held, Sending
  <1>21. Progress'
    <2>1. IsFiniteSet(uploads')
      <3>1. IsFiniteSet(uploads \ D) BY <1>16, FS_Subset
      <3>2. IsFiniteSet({u}) BY FS_Singleton
      <3> QED BY <3>1, <3>2, FS_Union
    <2>2. received[u] = Cardinality(file'[u]) BY <1>3, <1>4, <1>17, FS_EmptySet
    <2>3. /\ pending'[u] # {} /\ pending'[u] \cap file'[u] = {}
          /\ pending'[u] \cup file'[u] = 0 .. nextToRequest'[u] - 1
          /\ Cardinality(pending'[u]) <= PASTE_UPLOAD_WINDOW
      BY <1>3, <1>5, <1>17
    <2>4. \A v \in Uploads : Cardinality(pending'[v]) <= PASTE_UPLOAD_WINDOW
      BY <1>17, <2>3 DEF PasteInv, Progress
    <2>5. ASSUME NEW v \in uploads', v # u
          PROVE  /\ pending'[v] # {} /\ pending'[v] \cap file'[v] = {}
                 /\ pending'[v] \cup file'[v] = 0 .. nextToRequest'[v] - 1
                 /\ received[v] = Cardinality(file'[v])
      <3>1. v \in uploads /\ v \notin D /\ v \in Uploads BY <1>16, <2>5
      <3>2. file'[v] = file[v] /\ pending'[v] = pending[v] /\ nextToRequest'[v] = nextToRequest[v]
        BY <1>17, <2>5, <3>1
      <3> QED BY <3>1, <3>2 DEF PasteInv, Progress
    <2>6. received' = received OBVIOUS
    <2> QED BY <2>1, <2>2, <2>3, <2>4, <2>5, <2>6 DEF Progress
  <1>22. Flying'
    <2> SUFFICES ASSUME NEW v \in Uploads, NEW i \in Nat
                 PROVE  /\ Asked(v, i)' \/ <<v, i>> \in reading' \/ Sent(v, i)' => i \in pending'[v]
                        /\ ~(Asked(v, i)' /\ <<v, i>> \in reading')
                        /\ ~(Asked(v, i)' /\ Sent(v, i)')
                        /\ ~(<<v, i>> \in reading' /\ Sent(v, i)')
      BY <1>1, <1>14 DEF Flying
    <2>1. CASE v = u BY <1>1, <1>3, <1>15, <1>17, <2>1 DEF PasteInv, Flying
    <2>2. CASE v # u BY <1>1, <1>15, <1>17, <2>2 DEF PasteInv, Flying
    <2> QED BY <2>1, <2>2
  <1>23. Pulled'
    <2> SUFFICES ASSUME NEW v \in uploads', phase[v] = "sending", NEW i \in pending'[v]
                 PROVE  Asked(v, i)' \/ <<v, i>> \in reading \cap requested \/ Sent(v, i)'
      BY DEF Pulled, Sending
    <2>1. CASE v = u BY <1>10, <1>15, <1>17, <2>1
    <2>2. CASE v # u
      <3>1. v \in uploads /\ v \in Uploads /\ i \in pending[v] /\ i \in Nat BY <1>16, <1>17, <2>2
      <3> QED BY <1>1, <1>15, <3>1 DEF PasteInv, Pulled, Sending
    <2> QED BY <2>1, <2>2
  <1>24. Whole'
    <2> SUFFICES ASSUME NEW v \in Uploads, phase[v] = "saved" \/ Done(v)'
                 PROVE  v \notin uploads' /\ ~Unbegun(v)' /\ file'[v] = Slices(v)
      BY DEF Whole
    <2>1. v \notin uploads /\ ~Unbegun(v) /\ file[v] = Slices(v) BY <1>15 DEF PasteInv, Whole
    <2> QED BY <1>1, <1>2, <1>4, <1>17, <2>1
  <1> QED BY <1>18, <1>19, <1>20, <1>21, <1>22, <1>23, <1>24 DEF PasteInv

(* The slices on disk are as many as were received, so the last one makes the file whole. *)
LEMMA SliceCounts ==
  ASSUME PasteInv, NEW u \in uploads, NEW i \in pending[u]
  PROVE  /\ i \in Slices(u) /\ i \notin file[u] /\ file[u] \subseteq Slices(u)
         /\ IsFiniteSet(file[u] \cup {i}) /\ Cardinality(file[u] \cup {i}) = received[u] + 1
         /\ received[u] + 1 = Chunks[u] => file[u] \cup {i} = Slices(u)
         /\ received[u] + 1 <= Chunks[u]
         /\ pending[u] = {i} /\ received[u] + 1 # Chunks[u] => nextToRequest[u] < Chunks[u]
         /\ IsFiniteSet(pending[u] \ {i}) /\ Cardinality(pending[u] \ {i}) <= PASTE_UPLOAD_WINDOW
  <1>1. u \in Uploads /\ Chunks[u] \in Nat /\ nextToRequest[u] \in Nat /\ nextToRequest[u] <= Chunks[u]
        /\ pending[u] \cup file[u] \subseteq Slices(u)
    BY UploadAssumption DEF PasteInv, Typed, TypeOK
  <1>2. /\ pending[u] \cap file[u] = {} /\ pending[u] \cup file[u] = 0 .. nextToRequest[u] - 1
        /\ received[u] = Cardinality(file[u]) /\ Cardinality(pending[u]) <= PASTE_UPLOAD_WINDOW
    BY <1>1 DEF PasteInv, Progress
  <1>3. IsFiniteSet(Slices(u)) /\ Cardinality(Slices(u)) = Chunks[u]
    <2>1. Chunks[u] - 1 \in Int /\ 0 \in Int BY <1>1
    <2>2. IsFiniteSet(0 .. Chunks[u] - 1)
          /\ Cardinality(0 .. Chunks[u] - 1) = IF 0 > Chunks[u] - 1 THEN 0 ELSE (Chunks[u] - 1) - 0 + 1
      BY <2>1, FS_Interval
    <2> QED BY <1>1, <2>2 DEF Slices
  <1>4. i \in Slices(u) /\ i \notin file[u] /\ file[u] \subseteq Slices(u) BY <1>1, <1>2
  <1>5. IsFiniteSet(file[u]) /\ IsFiniteSet(pending[u]) BY <1>1, <1>3, FS_Subset
  <1>6. IsFiniteSet(file[u] \cup {i}) /\ Cardinality(file[u] \cup {i}) = Cardinality(file[u]) + 1
    BY <1>4, <1>5, FS_AddElement
  <1>7. file[u] \cup {i} \subseteq Slices(u) BY <1>4
  <1>8. Cardinality(file[u] \cup {i}) <= Chunks[u] BY <1>3, <1>7, FS_Subset
  <1>9. received[u] + 1 = Chunks[u] => file[u] \cup {i} = Slices(u)
    BY <1>2, <1>3, <1>6, <1>7, FS_Subset
  <1>10. ASSUME pending[u] = {i}, received[u] + 1 # Chunks[u] PROVE nextToRequest[u] < Chunks[u]
    <2>1. file[u] \cup {i} = 0 .. nextToRequest[u] - 1 BY <1>2, <1>10
    <2> DEFINE n == nextToRequest[u]
    <2>2. n - 1 \in Int /\ 0 \in Int /\ n \in Nat BY <1>1
    <2>3. Cardinality(file[u] \cup {i}) = Cardinality(0 .. n - 1) BY <2>1
    <2> HIDE DEF n
    <2>4. Cardinality(0 .. n - 1) = IF 0 > n - 1 THEN 0 ELSE (n - 1) - 0 + 1 BY <2>2, FS_Interval
    <2>5. Cardinality(0 .. n - 1) = n BY <2>2, <2>4
    <2>6. n <= Chunks[u] /\ n # Chunks[u] BY <1>1, <1>2, <1>6, <1>10, <2>3, <2>5 DEF n
    <2> QED BY <1>1, <2>2, <2>6 DEF n
  <1>11. IsFiniteSet(pending[u] \ {i}) /\ Cardinality(pending[u] \ {i}) <= PASTE_UPLOAD_WINDOW
    <2>1. IsFiniteSet(pending[u] \ {i}) /\ Cardinality(pending[u] \ {i}) <= Cardinality(pending[u])
      BY <1>5, FS_Subset
    <2>2. Cardinality(pending[u] \ {i}) \in Nat /\ Cardinality(pending[u]) \in Nat BY <1>5, <2>1, FS_CardinalityType
    <2> QED BY <1>2, <2>1, <2>2, LimitAssumption
  <1> QED BY <1>2, <1>4, <1>6, <1>8, <1>9, <1>10, <1>11

(* What the write of a slice leaves alone, whether or not it was the last one. *)
LEMMA WriteKeeps ==
  ASSUME PasteInv, toHost # <<>>, toHost' = Tail(toHost), UNCHANGED <<window, relay, ptys>>,
         NEW u \in Uploads, NEW i \in Nat, Head(toHost) = Msg("chunk", u, i),
         NEW D \in SUBSET Idle, u \in uploads \ D, i \in pending[u],
         file' = [v \in Uploads |-> IF v \in D THEN {} ELSE IF v = u THEN file[u] \cup {i} ELSE file[v]],
         received' = [received EXCEPT ![u] = @ + 1],
         NEW W \in SUBSET Slices(u), W = {} \/ W = nextToRequest[u] .. nextToRequest[u] + Cardinality(W) - 1,
         Cardinality(W) \in Nat, nextToRequest[u] + Cardinality(W) <= Chunks[u],
         pending' = [pending EXCEPT ![u] = (pending[u] \ {i}) \cup W],
         nextToRequest' = [nextToRequest EXCEPT ![u] = nextToRequest[u] + Cardinality(W)],
         \/ uploads' = uploads \ D
         \/ uploads' = uploads \ (D \cup {u}) /\ Done(u)' /\ file[u] \cup {i} = Slices(u),
         u \in uploads' => (pending[u] \ {i}) \cup W # {},
         IsFiniteSet(W), Cardinality(pending[u] \ {i}) + Cardinality(W) <= PASTE_UPLOAD_WINDOW,
         toRelay' \in Seq(RelayMsg), Once(toRelay'),
         \A v \in Uploads, j \in Nat : Asked(v, j)' <=> Asked(v, j) \/ (v = u /\ j \in W),
         \A v \in Uploads : Done(v)' => Done(v) \/ (v = u /\ u \notin uploads'),
         \A v \in Uploads : Done(v) => Done(v)',
         \A v \in Uploads : Failing(v)' <=> Failing(v) \/ v \in D
  PROVE  PasteInv'
  <1> USE DEF window, relay
  <1>1. /\ toHost' \in Seq(HostMsg) /\ Once(toHost')
        /\ \A v \in Uploads : (Beginning(v) <=> Beginning(v)') /\ (Unbegun(v)' => Unbegun(v))
        /\ \A v \in Uploads, j \in Nat : Sent(v, j) <=> (v = u /\ j = i) \/ Sent(v, j)'
        /\ ~Sent(u, i)'
        /\ \A w \in Windows : Has(toHost', StreamMsg("stop", w)) => Has(toHost, StreamMsg("stop", w))
    <2> DEFINE m == Head(toHost)
    <2>1. /\ \A v \in Uploads : m # Msg("begin", v, 0)
          /\ \A v \in Uploads, j \in Nat : m = Msg("chunk", v, j) <=> v = u /\ j = i
      BY MsgFacts
    <2>2. m = Head(toHost) OBVIOUS
    <2> HIDE DEF m
    <2> QED BY <2>1, <2>2, HostTakes
  <1>2. /\ D \in SUBSET Uploads /\ D \subseteq uploads /\ IsFiniteSet(D) /\ \A v \in D : ~Sending(v)
    BY SweepFacts
  <1>3. u \in uploads /\ u \notin D OBVIOUS
  <1>4. /\ i \in Slices(u) /\ i \notin file[u] /\ file[u] \subseteq Slices(u)
        /\ IsFiniteSet(file[u] \cup {i}) /\ Cardinality(file[u] \cup {i}) = received[u] + 1
        /\ received[u] + 1 <= Chunks[u]
        /\ IsFiniteSet(pending[u] \ {i})
    BY <1>3, SliceCounts
  <1>5. /\ uploads \subseteq Uploads /\ slots \subseteq Uploads /\ file \in [Uploads -> SUBSET Nat]
        /\ pending \in [Uploads -> SUBSET Nat] /\ nextToRequest \in [Uploads -> Nat]
        /\ received \in [Uploads -> Nat] /\ IsFiniteSet(uploads)
        /\ \A v \in Uploads : /\ pending[v] \cup file[v] \subseteq Slices(v)
                              /\ nextToRequest[v] <= Chunks[v] /\ received[v] <= Chunks[v]
    BY DEF PasteInv, Typed, TypeOK, Progress
  <1>6. /\ file' \in [Uploads -> SUBSET Nat]
        /\ \A v \in Uploads : file'[v] = IF v \in D THEN {} ELSE IF v = u THEN file[u] \cup {i} ELSE file[v]
        /\ pending' \in [Uploads -> SUBSET Nat]
        /\ \A v \in Uploads : pending'[v] = IF v = u THEN (pending[u] \ {i}) \cup W ELSE pending[v]
    <2>1. W \subseteq Nat BY DEF Slices
    <2>2. pending[u] \in SUBSET Nat BY <1>5
    <2>3. (pending[u] \ {i}) \cup W \in SUBSET Nat BY <2>1, <2>2
    <2>4. file[u] \cup {i} \in SUBSET Nat BY <1>5
    <2> QED BY <1>5, <2>3, <2>4
  <1>7. /\ nextToRequest' \in [Uploads -> Nat]
        /\ \A v \in Uploads : nextToRequest'[v] = IF v = u THEN nextToRequest[u] + Cardinality(W) ELSE nextToRequest[v]
        /\ received' \in [Uploads -> Nat]
        /\ \A v \in Uploads : received'[v] = IF v = u THEN received[u] + 1 ELSE received[v]
    BY <1>5
  <1>8. /\ uploads' \subseteq uploads
        /\ uploads' = uploads \ D \/ u \notin uploads'
        /\ \A v \in uploads : v \in D \/ v = u \/ v \in uploads'
        /\ \A v \in uploads' : v \notin D
    OBVIOUS
  <1>9. ~Unbegun(u) BY <1>3 DEF PasteInv, Unopened
  <1>10. Typed'
    <2>1. \A v \in Uploads : /\ pending'[v] \cup file'[v] \subseteq Slices(v)
                             /\ nextToRequest'[v] <= Chunks[v] /\ received'[v] <= Chunks[v]
      BY <1>4, <1>5, <1>6, <1>7
    <2>2. uploads' \subseteq Uploads BY <1>5, <1>8
    <2> QED BY <1>1, <1>6, <1>7, <2>1, <2>2 DEF PasteInv, Typed, TypeOK
  <1>11. Unopened'
    <2> SUFFICES ASSUME NEW v \in Uploads
                 PROVE  /\ phase[v] = "new" => ~Beginning(v)'
                        /\ Unbegun(v)' => v \notin uploads' /\ file'[v] = {} /\ received'[v] = 0 /\ pending'[v] = {}
      BY DEF Unopened
    <2>1. phase[v] = "new" => ~Beginning(v)' BY <1>1 DEF PasteInv, Unopened
    <2>2. Unbegun(v)' => v # u /\ Unbegun(v) BY <1>1, <1>9
    <2>3. Unbegun(v) => v \notin uploads /\ file[v] = {} /\ received[v] = 0 /\ pending[v] = {}
      BY DEF PasteInv, Unopened
    <2> QED BY <1>6, <1>7, <1>8, <2>1, <2>2, <2>3
  <1>12. Held'
    <2>1. \A v \in slots : Beginning(v)' \/ v \in uploads' \/ Done(v)' \/ Failing(v)'
      <3> SUFFICES ASSUME NEW v \in slots PROVE Beginning(v)' \/ v \in uploads' \/ Done(v)' \/ Failing(v)'
        OBVIOUS
      <3>1. v \in Uploads /\ (Beginning(v) \/ v \in uploads \/ Done(v) \/ Failing(v))
        BY <1>5 DEF PasteInv, Held
      <3>2. u \in uploads' \/ Done(u)' BY <1>3
      <3> QED BY <1>1, <1>8, <3>1, <3>2
    <2>2. Held BY DEF PasteInv
    <2> QED BY <1>1, <2>1, <2>2 DEF Held, Sending
  <1>13. Progress'
    <2>1. IsFiniteSet(uploads') BY <1>5, <1>8, FS_Subset
    <2>2. Cardinality(pending'[u]) <= PASTE_UPLOAD_WINDOW
      <3> DEFINE P == pending[u] \ {i}
      <3>1. IsFiniteSet(P) BY <1>4
      <3>2. IsFiniteSet(P \cap W) BY <3>1, FS_Subset
      <3> HIDE DEF P
      <3>3. Cardinality(P) \in Nat /\ Cardinality(P \cap W) \in Nat BY <3>1, <3>2, FS_CardinalityType
      <3>4. Cardinality(P \cup W) = Cardinality(P) + Cardinality(W) - Cardinality(P \cap W)
        BY <3>1, FS_Union
      <3>5. pending'[u] = P \cup W /\ Cardinality(P) + Cardinality(W) <= PASTE_UPLOAD_WINDOW BY <1>6 DEF P
      <3>6. Cardinality(P \cup W) <= PASTE_UPLOAD_WINDOW
        <4>1. PASTE_UPLOAD_WINDOW \in Nat BY LimitAssumption
        <4> DEFINE a == Cardinality(P)
                   b == Cardinality(W)
                   c == Cardinality(P \cap W)
        <4>2. a \in Nat /\ b \in Nat /\ c \in Nat /\ a + b <= PASTE_UPLOAD_WINDOW BY <3>3, <3>5
        <4>3. Cardinality(P \cup W) = a + b - c BY <3>4
        <4> HIDE DEF a, b, c
        <4> QED BY ONLY <4>1, <4>2, <4>3
      <3> QED BY <3>5, <3>6
    <2>3. \A v \in Uploads : Cardinality(pending'[v]) <= PASTE_UPLOAD_WINDOW
      BY <1>6, <2>2 DEF PasteInv, Progress
    <2>4. ASSUME u \in uploads'
          PROVE  /\ pending'[u] # {} /\ pending'[u] \cap file'[u] = {}
                 /\ pending'[u] \cup file'[u] = 0 .. nextToRequest'[u] - 1
                 /\ received'[u] = Cardinality(file'[u])
      <3> DEFINE n == nextToRequest[u]
                 c == Cardinality(W)
      <3>1. pending[u] \cap file[u] = {} /\ pending[u] \cup file[u] = 0 .. n - 1
        BY <1>3 DEF PasteInv, Progress
      <3>2. pending'[u] = (pending[u] \ {i}) \cup W /\ file'[u] = file[u] \cup {i} /\ nextToRequest'[u] = n + c
            /\ received'[u] = received[u] + 1
        BY <1>3, <1>6, <1>7
      <3>3. pending'[u] \cup file'[u] = (0 .. n - 1) \cup W BY <3>1, <3>2
      <3>4. n \in Nat /\ c \in Nat BY <1>5
      <3>5. W = n .. n + c - 1
        <4>1. CASE W = {}
          <5>1. c = 0 BY <4>1, FS_EmptySet
          <5> HIDE DEF n
          <5> QED BY <3>4, <4>1, <5>1
        <4> QED BY <4>1
      <3> HIDE DEF n, c
      <3>6. (0 .. n - 1) \cup W = 0 .. (n + c) - 1 BY <3>4, <3>5
      <3>7. W \cap (0 .. n - 1) = {} BY <3>4, <3>5
      <3>8. pending'[u] \cap file'[u] = {} BY <1>4, <3>1, <3>2, <3>7
      <3> QED BY <1>4, <2>4, <3>2, <3>3, <3>6, <3>8
    <2>5. ASSUME NEW v \in uploads', v # u
          PROVE  /\ pending'[v] # {} /\ pending'[v] \cap file'[v] = {}
                 /\ pending'[v] \cup file'[v] = 0 .. nextToRequest'[v] - 1
                 /\ received'[v] = Cardinality(file'[v])
      <3>1. v \in uploads /\ v \notin D /\ v \in Uploads BY <1>5, <1>8, <2>5
      <3>2. file'[v] = file[v] /\ pending'[v] = pending[v] /\ nextToRequest'[v] = nextToRequest[v]
            /\ received'[v] = received[v]
        BY <1>6, <1>7, <2>5, <3>1
      <3> QED BY <3>1, <3>2 DEF PasteInv, Progress
    <2> QED BY <2>1, <2>3, <2>4, <2>5 DEF Progress
  <1>14. \A v \in Uploads, j \in Nat : j \in pending'[v] <=> (j \in pending[v] /\ ~(v = u /\ j = i)) \/ (v = u /\ j \in W)
    <2> SUFFICES ASSUME NEW v \in Uploads, NEW j \in Nat
                 PROVE  j \in pending'[v] <=> (j \in pending[v] /\ ~(v = u /\ j = i)) \/ (v = u /\ j \in W)
      OBVIOUS
    <2>1. CASE v = u
      <3>1. pending'[u] = (pending[u] \ {i}) \cup W BY <1>6
      <3> QED BY <2>1, <3>1
    <2>2. CASE v # u BY <1>6, <2>2
    <2> QED BY <2>1, <2>2
  <1>15. \A j \in W : j \in Nat /\ j \notin pending[u] /\ j # i
    <2>1. pending[u] \subseteq 0 .. nextToRequest[u] - 1 BY <1>3 DEF PasteInv, Progress
    <2>2. nextToRequest[u] \in Nat BY <1>5
    <2>3. \A j \in W : j \in nextToRequest[u] .. nextToRequest[u] + Cardinality(W) - 1 OBVIOUS
    <2> QED BY <2>1, <2>2, <2>3
  <1>16. Flying'
    <2> SUFFICES ASSUME NEW v \in Uploads, NEW j \in Nat
                 PROVE  /\ Asked(v, j)' \/ <<v, j>> \in reading' \/ Sent(v, j)' => j \in pending'[v]
                        /\ ~(Asked(v, j)' /\ <<v, j>> \in reading')
                        /\ ~(Asked(v, j)' /\ Sent(v, j)')
                        /\ ~(<<v, j>> \in reading' /\ Sent(v, j)')
      BY <1>1 DEF Flying
    <2>1. /\ Asked(v, j) \/ <<v, j>> \in reading \/ Sent(v, j) => j \in pending[v]
          /\ ~(Asked(v, j) /\ <<v, j>> \in reading)
          /\ ~(Asked(v, j) /\ Sent(v, j))
          /\ ~(<<v, j>> \in reading /\ Sent(v, j))
      BY DEF PasteInv, Flying
    <2>2. Asked(v, j)' <=> Asked(v, j) \/ (v = u /\ j \in W) OBVIOUS
    <2> QED BY <1>1, <1>14, <1>15, <2>1, <2>2
  <1>17. Pulled'
    <2> SUFFICES ASSUME NEW v \in uploads', phase[v] = "sending", NEW j \in pending'[v]
                 PROVE  Asked(v, j)' \/ <<v, j>> \in reading \cap requested \/ Sent(v, j)'
      BY DEF Pulled, Sending
    <2>1. v \in Uploads /\ j \in Nat /\ v \in uploads BY <1>5, <1>6, <1>8
    <2>2. CASE v = u /\ j \in W BY <2>1, <2>2
    <2>3. CASE j \in pending[v] /\ ~(v = u /\ j = i)
      <3>1. Asked(v, j) \/ <<v, j>> \in reading \cap requested \/ Sent(v, j)
        BY <2>1, <2>3 DEF PasteInv, Pulled, Sending
      <3> QED BY <1>1, <2>1, <2>3, <3>1
    <2> QED BY <1>14, <2>1, <2>2, <2>3
  <1>18. Whole'
    <2> SUFFICES ASSUME NEW v \in Uploads, phase[v] = "saved" \/ Done(v)'
                 PROVE  v \notin uploads' /\ ~Unbegun(v)' /\ file'[v] = Slices(v)
      BY DEF Whole
    <2>1. CASE phase[v] = "saved" \/ Done(v)
      <3>1. v \notin uploads /\ ~Unbegun(v) /\ file[v] = Slices(v) BY <2>1 DEF PasteInv, Whole
      <3> QED BY <1>1, <1>2, <1>3, <1>6, <1>8, <3>1
    <2>2. CASE v = u /\ u \notin uploads' BY <1>1, <1>3, <1>6, <1>9, <2>2
    <2> QED BY <2>1, <2>2
  <1> QED BY <1>10, <1>11, <1>12, <1>13, <1>16, <1>17, <1>18 DEF PasteInv

(* A slice that arrives is written, and the pull it answers is replaced. *)
LEMMA WriteSliceHolds ==
  ASSUME PasteInv, toHost # <<>>, toHost' = Tail(toHost), UNCHANGED <<window, relay>>,
         NEW u \in Uploads, NEW i \in Nat, Head(toHost) = Msg("chunk", u, i),
         NEW D \in SUBSET Idle, NEW errors \in [1 .. Cardinality(D) -> D], Swept(D, errors),
         u \in uploads \ D, i \in pending[u], WriteSlice(u, i, D, errors)
  PROVE  PasteInv'
  <1> DEFINE rest == pending[u] \ {i}
             W == Wanted(u, rest, nextToRequest[u])
             es == ErrorsOf(errors)
  <1>1. /\ file' = [v \in Uploads |-> IF v \in D THEN {} ELSE IF v = u THEN file[u] \cup {i} ELSE file[v]]
        /\ received' = [received EXCEPT ![u] = @ + 1] /\ UNCHANGED ptys
    BY DEF WriteSlice
  <1>2. /\ D \in SUBSET Uploads /\ D \subseteq uploads /\ IsFiniteSet(D) /\ Cardinality(D) \in Nat
    BY SweepFacts
  <1>3. es \in Seq(RelayMsg) /\ Once(es) /\ (\A x : Has(es, x) <=> \E v \in D : x = Msg("error", v, 0))
    BY <1>2, ErrorsFacts
  <1>4. toRelay \in Seq(RelayMsg) /\ Once(toRelay) BY DEF PasteInv, Typed, Flying
  <1>5. /\ pending \in [Uploads -> SUBSET Nat] /\ nextToRequest \in [Uploads -> Nat]
        /\ nextToRequest[u] <= Chunks[u] /\ Chunks[u] \in Nat
    BY UploadAssumption DEF PasteInv, Typed, TypeOK
  <1>6. /\ IsFiniteSet(rest) /\ Cardinality(rest) <= PASTE_UPLOAD_WINDOW
        /\ received[u] + 1 = Chunks[u] => file[u] \cup {i} = Slices(u)
        /\ pending[u] = {i} /\ received[u] + 1 # Chunks[u] => nextToRequest[u] < Chunks[u]
    BY SliceCounts
  <1>7. UNCHANGED <<window, relay, ptys>> BY <1>1
  <1>8. CASE Complete(u, i)
    <2>1. /\ uploads' = uploads \ (D \cup {u}) /\ pending' = [pending EXCEPT ![u] = rest]
          /\ toRelay' = toRelay \o es \o <<Msg("ready", u, 0)>> /\ UNCHANGED nextToRequest
      BY <1>8 DEF WriteSlice
    <2>2. received[u] + 1 = Chunks[u] BY <1>8 DEF Complete
    <2>3. file[u] \cup {i} = Slices(u) BY <1>6, <2>2
    <2> DEFINE V == {}
    <2>4. /\ V \in SUBSET Slices(u) /\ V = {} /\ Cardinality(V) = 0 /\ IsFiniteSet(V)
          /\ nextToRequest[u] + Cardinality(V) = nextToRequest[u]
      BY <1>5, FS_EmptySet
    <2>5. /\ pending' = [pending EXCEPT ![u] = (pending[u] \ {i}) \cup V]
          /\ nextToRequest' = [nextToRequest EXCEPT ![u] = nextToRequest[u] + Cardinality(V)]
      BY <1>5, <2>1, <2>4
    <2>6. Cardinality(pending[u] \ {i}) + Cardinality(V) <= PASTE_UPLOAD_WINDOW
      <3>1. Cardinality(rest) \in Nat BY <1>6, FS_CardinalityType
      <3> QED BY <1>6, <2>4, <3>1
    <2> DEFINE q == toRelay \o es
               ready == Msg("ready", u, 0)
    <2> HIDE DEF es
    <2>7. q \in Seq(RelayMsg) /\ Once(q) /\ \A x : Has(q, x) <=> Has(toRelay, x) \/ Has(es, x)
      <3>1. \A x : Has(es, x) => x.type \notin Counted BY <1>3, MsgFacts DEF Counted
      <3> QED BY <1>3, <1>4, <3>1, Joined
    <2>8. ready \in RelayMsg /\ ready.type \notin Counted BY DEF RelayMsg, Msg, Counted
    <2>9. toRelay' = Append(q, ready) BY <2>1, <2>7, <2>8
    <2> HIDE DEF q
    <2>10. /\ toRelay' \in Seq(RelayMsg) /\ Once(toRelay')
           /\ \A x : Has(toRelay', x) <=> Has(q, x) \/ x = ready
      BY <2>7, <2>8, <2>9, Appended
    <2>11. \A x : Has(toRelay', x) <=> Has(toRelay, x) \/ (\E v \in D : x = Msg("error", v, 0)) \/ x = Msg("ready", u, 0)
      BY <1>3, <2>7, <2>10
    <2>12. /\ \A v \in Uploads, j \in Nat : Asked(v, j)' <=> Asked(v, j)
           /\ \A v \in Uploads : Done(v)' <=> Done(v) \/ v = u
           /\ \A v \in Uploads : Failing(v)' <=> Failing(v) \/ v \in D
      <3>1. \A v \in Uploads, j \in Nat : Asked(v, j)' <=> Asked(v, j)
        <4>1. \A v, j, w : Msg("request", v, j) # Msg("error", w, 0) /\ Msg("request", v, j) # Msg("ready", u, 0)
          BY ONLY MsgFacts
        <4> QED BY <2>11, <4>1 DEF Asked
      <3>2. \A v \in Uploads : Done(v)' <=> Done(v) \/ v = u
        <4>1. \A v, w : Msg("ready", v, 0) # Msg("error", w, 0) /\ (Msg("ready", v, 0) = Msg("ready", u, 0) <=> v = u)
          BY ONLY MsgFacts
        <4> QED BY <2>11, <4>1 DEF Done
      <3>3. \A v \in Uploads : Failing(v)' <=> Failing(v) \/ v \in D
        <4>1. \A v, w : Msg("error", v, 0) # Msg("ready", w, 0) /\ (Msg("error", v, 0) = Msg("error", w, 0) <=> v = w)
          BY ONLY MsgFacts
        <4>2. \A v : (\E w \in D : Msg("error", v, 0) = Msg("error", w, 0)) <=> v \in D BY <4>1
        <4>3. \A v : Has(toRelay', Msg("error", v, 0)) <=> Has(toRelay, Msg("error", v, 0)) \/ v \in D
          BY <2>11, <4>1, <4>2
        <4> QED BY <4>3 DEF Failing
      <3> QED BY <3>1, <3>2, <3>3
    <2>13. /\ \A v \in Uploads, j \in Nat : Asked(v, j)' <=> Asked(v, j) \/ (v = u /\ j \in V)
           /\ u \notin uploads' /\ Done(u)'
           /\ nextToRequest[u] + Cardinality(V) <= Chunks[u] /\ Cardinality(V) \in Nat
      BY <1>5, <2>1, <2>4, <2>12
    <2> HIDE DEF V
    <2> QED BY <1>1, <1>7, <2>1, <2>3, <2>4, <2>5, <2>6, <2>10, <2>12, <2>13, WriteKeeps
  <1>9. CASE ~Complete(u, i)
    <2>1. /\ uploads' = uploads \ D /\ pending' = [pending EXCEPT ![u] = rest \cup W]
          /\ nextToRequest' = [nextToRequest EXCEPT ![u] = @ + Cardinality(W)]
          /\ toRelay' = toRelay \o es \o Requests(u, nextToRequest[u], Cardinality(W))
      BY <1>9 DEF WriteSlice
    <2>2. received[u] + 1 # Chunks[u] BY <1>9 DEF Complete
    <2> DEFINE n == nextToRequest[u]
    <2>3. /\ IsFiniteSet(W) /\ Cardinality(W) \in Nat
          /\ W = n .. n + Cardinality(W) - 1 /\ n + Cardinality(W) <= Chunks[u]
          /\ Cardinality(rest) + Cardinality(W) <= PASTE_UPLOAD_WINDOW
          /\ rest = {} /\ n < Chunks[u] => W # {}
      <3>1. n \in Nat BY <1>5
      <3> QED BY <1>5, <1>6, <3>1, WantedFacts
    <2>4. W \in SUBSET Slices(u) BY DEF Wanted
    <2>5. (pending[u] \ {i}) \cup W # {}
      <3>1. CASE rest = {}
        <4>1. pending[u] = {i} BY <3>1
        <4> QED BY <1>6, <2>2, <2>3, <3>1, <4>1
      <3> QED BY <3>1
    <2> HIDE DEF W
    <2>6. nextToRequest' = [nextToRequest EXCEPT ![u] = nextToRequest[u] + Cardinality(W)] BY <2>1
    <2> DEFINE rs == Requests(u, n, Cardinality(W))
               t == toRelay'
    <2>7. AllErrors(es, D) BY <1>3 DEF AllErrors
    <2>8. AllRequests(rs, u, W)
      <3>1. /\ rs \in Seq(RelayMsg) /\ Once(rs)
            /\ \A x : Has(rs, x) <=> \E j \in n .. n + Cardinality(W) - 1 : x = Msg("request", u, j)
        <4>1. n \in Nat /\ Cardinality(W) \in Nat BY <1>5, <2>3
        <4> HIDE DEF n
        <4> QED BY <4>1, RequestsFacts
      <3> HIDE DEF rs
      <3> QED BY <2>3, <3>1 DEF AllRequests
    <2>9. NotAsked(toRelay, u, W)
      <3>1. pending[u] \subseteq 0 .. n - 1 /\ n \in Nat BY <1>5 DEF PasteInv, Progress
      <3>2. \A j \in W : j \in Nat /\ j \notin pending[u] BY <2>3, <3>1
      <3> QED BY <3>2 DEF PasteInv, Flying, Asked, NotAsked
    <2>10. t = (toRelay \o es) \o rs BY <2>1
    <2> HIDE DEF es, rs, t
    <2>11. Tells(t, toRelay, D, u, W) BY <1>4, <2>7, <2>8, <2>9, <2>10, Told
    <2>12. /\ toRelay' \in Seq(RelayMsg) /\ Once(toRelay')
           /\ \A v \in Uploads, j \in Nat : Asked(v, j)' <=> Asked(v, j) \/ (v = u /\ j \in W)
           /\ \A v \in Uploads : (Done(v)' <=> Done(v)) /\ (Failing(v)' <=> Failing(v) \/ v \in D)
      BY <2>11 DEF t, Tells, Asked, Done, Failing
    <2>13. W = nextToRequest[u] .. nextToRequest[u] + Cardinality(W) - 1
           /\ nextToRequest[u] + Cardinality(W) <= Chunks[u]
           /\ Cardinality(pending[u] \ {i}) + Cardinality(W) <= PASTE_UPLOAD_WINDOW
      BY <2>3
    <2> HIDE DEF n
    <2> QED BY <1>1, <1>7, <2>1, <2>3, <2>4, <2>5, <2>6, <2>12, <2>13, WriteKeeps
  <1> QED BY <1>8, <1>9

(* The connector's handlers, with the sweep each of them begins with. *)
LEMMA HostReceiveHolds ==
  ASSUME PasteInv, HostReceive
  PROVE  PasteInv'
  <1> DEFINE m == Head(toHost)
  <1>1. toHost # <<>> /\ toHost' = Tail(toHost) /\ UNCHANGED <<window, relay>> BY DEF HostReceive
  <1>2. m \in HostMsg /\ Has(toHost, m)
    <2>1. m = Head(toHost) OBVIOUS
    <2> HIDE DEF m
    <2> QED BY <1>1, <2>1, HostTakes
  <1>3. ptys \subseteq Windows /\ uploads \subseteq Uploads /\ slots \subseteq Uploads /\ toRelay \in Seq(RelayMsg)
    BY DEF PasteInv, Typed, TypeOK
  <1>a. ASSUME NEW w \in Windows, m = StreamMsg("stop", w), HostStop(w)
        PROVE  PasteInv'
    <2> DEFINE D == uploads \cap Of(w)
               r == <<>>
    <2>1. /\ uploads' = uploads \ D /\ Discard(D) /\ ptys' \subseteq Windows
          /\ UNCHANGED <<pending, nextToRequest, received, toRelay>>
      BY <1>3, <1>a DEF HostStop
    <2>2. r \in Seq(RelayMsg) /\ Once(r) /\ (\A x : Has(r, x) <=> \E v \in {} : x = Msg("error", v, 0))
          /\ toRelay' = toRelay \o r
      BY <1>3, <2>1 DEF Once, Has
    <2>3. w \notin live BY <1>2, <1>a DEF PasteInv, Held
    <2>4. \A v \in D : v \notin slots BY <2>3 DEF PasteInv, Held, Of
    <2>5. \A v \in Uploads, j \in Nat : m # Msg("begin", v, 0) /\ m # Msg("chunk", v, j)
      BY <1>a, MsgFacts
    <2>6. m = Head(toHost) /\ D \in SUBSET uploads /\ {} \in SUBSET Uploads OBVIOUS
    <2>7. UNCHANGED <<window, relay, pending, nextToRequest, received>> BY <1>1, <2>1
    <2> HIDE DEF m, D, r
    <2> QED BY <1>1, <2>1, <2>2, <2>4, <2>5, <2>6, <2>7, HostEnds
  <1>b. ASSUME NEW D \in SUBSET Idle, NEW errors \in [1 .. Cardinality(D) -> D], Swept(D, errors),
               NEW u \in Uploads, m = Msg("begin", u, 0) \/ (\E i \in Nat : m = Msg("chunk", u, i)),
               NEW U, U = D \/ U = D \cup (uploads \cap {u}),
               uploads' = uploads \ U, Discard(U), UNCHANGED <<ptys, pending, nextToRequest, received>>,
               \/ /\ toRelay' = toRelay \o ErrorsOf(errors) \o <<Msg("error", u, 0)>>
               \/ /\ U = D /\ m # Msg("begin", u, 0)
                  /\ toRelay' = toRelay \o ErrorsOf(errors),
               m # Msg("begin", u, 0) => u \notin uploads'
        PROVE  PasteInv'
    <2> DEFINE es == ErrorsOf(errors)
               e == Msg("error", u, 0)
    <2>1. /\ D \in SUBSET Uploads /\ D \subseteq uploads /\ IsFiniteSet(D) /\ Cardinality(D) \in Nat
      BY <1>b, SweepFacts
    <2>2. es \in Seq(RelayMsg) /\ Once(es) /\ (\A x : Has(es, x) <=> \E v \in D : x = Msg("error", v, 0))
      BY <1>b, <2>1, ErrorsFacts
    <2>3. e \in RelayMsg /\ e.type \notin Counted BY DEF RelayMsg, Msg, Counted
    <2>4. UNCHANGED <<window, relay, pending, nextToRequest, received>> /\ ptys' \subseteq Windows
          /\ m = Head(toHost) /\ U \in SUBSET uploads
      BY <1>1, <1>3, <1>b, <2>1
    <2>5. /\ \A v \in Uploads : m = Msg("begin", v, 0) => v = u
          /\ \A v \in Uploads, j \in Nat : m = Msg("chunk", v, j) => v \notin uploads'
      BY <1>b, MsgFacts
    <2>6. CASE toRelay' = toRelay \o es \o <<e>>
      <3> DEFINE r == Append(es, e)
                 E == D \cup {u}
      <3>1. toRelay' = toRelay \o r BY <1>3, <2>2, <2>3, <2>6
      <3> HIDE DEF es
      <3>2. r \in Seq(RelayMsg) /\ Once(r) /\ \A x : Has(r, x) <=> Has(es, x) \/ x = e
        BY <2>2, <2>3, Appended
      <3>3. \A x : Has(r, x) <=> \E v \in E : x = Msg("error", v, 0) BY <2>2, <3>2
      <3>4. E \in SUBSET Uploads /\ (\A v \in U : v \in E) BY <1>b, <2>1
      <3>5. \A v \in Uploads : m = Msg("begin", v, 0) => v \in E BY <2>5
      <3> HIDE DEF m, r, E
      <3> QED BY <1>1, <1>b, <2>4, <2>5, <3>1, <3>2, <3>3, <3>4, <3>5, HostEnds
    <2>7. CASE U = D /\ m # Msg("begin", u, 0) /\ toRelay' = toRelay \o es
      <3>1. \A v \in Uploads : m # Msg("begin", v, 0) BY <2>5, <2>7
      <3> HIDE DEF m, es
      <3> QED BY <1>1, <1>b, <2>1, <2>2, <2>4, <2>5, <2>7, <3>1, HostEnds
    <2> QED BY <1>b, <2>6, <2>7
  <1>c. ASSUME NEW D \in SUBSET Idle, NEW errors \in [1 .. Cardinality(D) -> D],
               NEW u \in Uploads, m = Msg("begin", u, 0), HostBegin(u, D, errors)
        PROVE  PasteInv'
    <2> DEFINE W == Wanted(u, {}, 0)
    <2>1. Swept(D, errors) /\ Discard(D) /\ UNCHANGED <<ptys, received>> BY <1>c DEF HostBegin
    <2>2. CASE /\ uploads' = (uploads \ D) \cup {u}
               /\ pending' = [pending EXCEPT ![u] = W]
               /\ nextToRequest' = [nextToRequest EXCEPT ![u] = Cardinality(W)]
               /\ toRelay' = toRelay \o ErrorsOf(errors) \o Requests(u, 0, Cardinality(W))
      <3>1. UNCHANGED <<window, relay, ptys, received>> /\ Head(toHost) = Msg("begin", u, 0) /\ W = Wanted(u, {}, 0)
        BY <1>1, <1>c, <2>1
      <3> HIDE DEF W, m
      <3> QED BY <1>1, <1>c, <2>1, <2>2, <3>1, HostStarts
    <2>3. CASE /\ uploads' = uploads \ D
               /\ toRelay' = toRelay \o ErrorsOf(errors) \o <<Msg("error", u, 0)>>
               /\ UNCHANGED <<pending, nextToRequest>>
      <3> DEFINE U == D
      <3>1. U = D OBVIOUS
      <3> HIDE DEF U, m
      <3> QED BY <1>b, <1>c, <2>1, <2>3, <3>1
    <2> QED BY <1>c, <2>2, <2>3 DEF HostBegin
  <1>d. ASSUME NEW D \in SUBSET Idle, NEW errors \in [1 .. Cardinality(D) -> D],
               NEW u \in Uploads, NEW i \in Nat, m = Msg("chunk", u, i), HostChunk(u, i, D, errors)
        PROVE  PasteInv'
    <2>1. Swept(D, errors) BY <1>d DEF HostChunk
    <2>2. i \in pending[u] BY <1>2, <1>d DEF PasteInv, Flying, Sent
    <2>3. m # Msg("begin", u, 0) BY <1>d, MsgFacts
    <2>4. CASE u \in uploads \ D /\ WriteSlice(u, i, D, errors)
      <3>1. Head(toHost) = Msg("chunk", u, i) BY <1>d
      <3> HIDE DEF m
      <3> QED BY <1>1, <1>d, <2>1, <2>2, <2>4, <3>1, WriteSliceHolds
    <2>5. CASE /\ u \in uploads \ D /\ uploads' = uploads \ (D \cup {u})
               /\ toRelay' = toRelay \o ErrorsOf(errors) \o <<Msg("error", u, 0)>>
               /\ Discard(D \cup {u}) /\ UNCHANGED <<ptys, pending, nextToRequest, received>>
      <3> DEFINE U == D \cup {u}
      <3>1. U = D \cup (uploads \cap {u}) /\ u \notin uploads' /\ uploads' = uploads \ U /\ Discard(U) BY <2>5
      <3>2. m = Msg("begin", u, 0) \/ (\E j \in Nat : m = Msg("chunk", u, j)) BY <1>d
      <3> HIDE DEF U, m
      <3> QED BY <1>b, <1>d, <2>1, <2>5, <3>1, <3>2
    <2>6. CASE /\ u \notin uploads \ D /\ uploads' = uploads \ D
               /\ toRelay' = toRelay \o ErrorsOf(errors)
               /\ Discard(D) /\ UNCHANGED <<ptys, pending, nextToRequest, received>>
      <3> DEFINE U == D
      <3>1. U = D /\ u \notin uploads' /\ uploads' = uploads \ U /\ Discard(U) BY <2>6
      <3>2. m = Msg("begin", u, 0) \/ (\E j \in Nat : m = Msg("chunk", u, j)) BY <1>d
      <3> HIDE DEF U, m
      <3> QED BY <1>b, <1>d, <2>1, <2>3, <2>6, <3>1, <3>2
    <2> QED BY <1>d, <2>2, <2>4, <2>5, <2>6 DEF HostChunk
  <1>4. /\ m.type = "begin" => m.upload \in Uploads /\ m = Msg("begin", m.upload, 0)
        /\ m.type = "chunk" => m.upload \in Uploads /\ m.index \in Nat /\ m = Msg("chunk", m.upload, m.index)
        /\ m.type = "stop" => m.stream \in Windows /\ m = StreamMsg("stop", m.stream)
    BY <1>2 DEF HostMsg, Msg, StreamMsg
  <1>5. \/ m.type = "stop" /\ HostStop(m.stream)
        \/ \E S \in SUBSET Idle : \E errors \in [1 .. Cardinality(S) -> S] :
             \/ m.type = "begin" /\ HostBegin(m.upload, S, errors)
             \/ m.type = "chunk" /\ HostChunk(m.upload, m.index, S, errors)
    BY DEF HostReceive
  <1> HIDE DEF m
  <1> QED BY <1>4, <1>5, <1>a, <1>c, <1>d

(* The program ends: the relay hears of it after all that was sent before. *)
LEMMA PtyExitHolds ==
  ASSUME PasteInv, NEW w \in Windows, PtyExit(w)
  PROVE  PasteInv'
  <1>1. PICK type \in {"exit", "start_failed"} : toRelay' = Append(toRelay, StreamMsg(type, w)) BY DEF PtyExit
  <1>2. UNCHANGED <<window, relay, toHost, uploads, pending, nextToRequest, received, file>> /\ ptys' \subseteq ptys
    BY DEF PtyExit
  <1>3. toRelay \in Seq(RelayMsg) /\ Once(toRelay) BY DEF PasteInv, Typed, Flying
  <1>4. StreamMsg(type, w) \in RelayMsg /\ StreamMsg(type, w).type \notin Counted
    BY DEF RelayMsg, StreamMsg, Counted
  <1>5. toRelay' \in Seq(RelayMsg) /\ Once(toRelay')
        /\ \A x : Has(toRelay', x) <=> Has(toRelay, x) \/ x = StreamMsg(type, w)
    BY <1>1, <1>3, <1>4, Appended
  <1>6. \A u, i : StreamMsg(type, w) # Msg("request", u, i) /\ StreamMsg(type, w) # Msg("ready", u, i)
                  /\ StreamMsg(type, w) # Msg("error", u, i)
    BY ONLY MsgFacts, type \in {"exit", "start_failed"}
  <1>7. /\ \A u, i : Asked(u, i)' <=> Asked(u, i)
        /\ \A u : (Done(u)' <=> Done(u)) /\ (Failing(u)' <=> Failing(u))
    BY <1>5, <1>6 DEF Asked, Done, Failing
  <1> USE <1>2 DEF window, relay
  <1>8. Typed' BY <1>5 DEF PasteInv, Typed, TypeOK
  <1>9. Unopened' BY DEF PasteInv, Unopened, Unbegun, Beginning
  <1>10. Held' BY <1>7 DEF PasteInv, Held, Sending, Beginning
  <1>11. Progress' BY DEF PasteInv, Progress
  <1>12. Flying' BY <1>5, <1>7 DEF PasteInv, Flying, Sent
  <1>13. Pulled' BY <1>7 DEF PasteInv, Pulled, Sent, Sending
  <1>14. Whole' BY <1>7 DEF PasteInv, Whole, Unbegun, Beginning
  <1> QED BY <1>8, <1>9, <1>10, <1>11, <1>12, <1>13, <1>14 DEF PasteInv

(* The link is made again: nothing is on its way, and no upload goes on. *)
LEMMA LinkRestartedHolds ==
  ASSUME PasteInv, LinkRestarted
  PROVE  PasteInv'
  <1>1. /\ toHost' = <<>> /\ toRelay' = <<>> /\ uploads' = {} /\ slots' = {} /\ requested' = {} /\ ptys' = live
        /\ UNCHANGED <<reading, live, pending, nextToRequest, received>>
    BY DEF LinkRestarted
  <1>2. /\ phase \in [Uploads -> {"new", "sending"} \cup Ended] /\ file \in [Uploads -> SUBSET Nat]
    BY DEF PasteInv, Typed, TypeOK
  <1>3. /\ phase' \in [Uploads -> {"new", "sending"} \cup Ended]
        /\ \A u \in Uploads : phase'[u] = IF phase[u] = "sending" THEN "aborted" ELSE phase[u]
        /\ file' \in [Uploads -> SUBSET Nat]
        /\ \A u \in Uploads : file'[u] = IF u \in uploads THEN {} ELSE file[u]
    BY <1>2 DEF LinkRestarted, Discard, Sending, Ended
  <1>4. \A x : ~Has(toHost', x) /\ ~Has(toRelay', x) BY <1>1 DEF Has
  <1>5. Once(toHost') /\ Once(toRelay') /\ toHost' \in Seq(HostMsg) /\ toRelay' \in Seq(RelayMsg)
    BY <1>1 DEF Once
  <1>6. Typed' BY <1>1, <1>3, <1>5 DEF PasteInv, Typed, TypeOK
  <1>7. \A u \in Uploads : ~Beginning(u)' /\ ~Done(u)' /\ (\A i \in Nat : ~Asked(u, i)' /\ ~Sent(u, i)')
                           /\ (Unbegun(u)' => Unbegun(u))
    BY <1>3, <1>4 DEF Beginning, Done, Asked, Sent, Unbegun
  <1>8. Unopened' BY <1>1, <1>3, <1>7 DEF PasteInv, Unopened
  <1>9. Held' BY <1>1, <1>3, <1>4 DEF Held, Sending
  <1>10. Progress' BY <1>1, FS_EmptySet DEF PasteInv, Progress
  <1>11. Flying' BY <1>1, <1>5, <1>7 DEF PasteInv, Flying
  <1>12. Pulled' BY <1>1 DEF Pulled
  <1>13. Whole' BY <1>1, <1>3, <1>7 DEF PasteInv, Whole
  <1> QED BY <1>6, <1>8, <1>9, <1>10, <1>11, <1>12, <1>13 DEF PasteInv

-----------------------------------------------------------------------------
(* Nothing has been pasted. *)
LEMMA InitPaste == Init => PasteInv
  <1> SUFFICES ASSUME Init PROVE PasteInv
    OBVIOUS
  <1>1. \A x : ~Has(toHost, x) /\ ~Has(toRelay, x) BY DEF Init, Has
  <1>2. Once(toHost) /\ Once(toRelay) BY DEF Init, Once
  <1>3. Typed BY UploadAssumption DEF Init, Typed, TypeOK
  <1>4. Unopened BY <1>1 DEF Init, Unopened, Beginning
  <1>5. Held BY <1>1 DEF Init, Held, Sending
  <1>6. Progress
    <2>1. \A u \in Uploads : Cardinality(pending[u]) <= PASTE_UPLOAD_WINDOW
      BY FS_EmptySet, LimitAssumption DEF Init
    <2> QED BY <2>1, FS_EmptySet DEF Init, Progress
  <1>7. Flying BY <1>1, <1>2 DEF Init, Flying, Asked, Sent
  <1>8. Pulled BY DEF Init, Pulled
  <1>9. Whole BY <1>1 DEF Init, Whole, Done
  <1> QED BY <1>3, <1>4, <1>5, <1>6, <1>7, <1>8, <1>9 DEF PasteInv

(* Every action of the window, the connector and the relay preserves the invariant. *)
LEMMA StepPaste == PasteInv /\ [Next]_vars => PasteInv'
  <1> SUFFICES ASSUME PasteInv, [Next]_vars PROVE PasteInv'
    OBVIOUS
  <1>1. ASSUME NEW u \in Uploads, Begin(u) PROVE PasteInv' BY <1>1, BeginHolds
  <1>2. ASSUME NEW u \in Uploads, Stall(u) PROVE PasteInv'
    <2>1. phase' = [phase EXCEPT ![u] = IF Sending(u) THEN "given_up" ELSE @] /\ reading' = reading \ {}
      BY <1>2 DEF Stall
    <2>2. {} \in SUBSET reading /\ UNCHANGED <<relay, toHost, toRelay, connector>> BY <1>2 DEF Stall
    <2> QED BY <2>1, <2>2, GivingUpHolds
  <1>3. ASSUME NEW u \in Uploads, NEW i \in Slices(u), ReadDone(u, i) PROVE PasteInv' BY <1>3, ReadDoneHolds
  <1>4. ASSUME NEW u \in Uploads, NEW i \in Slices(u), ReadFailed(u, i) PROVE PasteInv'
    <2> DEFINE R == {<<u, i>>}
    <2>1. R \in SUBSET reading /\ reading' = reading \ R /\ (\A s \in R : s[1] = u)
          /\ phase' = [phase EXCEPT ![u] = IF Sending(u) THEN "given_up" ELSE @]
          /\ UNCHANGED <<relay, toHost, toRelay, connector>>
      BY <1>4 DEF ReadFailed
    <2> HIDE DEF R
    <2> QED BY <2>1, GivingUpHolds
  <1>5. ASSUME NEW w \in Windows, WindowGone(w) PROVE PasteInv' BY <1>5, WindowGoneHolds
  <1>6. ASSUME NEW w \in Windows, PtyExit(w) PROVE PasteInv' BY <1>6, PtyExitHolds
  <1>7. CASE HostReceive BY <1>7, HostReceiveHolds
  <1>8. CASE RelayReceive BY <1>8, RelayReceiveHolds
  <1>9. CASE LinkRestarted BY <1>9, LinkRestartedHolds
  <1>10. CASE UNCHANGED vars
    <2> USE <1>10 DEF vars, window, relay, connector
    <2>1. Typed' BY DEF PasteInv, Typed, TypeOK
    <2>2. Unopened' BY DEF PasteInv, Unopened, Unbegun, Beginning
    <2>3. Held' BY DEF PasteInv, Held, Sending, Beginning, Done, Failing
    <2>4. Progress' BY DEF PasteInv, Progress
    <2>5. Flying' BY DEF PasteInv, Flying, Asked, Sent
    <2>6. Pulled' BY DEF PasteInv, Pulled, Asked, Sent, Sending
    <2>7. Whole' BY DEF PasteInv, Whole, Done, Unbegun, Beginning
    <2> QED BY <2>1, <2>2, <2>3, <2>4, <2>5, <2>6, <2>7 DEF PasteInv
  <1> QED BY <1>1, <1>2, <1>3, <1>4, <1>5, <1>6, <1>7, <1>8, <1>9, <1>10 DEF Next

(* An upload whose end is on its way is as whole as one shown as saved. *)
LEMMA InvIsSafe == PasteInv => SavedWhole
  <1> SUFFICES ASSUME PasteInv, NEW u \in Uploads, phase[u] = "saved" \/ InTransit(toRelay, "ready", u) # {}
               PROVE  file[u] = Slices(u)
    BY DEF SavedWhole
  <1>1. CASE phase[u] = "saved" BY <1>1 DEF PasteInv, Whole
  <1>2. CASE InTransit(toRelay, "ready", u) # {}
    <2>1. PICK k \in DOMAIN toRelay : toRelay[k].type = "ready" /\ toRelay[k].upload = u BY <1>2 DEF InTransit
    <2>2. toRelay[k] \in RelayMsg BY DEF PasteInv, Typed
    <2>3. toRelay[k] = Msg("ready", u, 0) BY <2>1, <2>2 DEF RelayMsg, Msg
    <2> QED BY <2>1, <2>3 DEF PasteInv, Whole, Done, Has
  <1> QED BY <1>1, <1>2

(* A slot's upload is under way, or its end is. *)
LEMMA SlotsHeld == PasteInv => SlotsAccounted
  <1> SUFFICES ASSUME PasteInv, NEW u \in slots
               PROVE  \/ InTransit(toHost, "begin", u) # {}
                      \/ u \in uploads
                      \/ InTransit(toRelay, "ready", u) \cup InTransit(toRelay, "error", u) # {}
    BY DEF SlotsAccounted
  <1>1. Beginning(u) \/ u \in uploads \/ Done(u) \/ Failing(u) BY DEF PasteInv, Held
  <1>2. ASSUME NEW q, NEW t, Has(q, Msg(t, u, 0)) PROVE InTransit(q, t, u) # {}
    BY <1>2, MsgFacts DEF Has, InTransit
  <1> QED BY <1>1, <1>2 DEF Beginning, Done, Failing

(* What an upload waits for is under way. *)
LEMMA PullsHeld ==
  ASSUME PasteInv, NEW u \in uploads, Sending(u)
  PROVE  /\ pending[u] # {}
         /\ \A i \in pending[u] : \/ SliceInTransit(toRelay, "request", u, i)
                                  \/ <<u, i>> \in reading \cap requested
                                  \/ SliceInTransit(toHost, "chunk", u, i)
  <1>1. pending[u] # {} BY DEF PasteInv, Progress
  <1>2. ASSUME NEW q, NEW t, NEW i, Has(q, Msg(t, u, i)) PROVE SliceInTransit(q, t, u, i)
    BY <1>2, MsgFacts DEF Has, InTransit, SliceInTransit
  <1>3. \A i \in pending[u] : Asked(u, i) \/ <<u, i>> \in reading \cap requested \/ Sent(u, i)
    BY DEF PasteInv, Pulled
  <1> QED BY <1>1, <1>2, <1>3 DEF Asked, Sent

(* A set that maps one to one to a finite set has as many elements as its image. *)
LEMMA OneToOne ==
  ASSUME NEW A, NEW P, IsFiniteSet(P), NEW f \in [A -> P], \A x, y \in A : f[x] = f[y] => x = y,
         NEW R, R = {f[x] : x \in A}
  PROVE  R \subseteq P /\ IsFiniteSet(R) /\ Cardinality(A) = Cardinality(R) /\ Cardinality(R) \in Nat
  <1>1. R \in SUBSET P OBVIOUS
  <1>2. IsFiniteSet(R) BY <1>1, FS_Subset
  <1>3. f \in [A -> R] OBVIOUS
  <1>4. f \in Injection(A, R) BY <1>3 DEF Injection, IsInjective
  <1>5. f \in Surjection(A, R) BY <1>3 DEF Surjection
  <1>6. Cardinality(A) = Cardinality(R) BY <1>2, <1>4, <1>5, FS_Injection
  <1> QED BY <1>1, <1>2, <1>6, FS_CardinalityType

(* Sets that share nothing are together no larger than what they are part of. *)
LEMMA ThreeParts ==
  ASSUME NEW P, IsFiniteSet(P), NEW A \in SUBSET P, NEW B \in SUBSET P, NEW C \in SUBSET P,
         A \cap B = {}, A \cap C = {}, B \cap C = {}
  PROVE  Cardinality(A) + Cardinality(B) + Cardinality(C) <= Cardinality(P)
  <1>1. IsFiniteSet(A) /\ IsFiniteSet(B) /\ IsFiniteSet(C) BY FS_Subset
  <1>2. IsFiniteSet(A \cup B) /\ Cardinality(A \cup B) = Cardinality(A) + Cardinality(B) - Cardinality(A \cap B)
    BY <1>1, FS_Union
  <1>3. Cardinality((A \cup B) \cup C) = Cardinality(A \cup B) + Cardinality(C) - Cardinality((A \cup B) \cap C)
    BY <1>1, <1>2, FS_Union
  <1>4. Cardinality(A \cap B) = 0 /\ Cardinality((A \cup B) \cap C) = 0
    <2>1. (A \cup B) \cap C = {} OBVIOUS
    <2> QED BY <2>1, FS_EmptySet
  <1>5. (A \cup B) \cup C \in SUBSET P OBVIOUS
  <1>6. Cardinality((A \cup B) \cup C) <= Cardinality(P) BY <1>5, FS_Subset
  <1>7. Cardinality(A) \in Nat /\ Cardinality(B) \in Nat /\ Cardinality(C) \in Nat BY <1>1, FS_CardinalityType
  <1> QED BY <1>2, <1>3, <1>4, <1>6, <1>7

(* What is asked for, being read and on its way are different slices of those waited for. *)
LEMMA PullsCounted ==
  ASSUME PasteInv, NEW u \in Uploads
  PROVE  Cardinality(InTransit(toRelay, "request", u))
           + Cardinality({s \in reading : s[1] = u /\ Sending(u)})
           + Cardinality(InTransit(toHost, "chunk", u)) <= PASTE_UPLOAD_WINDOW
  <1> DEFINE P == pending[u]
             A == InTransit(toRelay, "request", u)
             B == {s \in reading : s[1] = u /\ Sending(u)}
             C == InTransit(toHost, "chunk", u)
             f == [k \in A |-> toRelay[k].index]
             g == [s \in B |-> s[2]]
             h == [k \in C |-> toHost[k].index]
             RA == {f[x] : x \in A}
             RB == {g[x] : x \in B}
             RC == {h[x] : x \in C}
  <1>1. IsFiniteSet(P) /\ Cardinality(P) <= PASTE_UPLOAD_WINDOW
    <2>1. P \in SUBSET Slices(u) BY DEF PasteInv, Typed, TypeOK
    <2>2. Chunks[u] - 1 \in Int /\ 0 \in Int BY UploadAssumption
    <2>3. IsFiniteSet(Slices(u)) BY <2>2, FS_Interval DEF Slices
    <2>4. IsFiniteSet(P) BY <2>1, <2>3, FS_Subset
    <2> QED BY <2>4 DEF PasteInv, Progress
  <1>2. ASSUME NEW k \in A
        PROVE  toRelay[k].index \in Nat /\ toRelay[k] = Msg("request", u, toRelay[k].index)
               /\ Asked(u, toRelay[k].index) /\ k \in DOMAIN toRelay
    <2>1. k \in DOMAIN toRelay /\ toRelay[k].type = "request" /\ toRelay[k].upload = u BY DEF InTransit
    <2>2. toRelay[k] \in RelayMsg BY <2>1 DEF PasteInv, Typed
    <2>3. toRelay[k].index \in Nat /\ toRelay[k] = Msg("request", u, toRelay[k].index)
      BY <2>1, <2>2 DEF RelayMsg, Msg
    <2> QED BY <2>1, <2>3 DEF Asked, Has
  <1>3. ASSUME NEW k \in C
        PROVE  toHost[k].index \in Nat /\ toHost[k] = Msg("chunk", u, toHost[k].index)
               /\ Sent(u, toHost[k].index) /\ k \in DOMAIN toHost
    <2>1. k \in DOMAIN toHost /\ toHost[k].type = "chunk" /\ toHost[k].upload = u BY DEF InTransit
    <2>2. toHost[k] \in HostMsg BY <2>1 DEF PasteInv, Typed
    <2>3. toHost[k].index \in Nat /\ toHost[k] = Msg("chunk", u, toHost[k].index)
      BY <2>1, <2>2 DEF HostMsg, Msg
    <2> QED BY <2>1, <2>3 DEF Sent, Has
  <1>4. ASSUME NEW s \in B PROVE s[2] \in Nat /\ s = <<u, s[2]>> /\ s \in reading
    <2>1. s \in AllSlices /\ s[1] = u BY DEF PasteInv, Typed, TypeOK
    <2>2. PICK v \in Uploads : s \in {v} \X Slices(v) BY <2>1 DEF AllSlices
    <2> QED BY <2>1, <2>2 DEF Slices
  <1>5. \A i \in Nat : /\ Asked(u, i) \/ <<u, i>> \in reading \/ Sent(u, i) => i \in P
                       /\ ~(Asked(u, i) /\ <<u, i>> \in reading)
                       /\ ~(Asked(u, i) /\ Sent(u, i))
                       /\ ~(<<u, i>> \in reading /\ Sent(u, i))
    BY DEF PasteInv, Flying
  <1>6. Once(toRelay) /\ Once(toHost) BY DEF PasteInv, Flying
  <1> HIDE DEF A, B, C, P
  <1>7. /\ f \in [A -> P] /\ \A x, y \in A : f[x] = f[y] => x = y
    <2>1. \A k \in A : f[k] = toRelay[k].index OBVIOUS
    <2>2. \A x, y \in A : f[x] = f[y] => x = y BY <1>2, <1>6, <2>1, MsgFacts DEF Once, Counted
    <2>3. \A k \in A : toRelay[k].index \in P BY <1>2, <1>5
    <2> QED BY <2>2, <2>3
  <1>8. /\ h \in [C -> P] /\ \A x, y \in C : h[x] = h[y] => x = y
    <2>1. \A k \in C : h[k] = toHost[k].index OBVIOUS
    <2>2. \A x, y \in C : h[x] = h[y] => x = y BY <1>3, <1>6, <2>1, MsgFacts DEF Once, Counted
    <2>3. \A k \in C : toHost[k].index \in P BY <1>3, <1>5
    <2> QED BY <2>2, <2>3
  <1>9. /\ g \in [B -> P] /\ \A x, y \in B : g[x] = g[y] => x = y
    <2>1. \A s \in B : g[s] = s[2] OBVIOUS
    <2>2. \A x, y \in B : g[x] = g[y] => x = y BY <1>4, <2>1
    <2>3. \A s \in B : s[2] \in P BY <1>4, <1>5
    <2> QED BY <2>2, <2>3
  <1>10. /\ \A i \in RA : i \in Nat /\ Asked(u, i)
         /\ \A i \in RB : i \in Nat /\ <<u, i>> \in reading
         /\ \A i \in RC : i \in Nat /\ Sent(u, i)
    BY <1>2, <1>3, <1>4
  <1> HIDE DEF f, g, h
  <1>11. RA \subseteq P /\ IsFiniteSet(RA) /\ Cardinality(A) = Cardinality(RA) BY <1>1, <1>7, OneToOne
  <1>12. RB \subseteq P /\ IsFiniteSet(RB) /\ Cardinality(B) = Cardinality(RB) BY <1>1, <1>9, OneToOne
  <1>13. RC \subseteq P /\ IsFiniteSet(RC) /\ Cardinality(C) = Cardinality(RC) BY <1>1, <1>8, OneToOne
  <1> HIDE DEF RA, RB, RC
  <1>14. RA \cap RB = {} /\ RA \cap RC = {} /\ RB \cap RC = {} BY <1>5, <1>10
  <1>15. Cardinality(RA) + Cardinality(RB) + Cardinality(RC) <= Cardinality(P)
    BY <1>1, <1>11, <1>12, <1>13, <1>14, ThreeParts
  <1>16. /\ Cardinality(RA) \in Nat /\ Cardinality(RB) \in Nat /\ Cardinality(RC) \in Nat
         /\ Cardinality(P) \in Nat /\ PASTE_UPLOAD_WINDOW \in Nat
    BY <1>1, <1>11, <1>12, <1>13, FS_CardinalityType, LimitAssumption
  <1>17. Cardinality(A) + Cardinality(B) + Cardinality(C) <= PASTE_UPLOAD_WINDOW
    BY <1>1, <1>11, <1>12, <1>13, <1>15, <1>16
  <1> QED BY <1>17 DEF A, B, C

(* Both halves: pulls and slots. *)
LEMMA InvIsAccounted == PasteInv => UploadsAccounted
  <1> SUFFICES ASSUME PasteInv PROVE UploadsAccounted
    OBVIOUS
  <1>1. SlotsAccounted BY SlotsHeld
  <1>2. PullsAccounted BY PullsHeld, PullsCounted DEF PullsAccounted
  <1> QED BY <1>1, <1>2 DEF UploadsAccounted

(* A window is told that its file was saved only when every slice of it is on disk  *)
(* (pasted-files.ts counts what it received), whatever order the slices came in.   *)
THEOREM PasteSavedWhole == Spec => []SavedWhole
  <1>1. PasteInv => SavedWhole BY InvIsSafe
  <1> QED BY <1>1, InitPaste, StepPaste, PTL DEF Spec

(* While a window sends an upload its connector has, every slice waited for is       *)
(* asked for, being read or on its way, and never more of them than the window of     *)
(* pulls; and a slot of the relay is held for an upload that goes on, or whose end    *)
(* is on its way (paste-proxy.ts, pasted-files.ts).                                   *)
THEOREM PasteUploadsAccounted == Spec => []UploadsAccounted
  <1>1. PasteInv => UploadsAccounted BY InvIsAccounted
  <1> QED BY <1>1, InitPaste, StepPaste, PTL DEF Spec

-----------------------------------------------------------------------------
(* --- the workstation's font in a window --- *)

(* What FontIsCurrent rests on: a call that is fresh is about the font shown, unless  *)
(* it is a batch; a batch may have been asked for a font that is gone, but once its   *)
(* cut was answered the cut is of the large font of the font shown.  A call that      *)
(* decides is fresh, or its font is one whose refused copy is not looked at again.    *)
(* After such a call has loaded a font that is gone, nothing is known of which font    *)
(* a call is about: Shown is every font.  Before it is told of a font a window has no  *)
(* call under way.                                                                   *)
Chars == Rare \cup {Common}
Steps == Settled \cup {"readFace", "slice", "writeFace", "register", "readCuts", "addCuts",
                       "subset", "cutSlice", "addCut"}
CutSteps == {"startCut", "subset", "cutSlice", "addCut", "cutFailed"}
StateType == [font : Fonts \cup {None}, status : Statuses, glyphs : Statuses,
              alias : Files \cup {None}, glyphAlias : Sources \cup {None}]

Blind(f) == FileOf[f] \in Doubtful /\ SourceOf[f] = None
Shown == IF astray = None THEN {state.font} ELSE Fonts

\* The large font of f is that of a font shown.
Same(f, F) == \E g \in F : g # None /\ SourceOf[f] = SourceOf[g]

Sound(k, F) ==
  k # None =>
    /\ F # {None}
    /\ k.kind = "batch" => k.at \in CutSteps
    /\ k.at = "decide" => k.fresh \/ Blind(k.font)
    /\ k.at = "startCut" => k.fresh
    /\ k.fresh /\ k.kind # "batch" => k.font \in F
    /\ k.fresh /\ k.kind = "batch" /\ k.at \in {"cutSlice", "addCut"} =>
         Same(k.font, F)
AllSound(calls, F) == calls \in [Ids -> Task \cup {None}] /\ \A t \in Ids : Sound(calls[t], F)

FontTyped ==
  /\ state \in StateType /\ covered \subseteq Chars /\ wanted \subseteq Chars
  /\ batchTimer \in Fonts \cup {None} /\ announced \in Fonts \cup {None} /\ refused \subseteq Doubtful
LinkTold ==
  /\ astray = None /\ connected => state.font = announced
  /\ ~connected => wire = <<>>
  /\ astray # None => astray \in Fonts /\ Blind(astray) /\ state.font # None
  /\ announced = None => state.font = None
  /\ batchTimer # None => state.font # None
Shows ==
  /\ state.font = None => state.status = "none" /\ state.glyphs = "none"
  /\ state.alias # None => /\ \E g \in Shown : g # None /\ state.alias = FileOf[g]
                          /\ state.alias \in registered
  /\ state.glyphAlias # None => \E g \in Shown : g # None /\ state.glyphAlias = SourceOf[g]
  /\ \A c \in covered : \E g \in Shown : g # None /\ <<SourceOf[g], c>> \in drawn
FontInv == FontTyped /\ LinkTold /\ Shows /\ AllSound(tasks, Shown)

LEMMA InitFont == FontInit => FontInv
<1> SUFFICES ASSUME FontInit PROVE FontInv OBVIOUS
<1>1. FontTyped BY DEF FontInit, FontTyped, StateType, Initial, Statuses
<1>2. LinkTold /\ Shows BY DEF FontInit, LinkTold, Shows, Initial
<1>3. AllSound(tasks, Shown) BY DEF FontInit, AllSound, Sound
<1> QED BY <1>1, <1>2, <1>3 DEF FontInv

-----------------------------------------------------------------------------
(* Calls, one at a time. *)

LEMMA OneSound ==
  ASSUME NEW calls, NEW F, AllSound(calls, F), NEW t, NEW k \in Task \cup {None}, Sound(k, F)
  PROVE  AllSound([calls EXCEPT ![t] = k], F)
  BY DEF AllSound

(* A call about the font shown is about one of all fonts. *)
LEMMA AnySound ==
  ASSUME NEW calls, NEW F, AllSound(calls, F)
  PROVE  AllSound(calls, Fonts)
<1>1. ASSUME NEW t \in Ids PROVE Sound(calls[t], Fonts)
  <2>1. CASE calls[t] = None BY <2>1 DEF Sound
  <2>2. CASE calls[t] # None
    <3>1. Sound(calls[t], F) /\ calls[t].font \in Fonts BY <2>2 DEF AllSound, Task
    <3>2. calls[t].font # None BY <3>1, FontAssumption
    <3>3. Fonts # {None} BY FontAssumption
    <3> QED BY <3>1, <3>2, <3>3 DEF Sound, Same
  <2> QED BY <2>1, <2>2
<1> QED BY <1>1 DEF AllSound

LEMMA CallSound ==
  ASSUME NEW f \in Fonts, NEW F, f \in F, NEW kind \in {"evaluate", "load", "prefetch"},
         NEW step \in Steps, step # "decide",
         NEW needs \in SUBSET {"file", "glyphs"}, NEW chars \in SUBSET Chars
  PROVE  Call(kind, step, f, needs, chars) \in Task /\ Sound(Call(kind, step, f, needs, chars), F)
<1>1. Call(kind, step, f, needs, chars) \in Task BY DEF Call, Task, Steps, Chars
<1>2. F # {None} BY FontAssumption
<1>3. Sound(Call(kind, step, f, needs, chars), F) BY <1>2 DEF Call, Sound
<1> QED BY <1>1, <1>3

(* A call that goes on, with what it needs and the characters it is about. *)
LEMMA MovedSound ==
  ASSUME NEW F, NEW k \in Task, Sound(k, F), k # None, NEW step \in Steps,
         NEW needs \in SUBSET {"file", "glyphs"}, NEW chars \in SUBSET Chars,
         k.kind = "batch" => step \in CutSteps,
         step = "decide" => k.fresh \/ Blind(k.font), step = "startCut" => k.fresh,
         k.fresh /\ k.kind = "batch" /\ step \in {"cutSlice", "addCut"} =>
           Same(k.font, F),
         NEW j, j = [k EXCEPT !.at = step, !.needs = needs, !.chars = chars]
  PROVE  j \in Task /\ Sound(j, F)
<1>1. /\ j \in Task /\ j.at = step /\ j.kind = k.kind /\ j.fresh = k.fresh /\ j.font = k.font
  BY DEF Task, Steps, Chars
<1> HIDE DEF Task
<1>2. Sound(j, F) BY <1>1 DEF Sound
<1> QED BY <1>1, <1>2

(* Its fields are those of a call. *)
LEMMA TaskFacts ==
  ASSUME FontInv, NEW t \in Ids, tasks[t] # None
  PROVE  /\ tasks[t] \in Task /\ Sound(tasks[t], Shown)
         /\ tasks[t].needs \in SUBSET {"file", "glyphs"} /\ tasks[t].chars \in SUBSET Chars
         /\ tasks[t].font \in Fonts /\ tasks[t].at \in Steps
         /\ state.font \in Fonts /\ state.font # None
<1>1. /\ tasks[t] \in Task /\ Sound(tasks[t], Shown)
      /\ tasks[t].needs \in SUBSET {"file", "glyphs"} /\ tasks[t].chars \in SUBSET Chars
      /\ tasks[t].font \in Fonts /\ tasks[t].at \in Steps
  BY DEF FontInv, AllSound, Task, Chars, Steps
<1>2. Shown # {None} BY <1>1 DEF Sound
<1>3. state.font # None BY <1>2 DEF Shown, FontInv, LinkTold
<1>4. state.font \in Fonts \cup {None} BY DEF FontInv, FontTyped, StateType
<1> QED BY <1>1, <1>3, <1>4

LEMMA GoesSound ==
  ASSUME FontInv, NEW t \in Ids, tasks[t] # None, NEW step \in Steps, Goes(t, step),
         tasks[t].kind = "batch" => step \in CutSteps,
         step = "decide" => tasks[t].fresh \/ Blind(tasks[t].font),
         step = "startCut" => tasks[t].fresh,
         tasks[t].fresh /\ tasks[t].kind = "batch" /\ step \in {"cutSlice", "addCut"} =>
           Same(tasks[t].font, Shown)
  PROVE  AllSound(tasks', Shown)
<1> DEFINE k == tasks[t]
           j == [k EXCEPT !.at = step, !.needs = k.needs, !.chars = k.chars]
<1>1. k \in Task /\ Sound(k, Shown) /\ k.needs \in SUBSET {"file", "glyphs"} /\ k.chars \in SUBSET Chars
  BY TaskFacts
<1>2. j \in Task /\ Sound(j, Shown) BY <1>1, MovedSound
<1>3. [k EXCEPT !.at = step] = j BY <1>1 DEF Task
<1>4. tasks' = [tasks EXCEPT ![t] = j] BY <1>3 DEF Goes
<1> HIDE DEF j
<1> QED BY <1>2, <1>4, OneSound DEF FontInv

LEMMA NothingSound == \A F : Sound(None, F)
  BY DEF Sound

LEMMA EndsSound ==
  ASSUME FontInv, NEW t, Ends(t)
  PROVE  AllSound(tasks', Shown)
  BY NothingSound, OneSound DEF Ends, FontInv

LEMMA FailedSound ==
  ASSUME FontInv, NEW t \in Ids, tasks[t] # None
  PROVE  Failed(t) \in Task /\ Sound(Failed(t), Shown)
<1> DEFINE k == tasks[t]
           step == IF At(t, "slice") THEN "fileFailed" ELSE "cutFailed"
           j == [k EXCEPT !.at = step, !.needs = k.needs, !.chars = k.chars]
<1>1. k \in Task /\ Sound(k, Shown) /\ k.needs \in SUBSET {"file", "glyphs"} /\ k.chars \in SUBSET Chars
  BY TaskFacts
<1>2. step \in Steps /\ step \notin {"decide", "startCut", "cutSlice", "addCut"} BY DEF Steps, Settled
<1>3. k.kind = "batch" => step \in CutSteps BY <1>1 DEF Sound, At, CutSteps
<1>4. Failed(t) = j BY <1>1 DEF Failed, Task
<1> HIDE DEF step
<1>5. j \in Task /\ Sound(j, Shown) BY <1>1, <1>2, <1>3, MovedSound
<1> QED BY <1>4, <1>5

(* A few of the calls fail; the others go on. *)
LEMMA SomeFail ==
  ASSUME FontInv, NEW calls, DOMAIN calls = Ids, calls = [t \in Ids |-> calls[t]],
         \A t \in Ids : calls[t] = tasks[t] \/ (tasks[t] # None /\ calls[t] = Failed(t))
  PROVE  AllSound(calls, Shown)
<1>1. ASSUME NEW t \in Ids PROVE calls[t] \in Task \cup {None} /\ Sound(calls[t], Shown)
  <2>1. CASE calls[t] = tasks[t] BY <2>1 DEF FontInv, AllSound
  <2>2. CASE tasks[t] # None /\ calls[t] = Failed(t) BY <2>2, FailedSound
  <2> QED BY <2>1, <2>2
<1> QED BY <1>1 DEF AllSound

LEMMA RejectedSound ==
  ASSUME FontInv
  PROVE  AllSound(Rejected, Shown)
<1>1. \A t \in Ids : Rejected[t] = tasks[t] \/ (tasks[t] # None /\ Rejected[t] = Failed(t))
  BY DEF Rejected, pendingSubsets, Waits, At
<1>2. DOMAIN Rejected = Ids /\ Rejected = [t \in Ids |-> Rejected[t]] BY DEF Rejected
<1> QED BY <1>1, <1>2, SomeFail

-----------------------------------------------------------------------------
(* Steps after which the window shows the same font. *)

(* What such a step has to keep. *)
LEMMA SameFont ==
  ASSUME FontInv, AllSound(tasks', Shown),
         state' \in StateType, state'.font = state.font, state' = state \/ state.font # None,
         batchTimer' \in {batchTimer, None} \/ state.font # None,
         \/ state'.alias = state.alias \/ state'.alias = None
         \/ \E g \in Shown : g # None /\ state'.alias = FileOf[g] /\ state'.alias \in registered',
         \/ state'.glyphAlias = state.glyphAlias \/ state'.glyphAlias = None
         \/ \E g \in Shown : g # None /\ state'.glyphAlias = SourceOf[g],
         registered \subseteq registered', drawn \subseteq drawn',
         covered' \subseteq Chars,
         \A c \in covered' : c \in covered \/ \E g \in Shown : g # None /\ <<SourceOf[g], c>> \in drawn',
         wanted' \subseteq Chars, batchTimer' \in Fonts \cup {None},
         refused' \subseteq refused, UNCHANGED <<connected, announced, astray>>, connected \/ wire' = wire
  PROVE  FontInv'
<1>0. Shown' = Shown BY DEF Shown
<1>1. FontTyped' BY DEF FontInv, FontTyped
<1>2. LinkTold' BY DEF FontInv, LinkTold
<1>3. Shows'
  <2>1. state.font = None => state'.status = "none" /\ state'.glyphs = "none" BY DEF FontInv, Shows
  <2>2. state'.alias # None => /\ \E g \in Shown : g # None /\ state'.alias = FileOf[g]
                               /\ state'.alias \in registered'
    BY DEF FontInv, Shows
  <2>3. state'.glyphAlias # None => \E g \in Shown : g # None /\ state'.glyphAlias = SourceOf[g]
    BY DEF FontInv, Shows
  <2>4. \A c \in covered' : \E g \in Shown : g # None /\ <<SourceOf[g], c>> \in drawn'
    BY DEF FontInv, Shows
  <2> QED BY <1>0, <2>1, <2>2, <2>3, <2>4 DEF Shows
<1>4. AllSound(tasks, Shown)' BY <1>0
<1> QED BY <1>1, <1>2, <1>3, <1>4 DEF FontInv

(* A step of a call that leaves what is shown as it is. *)
LEMMA CallsOnly ==
  ASSUME FontInv, AllSound(tasks', Shown),
         UNCHANGED <<state, glyphRefs, page, link>>, refused' \subseteq refused, connected \/ wire' = wire
  PROVE  FontInv'
<1>1. state' \in StateType /\ covered' \subseteq Chars /\ wanted' \subseteq Chars /\ batchTimer' \in Fonts \cup {None}
  BY DEF FontInv, FontTyped, glyphRefs
<1> QED BY <1>1, SameFont DEF glyphRefs, page, link

(* load, whatever its font. *)
LEMMA LoadFacts ==
  ASSUME FontInv, NEW t \in Ids, NEW f \in Fonts, NEW F, f \in F, NEW others, AllSound(others, F),
         Load(t, f, others)
  PROVE  /\ AllSound(tasks', F) /\ state' \in StateType /\ state'.alias = state.alias
         /\ state'.font = f /\ (f = state.font => state'.glyphAlias = state.glyphAlias)
<1> DEFINE same == f = state.font
           fetches == FileOf[f] # None /\ FileOf[f] \notin registered
           glyphs == same /\ SourceOf[f] # None /\ state.glyphs \notin {"ready", "none"}
           k == Call("load", IF fetches THEN "readFace" ELSE "startCut", f, IF glyphs THEN {"glyphs"} ELSE {}, {})
<1>0. state \in StateType BY DEF FontInv, FontTyped
<1>1. k \in Task /\ Sound(k, F)
  <2>1. (IF fetches THEN "readFace" ELSE "startCut") \in Steps \ {"decide"} BY DEF Steps, Settled
  <2>2. (IF glyphs THEN {"glyphs"} ELSE {}) \in SUBSET {"file", "glyphs"} /\ {} \in SUBSET Chars OBVIOUS
  <2> HIDE DEF fetches, glyphs
  <2> QED BY <2>1, <2>2, CallSound
<1>2. CASE same /\ "loading" \in {state.status, state.glyphs}
  <2>1. tasks' = [others EXCEPT ![t] = None] /\ state' = state BY <1>2 DEF Load
  <2> QED BY <2>1, <1>0, <1>2, OneSound, NothingSound
<1>3. CASE ~(same /\ "loading" \in {state.status, state.glyphs})
  <2>1. /\ state' = [state EXCEPT !.font = f,
                         !.status = IF fetches THEN "loading" ELSE @,
                         !.glyphs = IF glyphs THEN "loading" ELSE IF same THEN @ ELSE "none",
                         !.glyphAlias = IF same THEN @ ELSE None]
        /\ tasks' = [others EXCEPT ![t] = IF ~fetches /\ ~glyphs THEN None ELSE k]
    BY <1>3 DEF Load
  <2> HIDE DEF k
  <2>2. AllSound(tasks', F) BY <2>1, <1>1, OneSound, NothingSound
  <2>3. /\ state' \in StateType /\ state'.font = f /\ state'.alias = state.alias
        /\ state'.glyphAlias = IF same THEN state.glyphAlias ELSE None
    BY <2>1, <1>0 DEF StateType, Statuses
  <2> QED BY <2>2, <2>3
<1> QED BY <1>2, <1>3

(* A call that decides is fresh, and so about the font shown. *)
LEMMA FreshCallIsShown ==
  ASSUME FontInv, NEW t \in Ids, tasks[t] # None, tasks[t].fresh, tasks[t].kind # "batch"
  PROVE  /\ tasks[t].font \in Shown /\ tasks[t].font \in Fonts /\ tasks[t].font # None
         /\ state.font \in Fonts /\ state.font # None
         /\ tasks[t].font # state.font => astray # None
<1>1. Sound(tasks[t], Shown) /\ tasks[t].font \in Fonts /\ state.font \in Fonts /\ state.font # None
  BY TaskFacts
<1> QED BY <1>1, FontAssumption DEF Sound, Shown

LEMMA FreshIsShown ==
  ASSUME FontInv, NEW t \in Ids, tasks[t] # None, tasks[t].fresh, tasks[t].at \notin CutSteps
  PROVE  /\ tasks[t].font \in Shown /\ tasks[t].font \in Fonts /\ tasks[t].font # None
         /\ state.font \in Fonts /\ state.font # None
         /\ tasks[t].font # state.font => astray # None
<1>1. Sound(tasks[t], Shown) BY TaskFacts
<1> QED BY <1>1, FreshCallIsShown DEF Sound

(* A font loaded that is not the one shown: the window has gone astray, or was. *)
LEMMA LoadAway ==
  ASSUME FontInv, NEW t \in Ids, NEW f \in Fonts, f # state.font, state.font # None, NEW others,
         AllSound(others, Fonts), Load(t, f, others), astray' # None, astray' \in Fonts, Blind(astray'),
         UNCHANGED <<wanted, batchTimer, registered, refused, connected, announced, wire>>,
         drawn \subseteq drawn', covered' \subseteq Chars,
         \A c \in covered' : c \in covered \/ \E g \in Fonts : g # None /\ <<SourceOf[g], c>> \in drawn'
  PROVE  FontInv'
<1>0. Shown' = Fonts BY DEF Shown
<1>1. AllSound(tasks', Fonts) /\ state' \in StateType /\ state'.alias = state.alias /\ state'.font = f
  BY LoadFacts
<1>2. f # None /\ None \notin Fonts BY FontAssumption
<1>3. FontTyped' BY <1>1 DEF FontInv, FontTyped
<1>4. LinkTold' BY <1>1, <1>2 DEF FontInv, LinkTold
<1>5. Shows'
  <2>1. \A g \in Shown : g # None => g \in Fonts BY DEF Shown, FontInv, FontTyped, StateType
  <2>2. state'.alias # None => /\ \E g \in Fonts : g # None /\ state'.alias = FileOf[g]
                               /\ state'.alias \in registered'
    BY <1>1, <2>1 DEF FontInv, Shows
  <2>3. state'.glyphAlias # None => \E g \in Fonts : g # None /\ state'.glyphAlias = SourceOf[g]
    <3>1. state'.glyphAlias \in Sources \cup {None} BY <1>1 DEF StateType
    <3> QED BY <3>1, <1>2 DEF Sources
  <2>4. \A c \in covered' : \E g \in Fonts : g # None /\ <<SourceOf[g], c>> \in drawn'
    BY <2>1 DEF FontInv, Shows
  <2> QED BY <1>0, <1>1, <1>2, <2>2, <2>3, <2>4 DEF Shows
<1>6. AllSound(tasks, Shown)' BY <1>0, <1>1
<1> QED BY <1>3, <1>4, <1>5, <1>6 DEF FontInv

(* A call that decides loads the font shown, or is out of date and blind to it. *)
LEMMA StepDecide ==
  ASSUME FontInv, NEW t \in Ids, Decide(t)
  PROVE  FontInv'
<1> DEFINE f == tasks[t].font
           answers == /\ Ends(t) /\ astray' = astray
                      /\ \E answer \in {"available", "declined"} :
                           state' = [state EXCEPT !.status = IF "file" \in tasks[t].needs THEN answer ELSE @,
                                                  !.glyphs = IF "glyphs" \in tasks[t].needs THEN answer ELSE @]
<1>0. /\ tasks[t] # None /\ tasks[t].at = "decide" /\ f \in Fonts /\ state.font # None
      /\ Sound(tasks[t], Shown) /\ (tasks[t].fresh \/ Blind(f))
  BY TaskFacts DEF Decide, At, Sound
<1>1. UNCHANGED <<covered, wanted, batchTimer, registered, drawn, refused, connected, announced, wire>>
  BY DEF Decide, glyphRefs, page, device
<1>2. covered' \subseteq Chars /\ wanted' \subseteq Chars /\ batchTimer' \in Fonts \cup {None}
  BY <1>1 DEF FontInv, FontTyped
<1>3. state \in StateType BY DEF FontInv, FontTyped
<1>4. CASE Ends(t) /\ UNCHANGED <<state, astray>> BY <1>1, <1>2, <1>3, <1>4, EndsSound, SameFont
<1>5. CASE /\ Load(t, f, tasks) /\ f = state.font
           /\ astray' = IF ~Fresh(t) /\ f # state.font THEN f ELSE astray
  <2>1. f \in Shown BY <1>0, <1>5 DEF Shown
  <2>2. /\ AllSound(tasks', Shown) /\ state' \in StateType /\ state'.alias = state.alias
        /\ state'.font = state.font /\ state'.glyphAlias = state.glyphAlias
    BY <1>0, <1>5, <2>1, LoadFacts DEF FontInv
  <2> QED BY <1>0, <1>1, <1>2, <1>5, <2>2, FontAssumption, SameFont
<1>6. CASE /\ Load(t, f, tasks) /\ f # state.font
           /\ astray' = IF ~Fresh(t) /\ f # state.font THEN f ELSE astray
  <2>1. AllSound(tasks, Fonts) BY AnySound DEF FontInv
  <2>2. astray' # None /\ astray' \in Fonts /\ Blind(astray')
    <3>1. CASE Fresh(t)
      <4>1. tasks[t].kind # "batch" BY <1>0 DEF Sound, CutSteps
      <4> QED BY <3>1, <4>1, <1>0, <1>6, FreshCallIsShown DEF Fresh, FontInv, LinkTold
    <3>2. CASE ~Fresh(t) BY <3>2, <1>0, <1>6, FontAssumption DEF Fresh
    <3> QED BY <3>1, <3>2
  <2> HIDE DEF f
  <2> QED BY <1>0, <1>1, <1>2, <1>6, <2>1, <2>2, LoadAway
<1>7. CASE answers
  <2>1. PICK answer \in {"available", "declined"} :
                state' = [state EXCEPT !.status = IF "file" \in tasks[t].needs THEN answer ELSE @,
                                       !.glyphs = IF "glyphs" \in tasks[t].needs THEN answer ELSE @]
    BY <1>7
  <2>2. /\ state' \in StateType /\ state'.font = state.font /\ state'.alias = state.alias
        /\ state'.glyphAlias = state.glyphAlias
    BY <2>1, <1>3 DEF StateType, Statuses
  <2> QED BY <1>0, <1>1, <1>2, <1>7, <2>2, EndsSound, SameFont
<1> QED BY <1>4, <1>5, <1>6, <1>7 DEF Decide

(* evaluate, once nothing is settled any more: every call under way is late, and a *)
(* new one is about the font reported.                                              *)
LEMMA StepEvaluate ==
  ASSUME FontInv, CanCall, NEW f \in Fonts \cup {None}, f = None => state.font = None, Evaluate(f)
  PROVE  AllSound(tasks', {f}) /\ state' \in StateType /\ state'.font = f /\ Shows' /\ AllSound(tasks, Shown)'
         /\ astray' = (IF f # state.font THEN None ELSE astray) /\ covered' \subseteq Chars
         /\ wanted' \subseteq Chars
         /\ UNCHANGED <<batchTimer, page, device, wire>>
<1> DEFINE changed == f # state.font
           before == IF changed THEN Rejected ELSE tasks
           late == [t \in Ids |-> IF before[t] = None THEN None ELSE [before[t] EXCEPT !.fresh = FALSE]]
           status == IF FileOf[f] = None THEN "settled"
                     ELSE IF FileOf[f] \in registered THEN "loaded" ELSE "checking"
           glyphs == IF SourceOf[f] = None THEN "none" ELSE "checking"
           k == Call("evaluate", IF status = "checking" THEN "readFace" ELSE "readCuts", f, {}, {})
<1>1. AllSound(before, Shown) BY RejectedSound DEF FontInv
<1>2. \A t \in Ids : before[t] # None => before[t].at \notin {"decide", "startCut"}
  <2>1. \A t \in Ids : tasks[t] # None => tasks[t].at \notin {"decide", "startCut"} BY DEF CanCall, Quiet, Settled
  <2>2. ASSUME NEW t \in Ids, Rejected[t] # None PROVE Rejected[t].at \notin {"decide", "startCut"}
    <3>1. Rejected[t] = tasks[t] \/ (tasks[t] # None /\ Rejected[t] = Failed(t))
      BY DEF Rejected, pendingSubsets, Waits, At
    <3>2. tasks[t] # None => Failed(t).at \notin {"decide", "startCut"} BY TaskFacts DEF Failed, Task
    <3> QED BY <2>1, <2>2, <3>1, <3>2
  <2> QED BY <2>1, <2>2
<1>3. AllSound(late, {f})
  <2> HIDE DEF before
  <2>1. ASSUME NEW t \in Ids PROVE late[t] \in Task \cup {None} /\ Sound(late[t], {f})
    <3>1. CASE before[t] = None BY <3>1, NothingSound
    <3>2. CASE before[t] # None
      <4>1. before[t] \in Task /\ Sound(before[t], Shown) BY <1>1, <3>2 DEF AllSound
      <4>2. /\ late[t] \in Task /\ late[t].at = before[t].at /\ late[t].kind = before[t].kind
            /\ late[t].fresh = FALSE
        BY <3>2, <4>1 DEF Task
      <4>3. f # None
        <5>1. tasks[t] # None BY <3>2 DEF before, Rejected, pendingSubsets, Waits, At
        <5> QED BY <5>1, TaskFacts
      <4>4. Sound(late[t], {f}) BY <4>1, <4>2, <4>3, <1>2, <3>2 DEF Sound
      <4> QED BY <4>2, <4>4
    <3> QED BY <3>1, <3>2
  <2> QED BY <2>1 DEF AllSound
<1>4. /\ state' = IF f = None THEN Initial
                  ELSE [font |-> f, status |-> status, glyphs |-> glyphs,
                        alias |-> IF status = "loaded" THEN FileOf[f] ELSE None,
                        glyphAlias |-> IF changed THEN None ELSE state.glyphAlias]
      /\ IF changed THEN covered' = {} /\ wanted' = {} ELSE UNCHANGED <<covered, wanted>>
      /\ tasks' = late \/ (f # None /\ tasks' = [late EXCEPT ![NewId] = k])
      /\ UNCHANGED <<batchTimer, page, device, wire>> /\ astray' = IF changed THEN None ELSE astray
  BY DEF Evaluate
<1>5. AllSound(tasks', {f})
  <2>1. CASE tasks' = late BY <2>1, <1>3
  <2>2. CASE f # None /\ tasks' = [late EXCEPT ![NewId] = k]
    <3> HIDE DEF late
    <3>1. f \in Fonts /\ (IF status = "checking" THEN "readFace" ELSE "readCuts") \in Steps \ {"decide"}
      BY <2>2 DEF Steps
    <3> HIDE DEF status
    <3>2. k \in Task /\ Sound(k, {f}) BY <3>1, CallSound
    <3> HIDE DEF k
    <3> QED BY <2>2, <3>2, <1>3, OneSound
  <2> QED BY <2>1, <2>2, <1>4
<1>6. state \in StateType BY DEF FontInv, FontTyped
<1>7. CASE f = None
  <2>1. state' = Initial BY <1>4, <1>7
  <2>2. state' \in StateType /\ state'.font = f BY <2>1, <1>7 DEF Initial, StateType, Statuses
  <2>0. astray' = None /\ Shown' = {f} BY <1>4, <1>7, <2>2 DEF Shown, FontInv, LinkTold
  <2>3. covered' = {} BY <1>4, <1>7, <2>0, FontAssumption DEF FontInv, Shows, LinkTold, Shown
  <2>4. Shows' BY <2>1, <2>3 DEF Initial, Shows
  <2>5. wanted' \subseteq Chars BY <1>4 DEF FontInv, FontTyped
  <2>6. AllSound(tasks, Shown)' BY <1>5, <2>0
  <2> QED BY <1>4, <1>5, <2>2, <2>3, <2>4, <2>5, <2>6
<1>8. CASE f # None
  <2>1. /\ state'.font = f /\ state'.glyphAlias = (IF changed THEN None ELSE state.glyphAlias)
        /\ state'.alias = (IF status = "loaded" THEN FileOf[f] ELSE None)
        /\ state' \in [font : Fonts \cup {None}, status : {status}, glyphs : {glyphs},
                       alias : {IF status = "loaded" THEN FileOf[f] ELSE None}, glyphAlias : {state'.glyphAlias}]
    BY <1>4, <1>8
  <2>2. FileOf[f] \in Files \cup {None} BY <1>8 DEF Files
  <2>3. state' \in StateType
    <3>1. status \in Statuses /\ glyphs \in Statuses BY DEF Statuses
    <3>2. state'.glyphAlias \in Sources \cup {None} BY <2>1, <1>6 DEF StateType
    <3> HIDE DEF status, glyphs
    <3> QED BY <2>1, <2>2, <3>1, <3>2 DEF StateType
  <2>4. Shown' = (IF changed THEN {f} ELSE Shown) /\ f \in Shown'
    BY <1>4, <1>8, <2>1 DEF Shown
  <2>5. Shows'
    <3>1. state'.alias # None => state'.alias = FileOf[f] /\ state'.alias \in registered'
      BY <1>4, <2>1 DEF page
    <3>2. state'.glyphAlias # None => \E g \in Shown' : g # None /\ state'.glyphAlias = SourceOf[g]
      BY <1>4, <2>1, <2>4 DEF FontInv, Shows
    <3>3. \A c \in covered' : \E g \in Shown' : g # None /\ <<SourceOf[g], c>> \in drawn'
      BY <1>4, <2>4 DEF FontInv, Shows, page
    <3> QED BY <2>1, <2>4, <3>1, <3>2, <3>3, <1>8 DEF Shows
  <2>6. covered' \subseteq Chars /\ wanted' \subseteq Chars BY <1>4 DEF FontInv, FontTyped
  <2>7. AllSound(tasks, Shown)'
    <3>1. CASE Shown' = {f} BY <3>1, <1>5
    <3>2. CASE Shown' = Fonts BY <3>2, <1>5, AnySound
    <3> QED BY <3>1, <3>2, <2>1 DEF Shown
  <2> QED BY <1>4, <1>5, <2>1, <2>3, <2>5, <2>6, <2>7
<1> QED BY <1>7, <1>8

-----------------------------------------------------------------------------
(* The rest of the steps of a call. *)

LEMMA StateTyped ==
  ASSUME FontInv
  PROVE  state \in StateType /\ covered \subseteq Chars /\ wanted \subseteq Chars /\ batchTimer \in Fonts \cup {None}
  BY DEF FontInv, FontTyped

(* A request goes only while there is a link. *)
LEMMA RequestsOnLink ==
  ASSUME NEW m, NEW offered, Request(m, offered, wire)
  PROVE  connected \/ wire' = wire
  BY DEF Request

LEMMA StepFileFailed ==
  ASSUME FontInv, NEW t \in Ids, FileFailed(t)
  PROVE  FontInv'
<1>0. tasks[t] # None /\ tasks[t].at = "fileFailed" BY DEF FileFailed, At
<1>1. UNCHANGED <<covered, wanted, batchTimer, registered, drawn, refused, connected, announced, astray, wire>>
  BY DEF FileFailed, glyphRefs, page, device, link
<1>2. CASE ~Fresh(t)
  BY <1>0, <1>1, <1>2, EndsSound, StateTyped, SameFont DEF FileFailed
<1>3. CASE Fresh(t)
  <2>1. state.font # None BY <1>0, <1>3, FreshIsShown DEF Fresh, CutSteps
  <2>2. state' = [state EXCEPT !.status = "failed", !.alias = None] BY <1>3 DEF FileFailed
  <2>3. state' \in StateType /\ state'.font = state.font /\ state'.alias = None /\ state'.glyphAlias = state.glyphAlias
    BY <2>2, StateTyped DEF StateType, Statuses
  <2>4. AllSound(tasks', Shown)
    <3>1. CASE Goes(t, "startCut") BY <3>1, <1>0, <1>3, GoesSound DEF Fresh, CutSteps, Steps, Settled
    <3>2. CASE Ends(t) BY <3>2, EndsSound
    <3> QED BY <3>1, <3>2, <1>3 DEF FileFailed
  <2> QED BY <2>1, <2>3, <2>4, <1>1, StateTyped, SameFont
<1> QED BY <1>2, <1>3

LEMMA StepStartCut ==
  ASSUME FontInv, NEW t \in Ids, StartCut(t)
  PROVE  FontInv'
<1>0. tasks[t] # None /\ tasks[t].at = "startCut" BY DEF StartCut, At
<1>1. UNCHANGED <<covered, wanted, batchTimer, registered, drawn, refused, connected, announced, astray>>
  BY DEF StartCut, page, device, link
<1> DEFINE batch == tasks[t].kind = "batch"
           chars == IF batch THEN tasks[t].chars ELSE {Common} \ covered
<1>2. CASE chars = {} /\ ~batch
  <2>1. /\ state' = IF tasks[t].kind = "load" THEN [state EXCEPT !.glyphs = "ready"] ELSE state
        /\ Ends(t) /\ wire' = wire
    BY <1>2 DEF StartCut
  <2>2. /\ state' \in StateType /\ state'.font = state.font /\ state'.alias = state.alias
        /\ state'.glyphAlias = state.glyphAlias
    BY <2>1, StateTyped DEF StateType, Statuses
  <2>3. state.font # None
    <3>1. Sound(tasks[t], Shown) BY <1>0, TaskFacts
    <3>2. tasks[t].fresh BY <3>1, <1>0 DEF Sound
    <3> QED BY <3>2, <1>0, <1>2, FreshCallIsShown
  <2> QED BY <2>1, <2>2, <2>3, <1>1, EndsSound, StateTyped, SameFont
<1>3. CASE ~(chars = {} /\ ~batch)
  <2>1. /\ tasks' = [tasks EXCEPT ![t].at = "subset", ![t].chars = chars]
        /\ \E m, offered : Request(m, offered, wire)
        /\ UNCHANGED state
    BY <1>3 DEF StartCut
  <2>2. connected \/ wire' = wire BY <2>1, RequestsOnLink
  <2> DEFINE k == tasks[t]
             j == [k EXCEPT !.at = "subset", !.needs = k.needs, !.chars = chars]
  <2>3. k \in Task /\ Sound(k, Shown) /\ k.needs \in SUBSET {"file", "glyphs"} /\ k.chars \in SUBSET Chars
    BY <1>0, TaskFacts
  <2>4. chars \in SUBSET Chars BY <2>3 DEF Chars
  <2> HIDE DEF chars
  <2>5. j \in Task /\ Sound(j, Shown)
    BY <2>3, <2>4, <1>0, MovedSound DEF Steps, CutSteps
  <2>6. tasks' = [tasks EXCEPT ![t] = j] BY <2>1, <2>3 DEF Task
  <2> HIDE DEF j
  <2>7. AllSound(tasks', Shown) BY <2>5, <2>6, OneSound DEF FontInv
  <2> QED BY <2>1, <2>2, <2>7, <1>1, StateTyped, SameFont
<1> QED BY <1>2, <1>3

LEMMA StepCutFailed ==
  ASSUME FontInv, NEW t \in Ids, CutFailed(t)
  PROVE  FontInv'
<1>0. tasks[t] # None /\ tasks[t].at = "cutFailed" /\ Ends(t) BY DEF CutFailed, At
<1>1. UNCHANGED <<covered, wanted, batchTimer, registered, drawn, refused, connected, announced, astray, wire>>
  BY DEF CutFailed, glyphRefs, page, device, link
<1>2. state' = IF Fresh(t) /\ tasks[t].kind = "load" THEN [state EXCEPT !.glyphs = "failed"] ELSE state
  BY DEF CutFailed
<1>3. /\ state' \in StateType /\ state'.font = state.font /\ state'.alias = state.alias
      /\ state'.glyphAlias = state.glyphAlias
  BY <1>2, StateTyped DEF StateType, Statuses
<1>4. state' = state \/ state.font # None BY <1>0, <1>2, FreshCallIsShown DEF Fresh
<1> QED BY <1>0, <1>1, <1>3, <1>4, EndsSound, StateTyped, SameFont

LEMMA StepReadsFace ==
  ASSUME FontInv, NEW t \in Ids, ReadsFace(t) \/ FaceWritten(t)
  PROVE  FontInv'
<1>0. tasks[t] # None /\ tasks[t].at \in {"readFace", "writeFace"} /\ tasks[t].kind # "batch"
  BY TaskFacts DEF ReadsFace, FaceWritten, At, Sound, CutSteps
<1>1. UNCHANGED <<state, glyphRefs, page, link>> /\ refused' = refused
  BY DEF ReadsFace, FaceWritten, device
<1>2. connected \/ wire' = wire
  BY RequestsOnLink DEF ReadsFace, FaceWritten, RequestChunk
<1>3. CASE Ends(t) BY <1>3, <1>1, <1>2, EndsSound, CallsOnly
<1>4. CASE Goes(t, "register") \/ Goes(t, "slice")
  <2>1. AllSound(tasks', Shown) BY <1>0, <1>4, GoesSound DEF Steps
  <2> QED BY <2>1, <1>1, <1>2, CallsOnly
<1>5. CASE Fresh(t) /\ tasks' = [tasks EXCEPT ![t].needs = {"file"}, ![t].at = AfterFile(t)]
  <2> DEFINE k == tasks[t]
             j == [k EXCEPT !.at = AfterFile(t), !.needs = {"file"}, !.chars = k.chars]
  <2>1. k \in Task /\ Sound(k, Shown) /\ k.needs \in SUBSET {"file", "glyphs"} /\ k.chars \in SUBSET Chars
    BY <1>0, TaskFacts
  <2>2. AfterFile(t) \in {"readCuts", "decide"} BY DEF AfterFile
  <2>3. j \in Task /\ Sound(j, Shown)
    BY <2>1, <2>2, <1>0, <1>5, MovedSound DEF Steps, Settled, Fresh
  <2>4. tasks' = [tasks EXCEPT ![t] = j] BY <2>1, <1>5 DEF Task
  <2> HIDE DEF j
  <2>5. AllSound(tasks', Shown) BY <2>3, <2>4, OneSound DEF FontInv
  <2> QED BY <2>5, <1>1, <1>2, CallsOnly
<1> QED BY <1>3, <1>4, <1>5 DEF ReadsFace, FaceWritten

LEMMA StepRegisterEnds ==
  ASSUME FontInv, NEW t \in Ids, RegisterEnds(t)
  PROVE  FontInv'
<1>0. tasks[t] # None /\ tasks[t].at = "register" /\ tasks[t].kind # "batch"
  BY TaskFacts DEF RegisterEnds, At, Sound, CutSteps
<1>1. /\ UNCHANGED <<covered, wanted, batchTimer, drawn, refused, connected, announced, astray, wire>>
      /\ registered' = registered \cup {File(t)}
  BY DEF RegisterEnds, glyphRefs, device, link
<1>2. CASE ~Fresh(t)
  BY <1>0, <1>1, <1>2, EndsSound, StateTyped, SameFont DEF RegisterEnds
<1>3. CASE Fresh(t)
  <2>1. /\ tasks[t].font \in Shown /\ tasks[t].font \in Fonts /\ tasks[t].font # None
        /\ state.font \in Fonts /\ state.font # None
    BY <1>0, <1>3, FreshCallIsShown DEF Fresh
  <2>2. state' = [state EXCEPT !.status = "loaded", !.alias = File(t)] BY <1>3 DEF RegisterEnds
  <2>3. File(t) = FileOf[tasks[t].font] /\ File(t) \in Files \cup {None} BY <2>1 DEF File, Files
  <2>4. /\ state' \in StateType /\ state'.font = state.font /\ state'.alias = FileOf[tasks[t].font]
        /\ state'.alias \in registered' /\ state'.glyphAlias = state.glyphAlias
    BY <2>2, <2>3, <1>1, StateTyped DEF StateType, Statuses
  <2>5. AllSound(tasks', Shown)
    <3>1. CASE Ends(t) BY <3>1, EndsSound
    <3>2. CASE Goes(t, "startCut") BY <3>2, <1>0, <1>3, GoesSound DEF Fresh, Steps, Settled
    <3>3. CASE Goes(t, AfterFile(t))
      <4>1. AfterFile(t) \in {"readCuts", "decide"} BY DEF AfterFile
      <4>2. AfterFile(t) \in Steps BY <4>1 DEF Steps, Settled
      <4> QED BY <4>1, <4>2, <3>3, <1>0, <1>3, GoesSound DEF Fresh
    <3> QED BY <3>1, <3>2, <3>3, <1>3 DEF RegisterEnds
  <2> QED BY <2>1, <2>4, <2>5, <1>1, StateTyped, SameFont
<1> QED BY <1>2, <1>3

(* A copy that is refused: the cuts of the font's large font are looked for next, or, if it *)
(* has none, what to do is decided without asking whether the call is out of date.           *)
LEMMA StepRegisterFails ==
  ASSUME FontInv, NEW t \in Ids, RegisterFails(t)
  PROVE  FontInv'
<1>0. tasks[t] # None /\ tasks[t].at = "register" /\ tasks[t].kind # "batch"
  BY TaskFacts DEF RegisterFails, At, Sound, CutSteps
<1>1. UNCHANGED <<state, glyphRefs, page, link>> /\ refused' = refused /\ wire' = wire
  BY DEF RegisterFails, device
<1>2. CASE Goes(t, "fileFailed")
  <2>1. AllSound(tasks', Shown) BY <1>0, <1>2, GoesSound DEF Steps, Settled
  <2> QED BY <2>1, <1>1, CallsOnly
<1>3. CASE tasks' = [tasks EXCEPT ![t].needs = {"file"}, ![t].at = AfterFile(t)]
  <2> DEFINE k == tasks[t]
             j == [k EXCEPT !.at = AfterFile(t), !.needs = {"file"}, !.chars = k.chars]
  <2>1. /\ k \in Task /\ Sound(k, Shown) /\ k.needs \in SUBSET {"file", "glyphs"} /\ k.chars \in SUBSET Chars
        /\ k.font \in Fonts
    BY <1>0, TaskFacts
  <2>2. /\ AfterFile(t) \in {"readCuts", "decide"}
        /\ AfterFile(t) = "decide" => Blind(k.font)
    BY DEF AfterFile, Blind, RegisterFails, File, FontInv, FontTyped
  <2>3. j \in Task /\ Sound(j, Shown) BY <2>1, <2>2, <1>0, MovedSound DEF Steps, Settled
  <2>4. tasks' = [tasks EXCEPT ![t] = j] BY <2>1, <1>3 DEF Task
  <2> HIDE DEF j
  <2>5. AllSound(tasks', Shown) BY <2>3, <2>4, OneSound DEF FontInv
  <2> QED BY <2>5, <1>1, CallsOnly
<1> QED BY <1>2, <1>3 DEF RegisterFails

(* Cuts read, or refused. *)
LEMMA StepReadsCuts ==
  ASSUME FontInv, NEW t \in Ids, ReadsCuts(t) \/ CutsRefused(t)
  PROVE  FontInv'
<1>0. tasks[t] # None /\ tasks[t].at \in {"readCuts", "addCuts"} /\ tasks[t].kind # "batch"
  BY TaskFacts DEF ReadsCuts, CutsRefused, At, Sound, CutSteps
<1>1. UNCHANGED <<state, glyphRefs, page, link>> /\ refused' = refused /\ wire' = wire
  BY DEF ReadsCuts, CutsRefused, device
<1> DEFINE k == tasks[t]
<1>2. k \in Task /\ Sound(k, Shown) /\ k.needs \in SUBSET {"file", "glyphs"} /\ k.chars \in SUBSET Chars
  BY <1>0, TaskFacts
<1>3. CASE Ends(t) BY <1>3, <1>1, EndsSound, CallsOnly
<1>4. CASE Fresh(t) /\ tasks' = NeedsCuts(t)
  <2> DEFINE j == [k EXCEPT !.at = "decide", !.needs = k.needs \cup {"glyphs"}, !.chars = k.chars]
  <2>1. k.needs \cup {"glyphs"} \in SUBSET {"file", "glyphs"} BY <1>2
  <2>2. j \in Task /\ Sound(j, Shown) BY <2>1, <1>0, <1>2, <1>4, MovedSound DEF Steps, Settled, Fresh
  <2>3. tasks' = [tasks EXCEPT ![t] = j] BY <1>2, <1>4 DEF Task, NeedsCuts
  <2> HIDE DEF j
  <2>4. AllSound(tasks', Shown) BY <2>2, <2>3, OneSound DEF FontInv
  <2> QED BY <2>4, <1>1, CallsOnly
<1>5. ASSUME NEW held \in SUBSET (Rare \cup {Common}),
             tasks' = [tasks EXCEPT ![t].at = "addCuts", ![t].chars = held]
      PROVE  FontInv'
  <2> DEFINE j == [k EXCEPT !.at = "addCuts", !.needs = k.needs, !.chars = held]
  <2>1. held \in SUBSET Chars BY DEF Chars
  <2>2. j \in Task /\ Sound(j, Shown) BY <2>1, <1>0, <1>2, MovedSound DEF Steps
  <2>3. tasks' = [tasks EXCEPT ![t] = j] BY <1>2, <1>5 DEF Task
  <2> HIDE DEF j
  <2>4. AllSound(tasks', Shown) BY <2>2, <2>3, OneSound DEF FontInv
  <2> QED BY <2>4, <1>1, CallsOnly
<1> QED BY <1>3, <1>4, <1>5 DEF ReadsCuts, CutsRefused

(* An id taken is one of a call that is over. *)
LEMMA NewIdIsFree ==
  ASSUME FreeIds # {}
  PROVE  NewId \in Ids /\ tasks[NewId] = None
<1>1. NewId \in FreeIds BY DEF NewId
<1> QED BY <1>1 DEF FreeIds

LEMMA StepCutsAdded ==
  ASSUME FontInv, NEW t \in Ids, CutsAdded(t)
  PROVE  FontInv'
<1>0. tasks[t] # None /\ tasks[t].at = "addCuts" /\ tasks[t].kind # "batch" /\ tasks[t].chars \in SUBSET Chars
  BY TaskFacts DEF CutsAdded, At, Sound, CutSteps
<1>1. /\ UNCHANGED <<wanted, batchTimer, registered, refused, connected, announced, astray, wire>>
      /\ drawn' = drawn \cup {<<SourceOf[tasks[t].font], c>> : c \in tasks[t].chars}
      /\ covered' = IF Fresh(t) THEN covered \cup tasks[t].chars ELSE covered
  BY DEF CutsAdded, AddGlyphs, device, link
<1>2. CASE ~Fresh(t)
  BY <1>0, <1>1, <1>2, EndsSound, StateTyped, SameFont DEF CutsAdded
<1>3. CASE Fresh(t)
  <2> DEFINE f == tasks[t].font
             others == IF FreeIds = {} THEN tasks
                       ELSE [tasks EXCEPT ![NewId] = Call("prefetch", "startCut", f, {}, {})]
  <2>1. f \in Shown /\ f \in Fonts /\ f # None /\ state.font # None /\ (f # state.font => astray # None)
    BY <1>0, <1>3, FreshCallIsShown DEF Fresh
  <2>2. AllSound(others, Shown)
    <3> DEFINE k == Call("prefetch", "startCut", f, {}, {})
    <3>1. k \in Task /\ Sound(k, Shown) BY <2>1, CallSound DEF Steps, Settled
    <3> HIDE DEF k
    <3>2. AllSound([tasks EXCEPT ![NewId] = k], Shown) BY <2>1, <3>1, OneSound DEF FontInv
    <3> QED BY <2>1, <3>2 DEF FontInv, k
  <2>3. \/ Load(t, f, others)
        \/ /\ tasks' = [others EXCEPT ![t] = None]
           /\ state' = [state EXCEPT !.glyphs = "ready", !.glyphAlias = SourceOf[f]]
    BY <1>3 DEF CutsAdded
  <2> HIDE DEF others
  <2>4. covered' \subseteq Chars BY <1>0, <1>1, StateTyped
  <2>5. \A c \in covered' : c \in covered \/ \E g \in Shown : g # None /\ <<SourceOf[g], c>> \in drawn'
    BY <1>1, <2>1
  <2>6. CASE Load(t, f, others) /\ f = state.font
    <3>1. /\ AllSound(tasks', Shown) /\ state' \in StateType /\ state'.font = state.font
          /\ state'.alias = state.alias /\ state'.glyphAlias = state.glyphAlias
      BY <2>1, <2>2, <2>6, LoadFacts
    <3> QED BY <3>1, <2>1, <2>4, <2>5, <1>1, StateTyped, SameFont
  <2>7. CASE Load(t, f, others) /\ f # state.font
    <3>1. AllSound(others, Fonts) /\ Shown = Fonts BY <2>1, <2>2, <2>7, AnySound DEF Shown
    <3>2. astray' # None /\ astray' \in Fonts /\ Blind(astray')
      BY <2>1, <2>7, <1>1 DEF FontInv, LinkTold
    <3> HIDE DEF f
    <3> QED BY <3>1, <3>2, <2>1, <2>4, <2>5, <2>7, <1>1, LoadAway
  <2>8. CASE /\ tasks' = [others EXCEPT ![t] = None]
             /\ state' = [state EXCEPT !.glyphs = "ready", !.glyphAlias = SourceOf[f]]
    <3>1. SourceOf[f] \in Sources \cup {None} BY <2>1 DEF Sources
    <3>2. /\ state' \in StateType /\ state'.font = state.font /\ state'.alias = state.alias
          /\ state'.glyphAlias = SourceOf[f]
      BY <2>8, <3>1, StateTyped DEF StateType, Statuses
    <3>3. AllSound(tasks', Shown) BY <2>8, <2>2, OneSound, NothingSound
    <3> QED BY <3>2, <3>3, <2>1, <2>4, <2>5, <1>1, StateTyped, SameFont
  <2> QED BY <2>3, <2>6, <2>7, <2>8
<1> QED BY <1>2, <1>3

(* A cut that comes is of the large font of the font shown, or not counted. *)
LEMMA StepCutAdded ==
  ASSUME FontInv, NEW t \in Ids, CutAdded(t)
  PROVE  FontInv'
<1>0. tasks[t] # None /\ tasks[t].at = "addCut" /\ tasks[t].chars \in SUBSET Chars /\ tasks[t].font \in Fonts
      /\ Sound(tasks[t], Shown)
  BY TaskFacts DEF CutAdded, At
<1>1. UNCHANGED <<wanted, batchTimer, registered, refused, connected, announced, astray, wire>>
  BY DEF CutAdded, device, link
<1>2. CASE SourceOf[tasks[t].font] \in refused
  <2>1. Goes(t, "cutFailed") /\ UNCHANGED <<drawn, covered, state>> BY <1>2 DEF CutAdded
  <2>2. AllSound(tasks', Shown) BY <2>1, <1>0, GoesSound DEF Steps, Settled, CutSteps
  <2> QED BY <2>1, <2>2, <1>1, StateTyped, SameFont
<1>3. CASE SourceOf[tasks[t].font] \notin refused
  <2>1. /\ drawn' = drawn \cup {<<SourceOf[tasks[t].font], c>> : c \in tasks[t].chars}
        /\ covered' = IF Fresh(t) THEN covered \cup tasks[t].chars ELSE covered
        /\ Ends(t)
        /\ state' = IF ~Fresh(t) THEN state
                    ELSE [state EXCEPT !.glyphAlias = SourceOf[tasks[t].font],
                            !.glyphs = IF tasks[t].kind = "load" THEN "ready" ELSE @]
    BY <1>3 DEF CutAdded, AddGlyphs
  <2>2. CASE ~Fresh(t) BY <2>1, <2>2, <1>1, EndsSound, StateTyped, SameFont
  <2>3. CASE Fresh(t)
    <3>1. state.font # None /\ \E g \in Shown : g # None /\ SourceOf[tasks[t].font] = SourceOf[g]
      BY <1>0, <2>3, FreshCallIsShown, TaskFacts DEF Fresh, Sound, Same
    <3>2. SourceOf[tasks[t].font] \in Sources \cup {None} BY <1>0 DEF Sources
    <3>3. /\ state' \in StateType /\ state'.font = state.font /\ state'.alias = state.alias
          /\ state'.glyphAlias = SourceOf[tasks[t].font]
      BY <2>1, <2>3, <3>1, <3>2, StateTyped DEF StateType, Statuses
    <3>4. covered' \subseteq Chars BY <1>0, <2>1, StateTyped
    <3>5. \A c \in covered' : c \in covered \/ \E g \in Shown : g # None /\ <<SourceOf[g], c>> \in drawn'
      BY <2>1, <3>1
    <3> QED BY <2>1, <3>1, <3>3, <3>4, <3>5, <1>1, EndsSound, StateTyped, SameFont
  <2> QED BY <2>2, <2>3
<1> QED BY <1>2, <1>3

-----------------------------------------------------------------------------
(* The timers, the user, the workstation and the link. *)

LEMMA StepExpires ==
  ASSUME FontInv, RequestExpires
  PROVE  FontInv'
<1>1. UNCHANGED <<state, glyphRefs, page, link>> /\ refused' = refused /\ wire' = wire
  BY DEF RequestExpires, device
<1>2. tasks' = tasks \/ \E t \in Ids : tasks[t] # None /\ tasks' = [tasks EXCEPT ![t] = Failed(t)]
  <2>1. ASSUME NEW t \in pendingSubsets, tasks' = [tasks EXCEPT ![t] = Failed(t)] PROVE <1>2
    BY <2>1 DEF pendingSubsets, At
  <2>2. ASSUME NEW t, NEW name, Expires(t, name) PROVE <1>2
    <3>1. CASE t \in Ids /\ Waits(t, name) BY <2>2, <3>1 DEF Expires, Waits, At
    <3>2. CASE t \notin Ids /\ Waits(t, name)
      <4>1. tasks' = [tasks EXCEPT ![t] = Failed(t)] BY <2>2, <3>2 DEF Expires
      <4>2. DOMAIN tasks = Ids /\ tasks \in [Ids -> Task \cup {None}] BY DEF FontInv, AllSound
      <4>3. tasks' = tasks BY <4>1, <4>2, <3>2
      <4> QED BY <4>3
    <3>3. CASE ~Waits(t, name) BY <2>2, <3>3 DEF Expires
    <3> QED BY <3>1, <3>2, <3>3
  <2> QED BY <2>1, <2>2 DEF RequestExpires
<1>3. AllSound(tasks', Shown)
  <2>1. CASE tasks' = tasks BY <2>1 DEF FontInv
  <2>2. ASSUME NEW t \in Ids, tasks[t] # None, tasks' = [tasks EXCEPT ![t] = Failed(t)]
        PROVE  AllSound(tasks', Shown)
    <3>1. Failed(t) \in Task /\ Sound(Failed(t), Shown) BY <2>2, FailedSound
    <3> QED BY <2>2, <3>1, OneSound DEF FontInv
  <2> QED BY <2>1, <2>2, <1>2
<1> QED BY <1>1, <1>3, CallsOnly

LEMMA StepUser ==
  ASSUME FontInv, UserStep
  PROVE  FontInv'
<1>0. state.font \in Fonts \cup {None} /\ (state.font = None => state.status = "none" /\ state.glyphs = "none")
  BY StateTyped DEF StateType, FontInv, Shows
<1>1. CASE Accept
  <2>1. state.font \in Fonts /\ state.font # None BY <1>0, <1>1 DEF Accept, Offers
  <2>2. NewId \in Ids BY <1>1, NewIdIsFree DEF Accept, CanCall
  <2>3. Load(NewId, state.font, tasks) /\ UNCHANGED <<glyphRefs, requests, page, device, link, wire>>
    BY <1>1 DEF Accept
  <2>4. AllSound(tasks, Shown) BY DEF FontInv
  <2>5. /\ AllSound(tasks', Shown)
        /\ state' \in StateType /\ state'.font = state.font /\ state'.alias = state.alias
        /\ state'.glyphAlias = state.glyphAlias
    BY <2>1, <2>2, <2>3, <2>4, LoadFacts DEF Shown
  <2> QED BY <2>1, <2>3, <2>5, StateTyped, SameFont DEF glyphRefs, page, device, link
<1>2. CASE Decline
  <2>1. state.font # None BY <1>0, <1>2 DEF Decline, Offers
  <2>2. /\ state' \in StateType /\ state'.font = state.font /\ state'.alias = state.alias
        /\ state'.glyphAlias = state.glyphAlias
    BY <1>2, StateTyped DEF Decline, StateType, Statuses
  <2>3. UNCHANGED <<glyphRefs, tasks, page, device, link, wire>> BY <1>2 DEF Decline
  <2>4. AllSound(tasks', Shown) BY <2>3 DEF FontInv
  <2> QED BY <2>1, <2>2, <2>3, <2>4, StateTyped, SameFont DEF glyphRefs, page, device, link
<1>3. ASSUME NEW c \in Rare, Draw(c) PROVE FontInv'
  <2>1. /\ wanted' = wanted \cup {c} /\ batchTimer' = (IF batchTimer = None THEN state.font ELSE batchTimer)
        /\ UNCHANGED <<state, covered, tasks, registered, drawn, refused, connected, announced, astray, wire>>
        /\ state.font # None
    BY <1>3 DEF Draw, page, device, link
  <2>2. wanted' \subseteq Chars /\ batchTimer' \in Fonts \cup {None} BY <2>1, <1>0, StateTyped DEF Chars
  <2>3. AllSound(tasks', Shown) BY <2>1 DEF FontInv
  <2> QED BY <2>1, <2>2, <2>3, StateTyped, SameFont
<1>4. CASE BatchFires
  <2> DEFINE k == Call("batch", "startCut", batchTimer, {}, wanted)
  <2>1. /\ batchTimer # None /\ batchTimer' = None /\ wanted' = {} /\ tasks' = [tasks EXCEPT ![NewId] = k]
        /\ UNCHANGED <<state, covered, registered, drawn, refused, connected, announced, astray, wire>>
    BY <1>4 DEF BatchFires, page, device, link
  <2>2. k \in Task /\ Sound(k, Shown)
    <3>1. k \in Task BY <2>1, StateTyped DEF Call, Task, Settled, Chars
    <3>2. Shown # {None} BY <2>1, FontAssumption DEF Shown, FontInv, LinkTold
    <3>3. Sound(k, Shown) BY <3>2 DEF Call, Sound, CutSteps
    <3> QED BY <3>1, <3>3
  <2> HIDE DEF k
  <2>3. AllSound(tasks', Shown) BY <2>1, <2>2, OneSound DEF FontInv
  <2> QED BY <2>1, <2>3, StateTyped, SameFont
<1> QED BY <1>1, <1>2, <1>3, <1>4 DEF UserStep

(* The window is told of a font: it is the one shown from here on. *)
LEMMA StepTold ==
  ASSUME FontInv, CanCall, NEW f \in Fonts \cup {None}, f = None => state.font = None,
         Evaluate(f), announced' = f, connected'
  PROVE  FontInv'
<1>1. /\ state' \in StateType /\ state'.font = f /\ Shows' /\ AllSound(tasks, Shown)'
      /\ astray' = (IF f # state.font THEN None ELSE astray) /\ covered' \subseteq Chars
      /\ wanted' \subseteq Chars /\ UNCHANGED <<batchTimer, page, device, wire>>
  BY StepEvaluate
<1>2. FontTyped' BY <1>1 DEF FontInv, FontTyped, device
<1>3. LinkTold' BY <1>1 DEF FontInv, LinkTold
<1> QED BY <1>1, <1>2, <1>3 DEF FontInv

LEMMA StepHostReports ==
  ASSUME FontInv, NEW f \in Fonts, HostReports(f)
  PROVE  FontInv'
<1>0. f # None BY FontAssumption
<1>1. CASE connected BY <1>0, <1>1, StepTold DEF HostReports
<1>2. CASE ~connected
  <2>1. UNCHANGED <<state, glyphRefs, tasks, page, device, wire, connected, astray>> /\ announced' = f
    BY <1>2 DEF HostReports
  <2>2. FontTyped' BY <2>1 DEF FontInv, FontTyped, glyphRefs, device
  <2>3. LinkTold' BY <1>0, <1>2, <2>1 DEF FontInv, LinkTold, glyphRefs
  <2>4. Shown' = Shown BY <2>1 DEF Shown
  <2>5. Shows' BY <2>1, <2>4 DEF FontInv, Shows, glyphRefs, page
  <2>6. AllSound(tasks, Shown)' BY <2>1, <2>4 DEF FontInv
  <2> QED BY <2>2, <2>3, <2>5, <2>6 DEF FontInv
<1> QED BY <1>1, <1>2

LEMMA StepLink ==
  ASSUME FontInv, LinkDrops \/ LinkReturns
  PROVE  FontInv'
<1>1. CASE LinkReturns
  <2>1. announced \in Fonts \cup {None} /\ (announced = None => state.font = None)
    BY DEF FontInv, FontTyped, LinkTold
  <2> QED BY <1>1, <2>1, StepTold DEF LinkReturns
<1>2. CASE LinkDrops
  <2>1. /\ UNCHANGED <<state, glyphRefs, page, device, announced, astray>> /\ connected' = FALSE /\ wire' = <<>>
        /\ tasks' = Rejected
    BY <1>2 DEF LinkDrops, RejectPending
  <2>2. FontTyped' BY <2>1 DEF FontInv, FontTyped, glyphRefs, device
  <2>3. LinkTold' BY <2>1 DEF FontInv, LinkTold, glyphRefs
  <2>4. Shown' = Shown BY <2>1 DEF Shown
  <2>5. Shows' BY <2>1, <2>4 DEF FontInv, Shows, glyphRefs, page
  <2>6. AllSound(tasks, Shown)' BY <2>1, <2>4, RejectedSound
  <2> QED BY <2>2, <2>3, <2>5, <2>6 DEF FontInv
<1> QED BY <1>1, <1>2

(* A slice, for whoever waits for it. *)
LEMMA SliceSound ==
  ASSUME FontInv, NEW m, Slice(m)
  PROVE  AllSound(tasks', Shown)
<1> DEFINE w(t) == <<m.name, t>> \in {p \in pendingSlices : p[1] = m.name} /\ Waits(t, m.name)
<1>1. tasks' = [t \in Ids |->
        IF ~w(t) THEN tasks[t]
        ELSE IF At(t, "slice") THEN [tasks[t] EXCEPT !.at = "writeFace"]
        ELSE IF Fresh(t) THEN [tasks[t] EXCEPT !.at = "addCut"] ELSE None]
  BY DEF Slice
<1>2. ASSUME NEW t \in Ids PROVE tasks'[t] \in Task \cup {None} /\ Sound(tasks'[t], Shown)
  <2> DEFINE k == tasks[t]
  <2>1. CASE ~w(t) BY <1>1, <2>1 DEF FontInv, AllSound
  <2>2. CASE w(t)
    <3>1. k # None /\ (k.at = "slice" \/ k.at = "cutSlice") BY <2>2 DEF Waits, At
    <3>2. k \in Task /\ Sound(k, Shown) /\ k.needs \in SUBSET {"file", "glyphs"} /\ k.chars \in SUBSET Chars
      BY <3>1, TaskFacts
    <3>3. CASE k.at = "slice"
      <4> DEFINE j == [k EXCEPT !.at = "writeFace", !.needs = k.needs, !.chars = k.chars]
      <4>1. tasks'[t] = j BY <1>1, <2>2, <3>1, <3>2, <3>3 DEF At, Task
      <4>2. k.kind # "batch" BY <3>1, <3>2, <3>3 DEF Sound, CutSteps
      <4>3. j \in Task /\ Sound(j, Shown) BY <3>1, <3>2, <4>2, MovedSound DEF Steps
      <4> HIDE DEF j, k
      <4> QED BY <4>1, <4>3
    <3>4. CASE k.at = "cutSlice" /\ k.fresh
      <4> DEFINE j == [k EXCEPT !.at = "addCut", !.needs = k.needs, !.chars = k.chars]
      <4>1. tasks'[t] = j BY <1>1, <2>2, <3>1, <3>2, <3>4 DEF At, Task, Fresh
      <4>2. k.kind = "batch" => Same(k.font, Shown)
        BY <3>1, <3>2, <3>4 DEF Sound
      <4>3. j \in Task /\ Sound(j, Shown) BY <3>1, <3>2, <4>2, MovedSound DEF Steps, CutSteps
      <4> HIDE DEF j, k
      <4> QED BY <4>1, <4>3
    <3>5. CASE k.at = "cutSlice" /\ ~k.fresh
      BY <1>1, <2>2, <3>5, NothingSound DEF At, Fresh
    <3> QED BY <3>1, <3>3, <3>4, <3>5
  <2> QED BY <2>1, <2>2
<1>3. tasks' \in [Ids -> Task \cup {None}]
  <2> HIDE DEF w
  <2> QED BY <1>1, <1>2
<1> QED BY <1>2, <1>3 DEF AllSound

(* A cut answered is of the large font of the font announced, which is the one shown. *)
LEMMA SubsetSound ==
  ASSUME FontInv, connected, NEW m, Subset(m)
  PROVE  AllSound(tasks', Shown)
<1>1. CASE m.id \notin pendingSubsets BY <1>1 DEF Subset, FontInv
<1>2. CASE m.id \in pendingSubsets
  <2> DEFINE t == m.id
  <2>1. t \in Ids /\ tasks[t] # None /\ tasks[t].at = "subset" BY <1>2 DEF pendingSubsets, At
  <2>2. Same(tasks[t].font, Shown)
    <3>1. CASE astray = None
      <4>1. announced # None /\ SourceOf[tasks[t].font] = SourceOf[announced] /\ announced = state.font
        BY <1>2, <3>1 DEF Subset, Offered, FontInv, LinkTold
      <4> QED BY <4>1, <3>1 DEF Shown, Same
    <3>2. CASE astray # None BY <3>2, <2>1, TaskFacts, FontAssumption DEF Shown, Same
    <3> QED BY <3>1, <3>2
  <2>3. Goes(t, "cutSlice") \/ Goes(t, "addCut") \/ Ends(t) BY <1>2 DEF Subset
  <2> HIDE DEF t
  <2>4. CASE Goes(t, "cutSlice") BY <2>1, <2>2, <2>4, GoesSound DEF Steps, CutSteps
  <2>5. CASE Goes(t, "addCut") BY <2>1, <2>2, <2>5, GoesSound DEF Steps, CutSteps
  <2> QED BY <2>3, <2>4, <2>5, EndsSound
<1> QED BY <1>1, <1>2

LEMMA StepAnswer ==
  ASSUME FontInv, Answer
  PROVE  FontInv'
<1>1. connected BY DEF Answer, FontInv, LinkTold
<1>2. UNCHANGED <<state, glyphRefs, page, link>> BY DEF Answer
<1>3. AllSound(tasks', Shown) /\ refused' \subseteq refused
  <2>1. CASE Slice(Head(wire))
    <3>1. refused' \subseteq refused BY <2>1 DEF Slice
    <3> QED BY <2>1, <3>1, SliceSound
  <2>2. CASE Subset(Head(wire)) /\ UNCHANGED device BY <1>1, <2>2, SubsetSound DEF device
  <2>3. CASE RejectPending /\ UNCHANGED device BY <2>3, RejectedSound DEF RejectPending, device
  <2> QED BY <2>1, <2>2, <2>3 DEF Answer
<1> QED BY <1>1, <1>2, <1>3, CallsOnly

LEMMA StepFont ==
  ASSUME FontInv, [FontNext]_fontVars
  PROVE  FontInv'
<1>1. ASSUME NEW t \in Ids, Continues(t) PROVE FontInv'
  BY <1>1, StepDecide, StepFileFailed, StepStartCut, StepCutFailed DEF Continues
<1>2. ASSUME NEW t \in Ids, Proceeds(t) PROVE FontInv'
  BY <1>2, StepReadsFace, StepRegisterEnds, StepRegisterFails, StepReadsCuts, StepCutsAdded, StepCutAdded
  DEF Proceeds
<1>3. CASE RequestExpires BY <1>3, StepExpires
<1>4. CASE UserStep BY <1>4, StepUser
<1>5. ASSUME NEW f \in Fonts, HostReports(f) PROVE FontInv' BY <1>5, StepHostReports
<1>6. CASE Answer BY <1>6, StepAnswer
<1>7. CASE LinkDrops \/ LinkReturns BY <1>7, StepLink
<1>8. CASE UNCHANGED fontVars
  <2>1. UNCHANGED <<state, glyphRefs, page, link, tasks, device, wire>> BY <1>8 DEF fontVars
  <2>2. AllSound(tasks', Shown) /\ refused' \subseteq refused BY <2>1 DEF FontInv, device
  <2> QED BY <2>1, <2>2, CallsOnly
<1> QED BY <1>1, <1>2, <1>3, <1>4, <1>5, <1>6, <1>7, <1>8 DEF FontNext

LEMMA CurrentFont == FontInv => FontIsCurrent
<1> SUFFICES ASSUME FontInv PROVE FontIsCurrent OBVIOUS
<1>1. CASE astray = None BY <1>1 DEF FontInv, LinkTold, Shows, Shown, FontIsCurrent
<1>2. CASE astray # None BY <1>2 DEF FontInv, LinkTold, Shows, FontIsCurrent, Blind
<1> QED BY <1>1, <1>2

(* The inductive invariant: types, what the link tells, what is shown and which     *)
(* calls are about it, for any number of fonts, calls and characters.             *)
THEOREM FontInvHolds == FontSpec => []FontInv
<1>1. FontInit => FontInv BY InitFont
<1>2. FontInv /\ [FontNext]_fontVars => FontInv' BY StepFont
<1> QED BY <1>1, <1>2, PTL DEF FontSpec

(* A window shows the font announced while there is a link, draws with its file only *)
(* when that is registered, and counts no character as held whose cut is of another   *)
(* large font, unless a refused copy of a font without a large one has led a call     *)
(* past the one await whose end does not look at generationRef (useHostFont.ts:283):   *)
(* every other await of evaluate, load and prefetchGlyphs does.                      *)
THEOREM FontStaysCurrent == FontSpec => []FontIsCurrent
<1>1. FontInv => FontIsCurrent BY CurrentFont
<1> QED BY <1>1, FontInvHolds, PTL
-----------------------------------------------------------------------------
(* Types: what has been asked for, and whose timer runs. *)
AskedTyped == asked \subseteq Chars /\ pendingSlices \subseteq timers

(* A request for a slice, its answer, its timer and a rejection keep the two together. *)
LEMMA PendingTimed ==
  ASSUME pendingSlices \subseteq timers, [FontNext]_fontVars
  PROVE  pendingSlices' \subseteq timers'
<1>1. ASSUME NEW t, NEW name, NEW queue, RequestChunk(t, name, queue) PROVE pendingSlices' \subseteq timers'
  BY <1>1 DEF RequestChunk
<1>2. ASSUME NEW t, NEW name, Expires(t, name) PROVE pendingSlices' \subseteq timers'
  <2>1. \A p \in pendingSlices' : p \in pendingSlices /\ p[1] # name BY <1>2 DEF Expires
  <2>2. \A p \in timers : p \in timers' \/ p = <<name, t>> BY <1>2 DEF Expires
  <2>3. <<name, t>>[1] = name OBVIOUS
  <2> QED BY <2>1, <2>2, <2>3
<1>3. ASSUME NEW m, Slice(m) PROVE pendingSlices' \subseteq timers' BY <1>3 DEF Slice
<1>4. CASE RejectPending BY <1>4 DEF RejectPending
<1>5. ASSUME NEW f, Evaluate(f) PROVE pendingSlices' \subseteq timers' BY <1>5 DEF Evaluate, requests
<1>6. CASE UNCHANGED requests BY <1>6 DEF requests
<1>7. CASE UNCHANGED fontVars BY <1>7, <1>6 DEF fontVars
<1>8. ASSUME NEW t \in Ids, Continues(t) \/ Proceeds(t) PROVE pendingSlices' \subseteq timers'
  <2>1. CASE Continues(t) BY <2>1, <1>6 DEF Continues, Decide, FileFailed, StartCut, CutFailed
  <2>2. CASE ReadsFace(t) BY <2>2, <1>1, <1>6 DEF ReadsFace, requests
  <2>3. CASE Proceeds(t) /\ ~ReadsFace(t)
    BY <2>3, <1>6 DEF Proceeds, FaceWritten, RegisterEnds, RegisterFails, ReadsCuts, CutsAdded, CutsRefused, CutAdded
  <2> QED BY <1>8, <2>1, <2>2, <2>3
<1>9. CASE UserStep BY <1>9, <1>6 DEF UserStep, Accept, Decline, Draw, BatchFires
<1>10. CASE RequestExpires BY <1>10, <1>2, <1>6 DEF RequestExpires
<1>11. CASE \E f \in Fonts : HostReports(f)
  <2>1. PICK f \in Fonts : HostReports(f) BY <1>11
  <2> QED BY <2>1, <1>5, <1>6 DEF HostReports
<1>12. CASE Answer
  <2>1. ASSUME NEW m, Subset(m) PROVE pendingSlices' \subseteq timers'
    BY <2>1, <1>1, <1>6 DEF Subset
  <2> QED BY <1>12, <2>1, <1>3, <1>4 DEF Answer
<1>13. CASE LinkDrops BY <1>13, <1>4 DEF LinkDrops
<1>14. CASE LinkReturns BY <1>14, <1>5 DEF LinkReturns
<1> QED BY <1>7, <1>8, <1>9, <1>10, <1>11, <1>12, <1>13, <1>14 DEF FontNext

LEMMA AskedStays ==
  ASSUME FontInv, asked \subseteq Chars, [FontNext]_fontVars
  PROVE  asked' \subseteq Chars
<1>1. ASSUME NEW f, Evaluate(f) PROVE asked' \subseteq Chars BY <1>1 DEF Evaluate
<1>2. CASE asked' = asked BY <1>2
<1>3. CASE UNCHANGED glyphRefs BY <1>3 DEF glyphRefs
<1>4. CASE UNCHANGED fontVars BY <1>4, <1>3 DEF fontVars
<1>5. ASSUME NEW t \in Ids, StartCut(t) PROVE asked' \subseteq Chars
  <2>1. tasks[t].chars \in SUBSET Chars BY <1>5, TaskFacts DEF StartCut, At
  <2> QED BY <1>5, <2>1 DEF StartCut, Chars
<1>6. ASSUME NEW t \in Ids, Continues(t), ~StartCut(t) PROVE asked' \subseteq Chars
  BY <1>6, <1>3 DEF Continues, Decide, FileFailed, CutFailed
<1>7. ASSUME NEW t \in Ids, Proceeds(t) PROVE asked' \subseteq Chars
  BY <1>7, <1>2, <1>3 DEF Proceeds, ReadsFace, FaceWritten, RegisterEnds, RegisterFails, ReadsCuts, CutsAdded,
     CutsRefused, CutAdded
<1>8. CASE RequestExpires \/ Answer \/ LinkDrops BY <1>8, <1>3 DEF RequestExpires, Answer, LinkDrops
<1>9. CASE UserStep BY <1>9, <1>2, <1>3 DEF UserStep, Accept, Decline, Draw, BatchFires
<1>10. CASE \E f \in Fonts : HostReports(f)
  <2>1. PICK f \in Fonts : HostReports(f) BY <1>10
  <2> QED BY <2>1, <1>1, <1>3 DEF HostReports
<1>11. CASE LinkReturns BY <1>11, <1>1 DEF LinkReturns
<1> QED BY <1>4, <1>5, <1>6, <1>7, <1>8, <1>9, <1>10, <1>11 DEF FontNext

(* The state of the hook, its calls, its refs and its maps hold what they are for *)
(* (hostFontState.ts, useHostFont.ts, useHostFontTransfer.ts).                   *)
THEOREM FontTypes == FontSpec => []FontTypeOK
<1>1. FontInit => AskedTyped BY DEF FontInit, AskedTyped
<1>2. FontInv /\ AskedTyped /\ [FontNext]_fontVars => AskedTyped'
  BY PendingTimed, AskedStays DEF AskedTyped
<1>3. FontInv /\ AskedTyped => FontTypeOK
  BY DEF FontInv, FontTyped, AllSound, AskedTyped, FontTypeOK, StateType, Chars
<1> QED BY <1>1, <1>2, <1>3, FontInvHolds, PTL DEF FontSpec
=============================================================================
