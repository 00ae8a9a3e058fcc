---------------------------- MODULE ServicesProofs ----------------------------
(* The processes of a workstation, for any services, commands, bounds and outcomes   *)
(* of a spawn: nobody but a start command that was not alone starts a second copy of  *)
(* a service or loses a process of another from the ledger; and a service that stood  *)
(* down stays down while its supervisor runs.                                        *)
EXTENDS Services, FiniteSetTheorems, TLAPS

(* Types.  A service that may be started once more has a name left for its process. *)
LEMMA FreshIsNamed ==
  ASSUME NEW n \in Names, CanStart(n)
  PROVE  Fresh(n) \in Procs /\ Fresh(n)[1] = n /\ proc[Fresh(n)] = "unborn"
  BY DEF CanStart, Fresh, Procs

(* What a start command keeps of its read. *)
Reads == [at : {"idle", "read"}, ledger : SUBSET Procs, sup : 0 .. MaxRuns,
          field : Fields, alone : BOOLEAN]

LEMMA NotAloneTyped ==
  ASSUME TypeOK
  PROVE  /\ NotAlone \in [Commands -> Reads]
         /\ \A c \in Commands :
              /\ NotAlone[c].at = cmd[c].at /\ NotAlone[c].ledger = cmd[c].ledger
              /\ NotAlone[c].field = cmd[c].field /\ NotAlone[c].alone = FALSE
  <1>1. cmd \in [Commands -> Reads] BY DEF TypeOK, Reads
  <1>2. \A c \in Commands : cmd[c] \in Reads BY <1>1
  <1>3. \A c \in Commands : NotAlone[c] = [cmd[c] EXCEPT !.alone = FALSE] BY DEF NotAlone
  <1>4. \A c \in Commands : NotAlone[c] \in Reads BY <1>2, <1>3 DEF Reads
  <1>5. NotAlone \in [Commands -> Reads] BY <1>4 DEF NotAlone
  <1> QED BY <1>2, <1>3, <1>5 DEF Reads

(* What becomes of processes that are signalled. *)
LEMMA BecomeTyped ==
  ASSUME proc \in [Procs -> Fates], NEW S, NEW was, NEW fate \in Fates
  PROVE  Become(S, was, fate) \in [Procs -> Fates]
  BY DEF Become

(* What persistPids and spawnChild write. *)
LEMMA PersistTyped ==
  ASSUME TypeOK, child' \in Fields, Persist
  PROVE  ledger' \in SUBSET Procs /\ supPid' \in 0 .. MaxRuns /\ field' \in Fields
  BY DEF TypeOK, Persist, Fields, Alive

LEMMA SpawnTyped ==
  ASSUME TypeOK, NEW N \in SUBSET Names, NEW before \in [Procs -> Fates],
         \A n \in N : CanStart(n), Spawn(N, before)
  PROVE  /\ child' \in Fields /\ proc' \in [Procs -> Fates] /\ timer' \in SUBSET Names
         /\ ledger' \in SUBSET Procs /\ supPid' \in 0 .. MaxRuns /\ field' \in Fields
  <1>1. PICK o \in [N -> SpawnOutcomes] :
          LET born == {n \in N : o[n] # "throws"} IN
          /\ child' = [n \in Names |-> IF n \in born THEN Fresh(n) ELSE child[n]]
          /\ proc' = [p \in Procs |->
               IF \E n \in born : p = Fresh(n)
               THEN IF o[p[1]] = "runs" THEN "live" ELSE "ghost"
               ELSE before[p]]
          /\ timer' = (timer \ N) \cup (N \ born)
          /\ IF born = {} /\ phase = "up" THEN UNCHANGED file ELSE Persist
    BY DEF Spawn
  <1> DEFINE born == {n \in N : o[n] # "throws"}
  <1>2. /\ child' = [n \in Names |-> IF n \in born THEN Fresh(n) ELSE child[n]]
        /\ proc' = [p \in Procs |->
               IF \E n \in born : p = Fresh(n)
               THEN IF o[p[1]] = "runs" THEN "live" ELSE "ghost"
               ELSE before[p]]
        /\ timer' = (timer \ N) \cup (N \ born)
        /\ IF born = {} /\ phase = "up" THEN UNCHANGED file ELSE Persist
    BY <1>1
  <1>3. \A n \in born : Fresh(n) \in Procs BY FreshIsNamed
  <1> HIDE DEF born
  <1>4. child' \in Fields BY <1>2, <1>3 DEF TypeOK, Fields
  <1>5. proc' \in [Procs -> Fates] BY <1>2 DEF Fates
  <1>6. timer' \in SUBSET Names BY <1>2 DEF TypeOK
  <1>7. ledger' \in SUBSET Procs /\ supPid' \in 0 .. MaxRuns /\ field' \in Fields
    BY <1>2, <1>4, PersistTyped DEF TypeOK, file
  <1> QED BY <1>4, <1>5, <1>6, <1>7

LEMMA InitTypes == Init => TypeOK
  <1> SUFFICES ASSUME Init PROVE TypeOK OBVIOUS
  <1>1. NoField \in Fields BY DEF NoField, Fields
  <1>2. 0 \in 0 .. MaxRuns BY ServicesAssumption
  <1>3. Idle \in Reads BY <1>1, <1>2 DEF Idle, Reads
  <1>4. cmd \in [Commands -> Reads] BY <1>3 DEF Init
  <1> QED BY <1>1, <1>2, <1>4 DEF Init, TypeOK, Fates, Reads

(* The supervisor's own steps. *)
LEMMA SupervisorTypes ==
  ASSUME TypeOK, Launch \/ Reclaimed \/ Stop \/ Stopped \/ Crash
  PROVE  TypeOK'
  <1>1. NoField \in Fields BY DEF NoField, Fields
  <1>2. 0 \in 0 .. MaxRuns BY ServicesAssumption
  <1>3. \A S : Tell(S) \in [Procs -> Fates] /\ KillLeft(S) \in [Procs -> Fates]
    BY BecomeTyped DEF TypeOK, Tell, KillLeft, Fates
  <1>4. CASE Launch
    <2>1. run' \in 0 .. MaxRuns BY <1>4, ServicesAssumption DEF Launch, TypeOK
    <2>2. strays' \in SUBSET Procs BY <1>4 DEF Launch, Alive
    <2>3. proc' \in [Procs -> Fates] BY <1>3, <1>4 DEF Launch
    <2>4. cmd' \in [Commands -> Reads] BY <1>4, NotAloneTyped DEF Launch
    <2> QED BY <1>4, <2>1, <2>2, <2>3, <2>4 DEF Launch, TypeOK, file, Reads
  <1>5. CASE Reclaimed
    <2>1. /\ child' \in Fields /\ proc' \in [Procs -> Fates] /\ timer' \in SUBSET Names
          /\ ledger' \in SUBSET Procs /\ supPid' \in 0 .. MaxRuns /\ field' \in Fields
      BY <1>3, <1>5, SpawnTyped DEF Reclaimed
    <2> QED BY <1>5, <2>1 DEF Reclaimed, TypeOK
  <1>6. CASE Stop
    <2>1. proc' \in [Procs -> Fates] BY <1>3, <1>6 DEF Stop, TypeOK
    <2> QED BY <1>6, <2>1 DEF Stop, TypeOK, file
  <1>7. CASE Stopped
    <2>1. proc' \in [Procs -> Fates] BY <1>3, <1>7 DEF Stopped
    <2> QED BY <1>1, <1>2, <1>7, <2>1 DEF Stopped, TypeOK
  <1>8. CASE Crash BY <1>1, <1>8 DEF Crash, TypeOK, file
  <1> QED BY <1>4, <1>5, <1>6, <1>7, <1>8

(* A service ends, its child is noted as gone, and it is started again. *)
LEMMA ChildTypes ==
  ASSUME TypeOK, (\E n \in Names : ChildExit(n) \/ Restart(n)) \/ \E p \in Procs : Die(p)
  PROVE  TypeOK'
  <1>1. ASSUME NEW n \in Names, ChildExit(n) PROVE TypeOK'
    <2>1. child' \in Fields BY <1>1 DEF ChildExit, TypeOK, Fields
    <2>2. ledger' \in SUBSET Procs /\ supPid' \in 0 .. MaxRuns /\ field' \in Fields
      BY <1>1, <2>1, PersistTyped DEF ChildExit
    <2>3. timer' \in SUBSET Names /\ stoodDown' \in SUBSET Names
      BY <1>1 DEF ChildExit, AfterExit, TypeOK
    <2> QED BY <1>1, <2>1, <2>2, <2>3 DEF ChildExit, TypeOK
  <1>2. ASSUME NEW n \in Names, Restart(n) PROVE TypeOK'
    <2>1. CanStart(n) /\ Spawn({n}, proc) /\ proc \in [Procs -> Fates] BY <1>2 DEF Restart, TypeOK
    <2>2. /\ child' \in Fields /\ proc' \in [Procs -> Fates] /\ timer' \in SUBSET Names
          /\ ledger' \in SUBSET Procs /\ supPid' \in 0 .. MaxRuns /\ field' \in Fields
      BY <2>1, SpawnTyped
    <2> QED BY <1>2, <2>2 DEF Restart, TypeOK
  <1>3. ASSUME NEW p \in Procs, Die(p) PROVE TypeOK'
    <2>1. PICK fate \in Fates : proc' = [proc EXCEPT ![p] = fate] BY <1>3 DEF Die, Fates
    <2>2. proc' \in [Procs -> Fates] BY <2>1 DEF TypeOK
    <2> QED BY <1>3, <2>2 DEF Die, TypeOK, supervisor, file
  <1> QED BY <1>1, <1>2, <1>3

(* The commands. *)
LEMMA CommandTypes ==
  ASSUME TypeOK, (\E c \in Commands : StartRead(c) \/ StartServices(c)) \/ StopServices
  PROVE  TypeOK'
  <1>1. NoField \in Fields BY DEF NoField, Fields
  <1>2. 0 \in 0 .. MaxRuns BY ServicesAssumption
  <1>3. Idle \in Reads BY <1>1, <1>2 DEF Idle, Reads
  <1>4. cmd \in [Commands -> Reads] BY DEF TypeOK, Reads
  <1>5. ASSUME NEW c \in Commands, StartRead(c) PROVE TypeOK'
    <2> DEFINE r == [at |-> "read", ledger |-> ledger \cap Alive(proc), sup |-> supPid, field |-> field,
                     alone |-> phase = "off" /\ \A d \in Commands : cmd[d].at = "idle"]
    <2>1. r \in Reads BY DEF TypeOK, Reads
    <2>2. cmd' = [NotAlone EXCEPT ![c] = r] BY <1>5 DEF StartRead
    <2> HIDE DEF r
    <2>3. cmd' \in [Commands -> Reads] BY <2>1, <2>2, NotAloneTyped
    <2> QED BY <1>5, <2>3 DEF StartRead, TypeOK, Reads, supervisor, file
  <1>6. ASSUME NEW c \in Commands, StartServices(c) PROVE TypeOK'
    <2> DEFINE missing == {n \in Names : cmd[c].field[n] \notin cmd[c].ledger}
               new == {Fresh(n) : n \in missing}
    <2>1. /\ \A n \in missing : CanStart(n)
          /\ proc' = Become(new, {"unborn"}, "live")
          /\ \/ /\ ledger' = (cmd[c].ledger \cap Alive(proc)) \cup new
                /\ supPid' = cmd[c].sup
                /\ field' = [n \in Names |-> IF n \in missing THEN Fresh(n) ELSE cmd[c].field[n]]
             \/ UNCHANGED file
          /\ apart' \in {apart, apart \cup new \cup (ledger \ ledger')}
          /\ cmd' = [cmd EXCEPT ![c] = Idle] /\ UNCHANGED supervisor
      BY <1>6 DEF StartServices
    <2>2. \A n \in missing : Fresh(n) \in Procs BY <2>1, FreshIsNamed
    <2> HIDE DEF missing
    <2>3. ledger' \in SUBSET Procs BY <2>1, <2>2 DEF Alive, TypeOK, file
    <2>4. cmd[c].field \in Fields /\ cmd[c].sup \in 0 .. MaxRuns BY <1>4 DEF Reads
    <2>5. field' \in Fields /\ supPid' \in 0 .. MaxRuns
      BY <2>1, <2>2, <2>4 DEF Fields, TypeOK, file
    <2>6. proc' \in [Procs -> Fates] BY <2>1, BecomeTyped DEF TypeOK, Fates
    <2>7. cmd' \in [Commands -> Reads] BY <1>3, <1>4, <2>1
    <2>8. apart' \in SUBSET Procs BY <2>1, <2>2 DEF TypeOK
    <2> QED BY <2>1, <2>3, <2>5, <2>6, <2>7, <2>8 DEF TypeOK, Reads, supervisor
  <1>7. CASE StopServices
    <2>1. \A S : Tell(S) \in [Procs -> Fates] BY BecomeTyped DEF TypeOK, Tell, Fates
    <2>2. proc' \in [Procs -> Fates] BY <1>7, <2>1 DEF StopServices
    <2>3. phase' \in {"off", "reclaiming", "up", "stopping"} /\ timer' \in SUBSET Names
          /\ UNCHANGED <<run, strays, child, stoodDown, apart>>
          /\ ledger' = {} /\ supPid' = 0 /\ field' = NoField
      BY <1>7 DEF StopServices, TypeOK, supervisor
    <2>4. cmd' \in [Commands -> Reads] BY <1>7, NotAloneTyped DEF StopServices
    <2> QED BY <1>1, <1>2, <2>2, <2>3, <2>4 DEF TypeOK, Reads
  <1> QED BY <1>5, <1>6, <1>7

(* The types are kept by every step. *)
LEMMA TypesNext == TypeOK /\ [Next]_vars => TypeOK'
  <1>1. TypeOK /\ UNCHANGED vars => TypeOK' BY DEF TypeOK, vars, supervisor, file
  <1> QED BY <1>1, SupervisorTypes, ChildTypes, CommandTypes DEF Next

(* Whoever starts, stops and crashes, beside one another or not: the supervisor's    *)
(* maps, runtime.json and what a start command read of it name services and their     *)
(* processes, and a process that is started has a name of its service left.          *)
THEOREM ServicesTypes == Spec => []TypeOK
  BY InitTypes, TypesNext, PTL DEF Spec

-----------------------------------------------------------------------------
(* The processes that a start command which was not alone has not disturbed. *)
Mine(n) == Live(n) \ apart

(* Whoever ran what runs now left it on record: in the ledger, which is all a supervisor *)
(* reclaims, and in the field of its service, which is all a start command looks at.      *)
OnRecord == \A n \in Names : Mine(n) \subseteq ledger \cap {field[n]}

(* What runs under a supervisor it has as a child, and none runs while it reclaims or  *)
(* stops.                                                                             *)
View == \A n \in Names : Mine(n) \subseteq {child[n]}
Supervised ==
  /\ phase \in {"off", "reclaiming"} => child = NoField
  /\ phase \in {"reclaiming", "stopping"} => \A n \in Names : Mine(n) = {}
  /\ phase = "up" => View /\ \A n \in timer : child[n] = None

(* What a start command has read is still so, but for what has ended since, or, if it   *)
(* was not alone, for what it did not read.                                            *)
AloneStill(c) ==
  /\ phase = "off"
  /\ ledger \cap Alive(proc) \subseteq cmd[c].ledger
  /\ \A d \in Commands \ {c} : cmd[d].at = "idle"
ReadIsTrue ==
  \A c \in Commands : cmd[c].at = "read" =>
    /\ cmd[c].alone => AloneStill(c)
    /\ \A p \in cmd[c].ledger : proc[p] # "unborn"
    /\ \A n \in Names : \A p \in Mine(n) : p \in cmd[c].ledger => cmd[c].field[n] = p

ServicesInv == OnRecord /\ Supervised /\ ReadIsTrue

(* What TypeOK says of the maps. *)
LEMMA Domains ==
  ASSUME TypeOK
  PROVE  /\ DOMAIN child = Names /\ DOMAIN proc = Procs /\ timer \subseteq Names
         /\ ledger \subseteq Procs /\ DOMAIN cmd = Commands
         /\ \A c \in Commands : cmd[c] \in Reads /\ cmd[c].ledger \subseteq Procs
         /\ \A n \in Names : Live(n) \subseteq Procs
  BY DEF TypeOK, Fields, Reads, Live

(* Processes only end, unless a step says which it starts. *)
LEMMA TellQuiets ==
  ASSUME DOMAIN proc = Procs, NEW S, proc' = Tell(S)
  PROVE  /\ \A n : Live(n)' = Live(n) \ S
         /\ \A p \in Procs : (proc[p] = "unborn") <=> (proc'[p] = "unborn")
         /\ Alive(proc') = Alive(proc)
  BY DEF Tell, Become, Live, Alive

(* A process that was killed is neither live nor alive. *)
LEMMA KillQuiets ==
  ASSUME DOMAIN proc = Procs, NEW S, proc' = KillLeft(S)
  PROVE  /\ \A n : Live(n)' = Live(n) \ S
         /\ \A p \in Procs : (proc[p] = "unborn") <=> (proc'[p] = "unborn")
         /\ Alive(proc') = Alive(proc) \ S
  BY DEF KillLeft, Become, Live, Alive

(* A live process is one that a pid still names. *)
LEMMA LiveAlive == \A n : Live(n) \subseteq Alive(proc)
  BY DEF Live, Alive

(* The reads stay true while processes only end, or start for the first time, and a     *)
(* read that was alone is so no more, or is still.                                     *)
LEMMA ReadsKept ==
  ASSUME TypeOK, ReadIsTrue, cmd' = cmd \/ cmd' = NotAlone,
         \A n \in Names : \A p \in Mine(n)' : p \in Mine(n) \/ proc[p] = "unborn",
         \A p \in Procs : proc[p] # "unborn" => proc'[p] # "unborn",
         \/ cmd' = NotAlone
         \/ phase # "off"
         \/ phase' = "off" /\ ledger' = ledger /\ Alive(proc') \subseteq Alive(proc)
  PROVE  ReadIsTrue'
  <1> SUFFICES ASSUME NEW c \in Commands, cmd'[c].at = "read"
               PROVE  /\ cmd'[c].alone => AloneStill(c)'
                      /\ \A p \in cmd'[c].ledger : proc'[p] # "unborn"
                      /\ \A n \in Names : \A p \in Mine(n)' :
                           p \in cmd'[c].ledger => cmd'[c].field[n] = p
    BY DEF ReadIsTrue
  <1>1. /\ cmd'[c].at = cmd[c].at /\ cmd'[c].ledger = cmd[c].ledger /\ cmd'[c].field = cmd[c].field
        /\ cmd' = NotAlone => cmd'[c].alone = FALSE
    BY NotAloneTyped
  <1>2. /\ cmd[c].alone => AloneStill(c)
        /\ \A p \in cmd[c].ledger : proc[p] # "unborn"
        /\ \A n \in Names : \A p \in Mine(n) : p \in cmd[c].ledger => cmd[c].field[n] = p
    BY <1>1 DEF ReadIsTrue
  <1>3. ASSUME cmd'[c].alone PROVE AloneStill(c)'
    <2>1. cmd' = cmd BY <1>1, <1>3
    <2>2. AloneStill(c) BY <1>2, <1>3, <2>1
    <2>3. phase' = "off" /\ ledger' = ledger /\ Alive(proc') \subseteq Alive(proc)
      BY <1>1, <1>3, <2>2 DEF AloneStill
    <2> QED BY <2>1, <2>2, <2>3 DEF AloneStill
  <1>4. \A p \in cmd'[c].ledger : proc'[p] # "unborn" BY <1>1, <1>2, Domains
  <1>5. \A n \in Names : \A p \in Mine(n)' : p \in cmd'[c].ledger => cmd'[c].field[n] = p
    BY <1>1, <1>2
  <1> QED BY <1>3, <1>4, <1>5

(* The invariant holds at first. *)
LEMMA ServicesInit == Init => ServicesInv
  BY DEF Init, ServicesInv, OnRecord, Supervised, View, ReadIsTrue, Mine, Live, NoField, Idle

(* A supervisor that starts signals all that ran before it. *)
LEMMA LaunchStep ==
  ASSUME TypeOK, ServicesInv, Launch
  PROVE  ServicesInv'
  <1>1. OnRecord /\ Supervised /\ ReadIsTrue BY DEF ServicesInv
  <1>2. /\ phase = "off" /\ phase' = "reclaiming" /\ child' = child /\ apart' = apart
        /\ proc' = Tell(ledger \cap Alive(proc)) /\ cmd' = NotAlone
    BY DEF Launch, file
  <1>3. /\ \A n \in Names : Live(n)' = Live(n) \ (ledger \cap Alive(proc))
        /\ \A p \in Procs : (proc[p] = "unborn") <=> (proc'[p] = "unborn")
    BY <1>2, TellQuiets, Domains
  <1>4. \A n \in Names : Mine(n)' = {}
    BY <1>1, <1>2, <1>3, LiveAlive DEF OnRecord, Mine
  <1>5. OnRecord' BY <1>4 DEF OnRecord
  <1>6. Supervised' BY <1>1, <1>2, <1>4 DEF Supervised
  <1>7. ReadIsTrue' BY <1>1, <1>2, <1>3, <1>4, ReadsKept
  <1> QED BY <1>5, <1>6, <1>7 DEF ServicesInv

(* What a write of the pids leaves on record, if the supervisor's view is right. *)
LEMMA PersistRecords ==
  ASSUME DOMAIN child' = Names, DOMAIN proc' = Procs, View', Persist
  PROVE  OnRecord'
  <1>1. /\ ledger' = (ledger \cup Range(child')) \cap Alive(proc')
        /\ field' = [n \in Names |->
             IF child'[n] # None /\ proc'[child'[n]] # "ghost" THEN child'[n] ELSE None]
    BY DEF Persist
  <1>2. ASSUME NEW n \in Names, NEW p \in Mine(n)' PROVE p \in ledger' /\ p = field'[n]
    <2>1. p = child'[n] /\ p \in Procs /\ proc'[p] = "live" BY <1>2 DEF View, Mine, Live
    <2>2. p # None BY <2>1, ServicesAssumption DEF Procs
    <2>3. p \in Range(child') BY <1>2, <2>1 DEF Range
    <2>4. p \in Alive(proc') BY <2>1 DEF Alive
    <2> QED BY <1>1, <1>2, <2>1, <2>2, <2>3, <2>4
  <1> QED BY <1>1, <1>2 DEF OnRecord

(* A spawn adds a child, never run before, where there was none. *)
LEMMA SpawnChildren ==
  ASSUME TypeOK, NEW N \in SUBSET Names, NEW before, DOMAIN before = Procs, apart' = apart,
         \A n \in N : child[n] = None /\ CanStart(n),
         \A p \in Procs : before[p] = "live" => proc[p] = "live",
         \A p \in Procs : before[p] = "unborn" <=> proc[p] = "unborn",
         \A p \in Procs \ apart : before[p] = "live" => p[1] \in Names \ N /\ p = child[p[1]],
         Spawn(N, before)
  PROVE  /\ View'
         /\ \A n \in Names \ N : child'[n] = child[n]
         /\ \A n \in timer' : n \in timer \/ n \in N
         /\ \A n \in timer' \cap N : child'[n] = None
         /\ \A n \in Names : \A p \in Mine(n)' : p \in Mine(n) \/ proc[p] = "unborn"
         /\ \A p \in Procs : proc[p] # "unborn" => proc'[p] # "unborn"
         /\ \A p \in Procs : proc[p] = "unborn" /\ proc'[p] = "live" => Persist /\ p \in Range(child')
         /\ \/ Persist
            \/ /\ phase = "up" /\ UNCHANGED <<ledger, supPid, field>>
               /\ \A p \in Procs : proc'[p] = before[p]
  <1>1. PICK o \in [N -> SpawnOutcomes] :
          LET born == {n \in N : o[n] # "throws"} IN
          /\ child' = [n \in Names |-> IF n \in born THEN Fresh(n) ELSE child[n]]
          /\ proc' = [p \in Procs |->
               IF \E n \in born : p = Fresh(n)
               THEN IF o[p[1]] = "runs" THEN "live" ELSE "ghost"
               ELSE before[p]]
          /\ timer' = (timer \ N) \cup (N \ born)
          /\ IF born = {} /\ phase = "up" THEN UNCHANGED file ELSE Persist
    BY DEF Spawn
  <1> DEFINE born == {n \in N : o[n] # "throws"}
  <1>2. /\ child' = [n \in Names |-> IF n \in born THEN Fresh(n) ELSE child[n]]
        /\ proc' = [p \in Procs |->
               IF \E n \in born : p = Fresh(n)
               THEN IF o[p[1]] = "runs" THEN "live" ELSE "ghost"
               ELSE before[p]]
        /\ timer' = (timer \ N) \cup (N \ born)
        /\ IF born = {} /\ phase = "up" THEN UNCHANGED file ELSE Persist
    BY <1>1
  <1> HIDE DEF born
  <1>3. born \subseteq N BY DEF born
  <1>4. \A n \in born : Fresh(n) \in Procs /\ Fresh(n)[1] = n /\ proc[Fresh(n)] = "unborn"
    BY <1>3, FreshIsNamed
  <1>5. ASSUME NEW n \in Names, NEW p \in Mine(n)'
        PROVE  p = child'[n] /\ (p \in Mine(n) \/ proc[p] = "unborn")
    <2>1. p \in Procs /\ p[1] = n /\ proc'[p] = "live" /\ p \notin apart BY <1>5 DEF Mine, Live
    <2>2. CASE \E m \in born : p = Fresh(m) BY <1>2, <1>4, <1>5, <2>1, <2>2
    <2>3. CASE ~\E m \in born : p = Fresh(m)
      <3>1. before[p] = "live" BY <1>2, <2>1, <2>3
      <3>2. n \in Names \ N /\ p = child[n] BY <2>1, <3>1
      <3>3. p \in Mine(n) BY <2>1, <3>1 DEF Mine, Live
      <3> QED BY <1>2, <1>3, <3>2, <3>3
    <2> QED BY <2>2, <2>3
  <1>6. View' BY <1>5 DEF View
  <1>7. \A n \in Names \ N : child'[n] = child[n] BY <1>2, <1>3
  <1>8. \A n \in timer' : n \in timer \/ n \in N BY <1>2
  <1>9. \A n \in timer' \cap N : child'[n] = None BY <1>2, <1>3
  <1>10. \A p \in Procs : proc[p] # "unborn" => proc'[p] # "unborn" BY <1>2
  <1>11. ASSUME NEW p \in Procs, proc[p] = "unborn", proc'[p] = "live"
         PROVE  Persist /\ p \in Range(child')
    <2>1. PICK n \in born : p = Fresh(n) BY <1>2, <1>11
    <2>2. p = child'[n] /\ n \in Names BY <1>2, <1>3, <2>1
    <2>3. DOMAIN child' = Names BY <1>2
    <2>4. p \in Range(child') BY <2>2, <2>3 DEF Range
    <2> QED BY <1>2, <2>1, <2>4
  <1>12. \/ Persist
         \/ /\ phase = "up" /\ UNCHANGED <<ledger, supPid, field>>
            /\ \A p \in Procs : proc'[p] = before[p]
    <2>1. CASE Persist BY <2>1
    <2>2. CASE ~Persist
      <3>1. born = {} /\ phase = "up" /\ UNCHANGED file BY <1>2, <2>2
      <3> QED BY <1>2, <3>1 DEF file
    <2> QED BY <2>1, <2>2
  <1>13. \A n \in Names : \A p \in Mine(n)' : p \in Mine(n) \/ proc[p] = "unborn" BY <1>5
  <1> QED BY <1>6, <1>7, <1>8, <1>9, <1>10, <1>11, <1>12, <1>13

(* The strays are gone when the children start. *)
LEMMA ReclaimedSpawns ==
  ASSUME TypeOK, ServicesInv, Reclaimed
  PROVE  /\ phase = "reclaiming" /\ phase' = "up" /\ cmd' = cmd /\ Persist /\ View'
         /\ \A n \in timer' : child'[n] = None
         /\ \A n \in Names : \A p \in Mine(n)' : p \in Mine(n) \/ proc[p] = "unborn"
         /\ \A p \in Procs : proc[p] # "unborn" => proc'[p] # "unborn"
         /\ \A p \in Procs : proc[p] = "unborn" /\ proc'[p] = "live" => p \in Range(child')
  <1> DEFINE before == KillLeft(strays)
  <1>1. /\ phase = "reclaiming" /\ phase' = "up" /\ Spawn(Names, before)
        /\ cmd' = cmd /\ apart' = apart
    BY DEF Reclaimed
  <1>2. \A n \in Names : child[n] = None /\ Mine(n) = {} /\ CanStart(n)
    BY <1>1 DEF Reclaimed, ServicesInv, Supervised, NoField
  <1>3. /\ DOMAIN before = Procs
        /\ \A p \in Procs : before[p] = "live" => proc[p] = "live"
        /\ \A p \in Procs : before[p] = "unborn" <=> proc[p] = "unborn"
    BY DEF KillLeft, Become
  <1> HIDE DEF before
  <1>4. \A p \in Procs \ apart : before[p] # "live"
    <2>1. \A p \in Procs : p[1] \in Names BY DEF Procs
    <2> QED BY <1>2, <1>3, <2>1 DEF Mine, Live
  <1>5. timer \subseteq Names BY Domains
  <1> QED BY <1>1, <1>2, <1>3, <1>4, <1>5, SpawnChildren

LEMMA ReclaimedStep ==
  ASSUME TypeOK, TypeOK', ServicesInv, Reclaimed
  PROVE  ServicesInv'
  <1>1. OnRecord' BY ReclaimedSpawns, PersistRecords DEF TypeOK, Fields
  <1>2. Supervised' BY ReclaimedSpawns DEF Supervised
  <1>3. ReadIsTrue' BY ReclaimedSpawns, ReadsKept DEF ServicesInv
  <1> QED BY <1>1, <1>2, <1>3 DEF ServicesInv

(* The restart timer starts the child that is missing. *)
LEMMA RestartSpawns ==
  ASSUME TypeOK, ServicesInv, NEW n \in Names, Restart(n)
  PROVE  /\ phase = "up" /\ phase' = "up" /\ cmd' = cmd /\ View'
         /\ \A m \in timer' : child'[m] = None
         /\ \A m \in Names : \A p \in Mine(m)' : p \in Mine(m) \/ proc[p] = "unborn"
         /\ \A p \in Procs : proc[p] # "unborn" => proc'[p] # "unborn"
         /\ \A p \in Procs : proc[p] = "unborn" /\ proc'[p] = "live" => Persist /\ p \in Range(child')
         /\ \/ Persist
            \/ UNCHANGED <<ledger, field>>
  <1> DEFINE N == {n}
  <1>1. /\ phase = "up" /\ phase' = "up" /\ n \in timer /\ Spawn(N, proc)
        /\ cmd' = cmd /\ apart' = apart /\ CanStart(n)
    BY DEF Restart
  <1>2. View /\ (\A m \in timer : child[m] = None) /\ timer \subseteq Names
    BY <1>1, Domains DEF ServicesInv, Supervised
  <1>3. ASSUME NEW p \in Procs \ apart, proc[p] = "live" PROVE p[1] \in Names \ N /\ p = child[p[1]]
    <2>1. p[1] \in Names BY DEF Procs
    <2>2. p = child[p[1]] BY <1>2, <1>3, <2>1 DEF View, Mine, Live
    <2>3. p # None BY ServicesAssumption DEF Procs
    <2> QED BY <1>1, <1>2, <2>1, <2>2, <2>3
  <1>4. N \in SUBSET Names /\ DOMAIN proc = Procs /\ \A m \in N : child[m] = None /\ CanStart(m)
    BY <1>1, <1>2, Domains
  <1> HIDE DEF N
  <1>5. /\ View'
        /\ \A m \in Names \ N : child'[m] = child[m]
        /\ \A m \in timer' : m \in timer \/ m \in N
        /\ \A m \in timer' \cap N : child'[m] = None
        /\ \A m \in Names : \A p \in Mine(m)' : p \in Mine(m) \/ proc[p] = "unborn"
        /\ \A p \in Procs : proc[p] # "unborn" => proc'[p] # "unborn"
        /\ \A p \in Procs : proc[p] = "unborn" /\ proc'[p] = "live" => Persist /\ p \in Range(child')
        /\ (Persist \/ UNCHANGED <<ledger, field>>)
    BY <1>1, <1>3, <1>4, SpawnChildren
  <1>6. \A m \in timer' : child'[m] = None BY <1>2, <1>5
  <1> QED BY <1>1, <1>5, <1>6

LEMMA RestartStep ==
  ASSUME TypeOK, TypeOK', ServicesInv, NEW n \in Names, Restart(n)
  PROVE  ServicesInv'
  <1>1. OnRecord'
    <2>1. CASE Persist BY <2>1, RestartSpawns, PersistRecords DEF TypeOK, Fields
    <2>2. CASE ~Persist
      <3>1. \A m \in Names : Mine(m)' \subseteq Mine(m) /\ UNCHANGED <<ledger, field>>
        BY <2>2, RestartSpawns DEF Mine, Live
      <3> QED BY <3>1 DEF ServicesInv, OnRecord
    <2> QED BY <2>1, <2>2
  <1>2. Supervised' BY RestartSpawns DEF Supervised
  <1>3. ReadIsTrue' BY RestartSpawns, ReadsKept DEF ServicesInv
  <1> QED BY <1>1, <1>2, <1>3 DEF ServicesInv

(* A child that has ended leaves its place. *)
LEMMA ChildExitStep ==
  ASSUME TypeOK, TypeOK', ServicesInv, NEW n \in Names, ChildExit(n)
  PROVE  ServicesInv'
  <1>1. OnRecord /\ Supervised /\ ReadIsTrue BY DEF ServicesInv
  <1>2. /\ phase \in {"up", "stopping"} /\ phase' = phase
        /\ child[n] # None /\ proc[child[n]] \in {"gone", "stood down"}
        /\ child' = [child EXCEPT ![n] = None] /\ UNCHANGED <<proc, cmd, apart>>
        /\ Persist
        /\ timer' = timer \/ timer' = timer \cup {n}
    BY DEF ChildExit, AfterExit
  <1>3. \A m \in Names : Mine(m)' = Mine(m) BY <1>2 DEF Mine, Live
  <1>4. DOMAIN child = Names /\ timer \subseteq Names BY Domains
  <1>5. View'
    <2>1. ASSUME NEW m \in Names, NEW p \in Mine(m) PROVE p = child'[m]
      <3>1. p = child[m] /\ proc[p] = "live" BY <1>1, <1>2, <2>1 DEF Supervised, View, Mine, Live
      <3>2. m # n BY <1>2, <3>1
      <3> QED BY <1>2, <1>4, <3>1, <3>2
    <2> QED BY <1>3, <2>1 DEF View
  <1>6. OnRecord' BY <1>2, <1>5, PersistRecords DEF TypeOK, Fields
  <1>7. ASSUME phase = "up" PROVE \A m \in timer' : child'[m] = None
    <2>1. \A m \in timer : m \in Names /\ child[m] = None BY <1>1, <1>4, <1>7 DEF Supervised
    <2>2. child'[n] = None /\ \A m \in Names : m # n => child'[m] = child[m] BY <1>2, <1>4
    <2>3. \A m \in timer' : m \in timer \/ m = n BY <1>2
    <2> QED BY <2>1, <2>2, <2>3
  <1>8. Supervised' BY <1>1, <1>2, <1>3, <1>5, <1>7 DEF Supervised
  <1>9. ReadIsTrue' BY <1>1, <1>2, <1>3, ReadsKept
  <1> QED BY <1>6, <1>8, <1>9 DEF ServicesInv

(* A supervisor told to end tells its children; one that is killed leaves them. *)
LEMMA EndsStep ==
  ASSUME TypeOK, ServicesInv, Stop \/ Stopped \/ Crash
  PROVE  ServicesInv'
  <1>1. OnRecord /\ Supervised /\ ReadIsTrue BY DEF ServicesInv
  <1>2. CASE Stop /\ phase = "up"
    <2>1. /\ phase' = "stopping" /\ timer' = {} /\ proc' = Tell(Children)
          /\ UNCHANGED <<child, ledger, field, cmd, apart>>
      BY <1>2 DEF Stop, file
    <2>2. /\ \A n \in Names : Live(n)' = Live(n) \ Children
          /\ \A p \in Procs : (proc[p] = "unborn") <=> (proc'[p] = "unborn")
      BY <2>1, TellQuiets, Domains
    <2>3. ASSUME NEW n \in Names PROVE Mine(n)' = {}
      <3>1. \A p \in Mine(n) : p = child[n] /\ p # None
        BY <1>1, <1>2, ServicesAssumption DEF Supervised, View, Mine, Live, Procs
      <3>2. Mine(n) \subseteq Children BY <3>1, Domains DEF Children, Range
      <3> QED BY <2>1, <2>2, <3>2 DEF Mine
    <2>4. OnRecord' /\ Supervised' BY <2>1, <2>3 DEF OnRecord, Supervised
    <2>5. ReadIsTrue' BY <1>1, <1>2, <2>1, <2>2, <2>3, ReadsKept
    <2> QED BY <2>4, <2>5 DEF ServicesInv
  <1>3. CASE Stop /\ phase # "up"
    <2>1. /\ phase = "reclaiming" /\ phase' = "off"
          /\ UNCHANGED <<child, ledger, field, cmd, timer, proc, apart>>
      BY <1>3 DEF Stop, file
    <2>2. \A n \in Names : Mine(n)' = Mine(n) BY <2>1 DEF Mine, Live
    <2>3. OnRecord' /\ Supervised' BY <1>1, <2>1, <2>2 DEF OnRecord, Supervised
    <2>4. ReadIsTrue' BY <1>1, <2>1, <2>2, ReadsKept
    <2> QED BY <2>3, <2>4 DEF ServicesInv
  <1>4. CASE Stopped
    <2>1. /\ phase = "stopping" /\ phase' = "off" /\ child' = NoField /\ proc' = KillLeft(Children)
          /\ UNCHANGED <<timer, cmd, apart>>
      BY <1>4 DEF Stopped
    <2>2. /\ \A n \in Names : Live(n)' = Live(n) \ Children
          /\ \A p \in Procs : (proc[p] = "unborn") <=> (proc'[p] = "unborn")
      BY <2>1, KillQuiets, Domains
    <2>3. \A n \in Names : Mine(n)' = {} BY <1>1, <2>1, <2>2 DEF Supervised, Mine
    <2>4. OnRecord' /\ Supervised' BY <2>1, <2>3 DEF OnRecord, Supervised
    <2>5. ReadIsTrue' BY <1>1, <2>1, <2>2, <2>3, ReadsKept
    <2> QED BY <2>4, <2>5 DEF ServicesInv
  <1>5. CASE Crash
    <2>1. /\ phase # "off" /\ phase' = "off" /\ child' = NoField /\ timer' = {}
          /\ UNCHANGED <<ledger, field, proc, cmd, apart>>
      BY <1>5 DEF Crash, file
    <2>2. \A n \in Names : Mine(n)' = Mine(n) BY <2>1 DEF Mine, Live
    <2>3. OnRecord' /\ Supervised' BY <1>1, <2>1, <2>2 DEF OnRecord, Supervised
    <2>4. ReadIsTrue' BY <1>1, <2>1, <2>2, ReadsKept
    <2> QED BY <2>3, <2>4 DEF ServicesInv
  <1> QED BY <1>2, <1>3, <1>4, <1>5

(* A process that ends is missed nowhere. *)
LEMMA DieStep ==
  ASSUME TypeOK, ServicesInv, NEW p \in Procs, Die(p)
  PROVE  ServicesInv'
  <1>1. OnRecord /\ Supervised /\ ReadIsTrue BY DEF ServicesInv
  <1>2. /\ UNCHANGED <<phase, child, timer, ledger, field, cmd, apart>>
        /\ proc[p] # "unborn"
        /\ \E fate \in {"gone", "stood down"} : proc' = [proc EXCEPT ![p] = fate]
    BY DEF Die, supervisor, file
  <1>3. /\ Alive(proc') \subseteq Alive(proc) /\ \A n \in Names : Mine(n)' \subseteq Mine(n)
        /\ \A q \in Procs : proc[q] # "unborn" => proc'[q] # "unborn"
    BY <1>2, Domains DEF Alive, Mine, Live
  <1>4. OnRecord' BY <1>1, <1>2, <1>3 DEF OnRecord
  <1>5. Supervised' BY <1>1, <1>2, <1>3 DEF Supervised, View, NoField
  <1>6. ReadIsTrue' BY <1>1, <1>2, <1>3, ReadsKept
  <1> QED BY <1>4, <1>5, <1>6 DEF ServicesInv

(* What a start command reads is so. *)
LEMMA StartReadStep ==
  ASSUME TypeOK, ServicesInv, NEW c \in Commands, StartRead(c)
  PROVE  ServicesInv'
  <1>1. OnRecord /\ Supervised /\ ReadIsTrue BY DEF ServicesInv
  <1> DEFINE r == [at |-> "read", ledger |-> ledger \cap Alive(proc), sup |-> supPid, field |-> field,
                   alone |-> phase = "off" /\ \A d \in Commands : cmd[d].at = "idle"]
  <1>2. /\ UNCHANGED <<phase, child, timer, ledger, field, proc, apart>>
        /\ cmd' = [NotAlone EXCEPT ![c] = r]
    BY DEF StartRead, supervisor, file
  <1>3. \A n \in Names : Mine(n)' = Mine(n) BY <1>2 DEF Mine, Live
  <1>4. OnRecord' BY <1>1, <1>2, <1>3 DEF OnRecord
  <1>5. Supervised' BY <1>1, <1>2, <1>3 DEF Supervised, View, NoField
  <1>6. DOMAIN NotAlone = Commands BY DEF NotAlone
  <1>7. ASSUME NEW d \in Commands, cmd'[d].at = "read"
        PROVE  /\ cmd'[d].alone => AloneStill(d)'
               /\ \A p \in cmd'[d].ledger : proc'[p] # "unborn"
               /\ \A n \in Names : \A p \in Mine(n)' :
                    p \in cmd'[d].ledger => cmd'[d].field[n] = p
    <2>1. CASE d = c
      <3>1. cmd'[d] = r BY <1>2, <1>6, <2>1
      <3>2. ASSUME r.alone PROVE AloneStill(d)'
        <4>1. phase = "off" /\ \A e \in Commands : cmd[e].at = "idle" BY <3>2
        <4>2. \A e \in Commands \ {d} : cmd'[e].at = "idle"
          BY <1>2, <1>6, <2>1, <4>1, NotAloneTyped
        <4>3. ledger' \cap Alive(proc') \subseteq cmd'[d].ledger BY <1>2, <3>1 DEF Alive
        <4> QED BY <1>2, <4>1, <4>2, <4>3 DEF AloneStill
      <3>3. r.ledger = ledger \cap Alive(proc) /\ r.field = field OBVIOUS
      <3> HIDE DEF r
      <3>4. \A p \in r.ledger : proc[p] # "unborn" BY <3>3 DEF Alive
      <3>5. \A n \in Names : \A p \in Mine(n) : r.field[n] = p BY <1>1, <3>3 DEF OnRecord
      <3> QED BY <1>2, <1>3, <3>1, <3>2, <3>4, <3>5
    <2>2. CASE d # c
      <3>1. cmd'[d] = NotAlone[d] BY <1>2, <1>6, <2>2
      <3>2. /\ cmd'[d].alone = FALSE /\ cmd'[d].ledger = cmd[d].ledger
            /\ cmd'[d].field = cmd[d].field /\ cmd[d].at = "read"
        BY <1>7, <3>1, NotAloneTyped
      <3> QED BY <1>1, <1>2, <1>3, <3>2 DEF ReadIsTrue
    <2> QED BY <2>1, <2>2
  <1>8. ReadIsTrue' BY <1>7 DEF ReadIsTrue
  <1> QED BY <1>4, <1>5, <1>8 DEF ServicesInv

(* What a start command starts, and what it loses: nothing, if it was alone. *)
LEMMA StartWrites ==
  ASSUME TypeOK, ReadIsTrue, NEW c \in Commands, StartServices(c)
  PROVE  LET missing == {n \in Names : cmd[c].field[n] \notin cmd[c].ledger}
             new == {Fresh(n) : n \in missing}
         IN
         /\ cmd[c].at = "read" /\ cmd' = [cmd EXCEPT ![c] = Idle] /\ UNCHANGED supervisor
         /\ \A n \in missing : Fresh(n) \in Procs /\ Fresh(n)[1] = n /\ proc[Fresh(n)] = "unborn"
         /\ \A p \in Procs : proc'[p] = IF p \in new /\ proc[p] = "unborn" THEN "live" ELSE proc[p]
         /\ \/ /\ ledger' = (cmd[c].ledger \cap Alive(proc)) \cup new
               /\ field' = [n \in Names |-> IF n \in missing THEN Fresh(n) ELSE cmd[c].field[n]]
            \/ ~cmd[c].alone /\ UNCHANGED <<ledger, field>>
         /\ IF cmd[c].alone
            THEN AloneStill(c) /\ apart' = apart
            ELSE apart' = apart \cup new \cup (ledger \ ledger')
  <1> DEFINE missing == {n \in Names : cmd[c].field[n] \notin cmd[c].ledger}
             new == {Fresh(n) : n \in missing}
  <1>1. /\ cmd[c].at = "read" /\ cmd' = [cmd EXCEPT ![c] = Idle] /\ UNCHANGED supervisor
        /\ \A n \in missing : CanStart(n)
        /\ proc' = Become(new, {"unborn"}, "live")
        /\ \/ /\ ledger' = (cmd[c].ledger \cap Alive(proc)) \cup new
              /\ field' = [n \in Names |-> IF n \in missing THEN Fresh(n) ELSE cmd[c].field[n]]
           \/ ~cmd[c].alone /\ UNCHANGED file
        /\ apart' = IF cmd[c].alone THEN apart ELSE apart \cup new \cup (ledger \ ledger')
    BY DEF StartServices
  <1>2. cmd[c].alone => AloneStill(c) BY <1>1 DEF ReadIsTrue
  <1>3. \A n \in missing : Fresh(n) \in Procs /\ Fresh(n)[1] = n /\ proc[Fresh(n)] = "unborn"
    BY <1>1, FreshIsNamed
  <1> HIDE DEF missing
  <1>4. \A p \in Procs : proc'[p] = IF p \in new /\ proc[p] = "unborn" THEN "live" ELSE proc[p]
    BY <1>1 DEF Become
  <1> QED BY <1>1, <1>2, <1>3, <1>4 DEF file, missing

(* A start command that is alone starts what does not run; what any other starts or drops *)
(* counts no longer.                                                                    *)
LEMMA StartServicesStep ==
  ASSUME TypeOK, ServicesInv, NEW c \in Commands, StartServices(c)
  PROVE  ServicesInv'
  <1>1. OnRecord /\ Supervised /\ ReadIsTrue BY DEF ServicesInv
  <1> DEFINE missing == {n \in Names : cmd[c].field[n] \notin cmd[c].ledger}
             new == {Fresh(n) : n \in missing}
  <1>2. /\ cmd[c].at = "read" /\ cmd' = [cmd EXCEPT ![c] = Idle] /\ UNCHANGED supervisor
        /\ \A n \in missing : Fresh(n) \in Procs /\ Fresh(n)[1] = n /\ proc[Fresh(n)] = "unborn"
        /\ \A p \in Procs : proc'[p] = IF p \in new /\ proc[p] = "unborn" THEN "live" ELSE proc[p]
        /\ \/ /\ ledger' = (cmd[c].ledger \cap Alive(proc)) \cup new
              /\ field' = [n \in Names |-> IF n \in missing THEN Fresh(n) ELSE cmd[c].field[n]]
           \/ ~cmd[c].alone /\ UNCHANGED <<ledger, field>>
        /\ IF cmd[c].alone
           THEN AloneStill(c) /\ apart' = apart
           ELSE apart' = apart \cup new \cup (ledger \ ledger')
    BY <1>1, StartWrites
  <1>3. /\ \A n \in Names : \A p \in Mine(n) : p \in cmd[c].ledger => cmd[c].field[n] = p
        /\ \A n \in Names : n \notin missing <=> cmd[c].field[n] \in cmd[c].ledger
    BY <1>1, <1>2 DEF ReadIsTrue
  <1> HIDE DEF missing
  <1>4. ASSUME NEW n \in Names, NEW p \in Mine(n)'
        PROVE  /\ p \in ledger' /\ p = field'[n]
               /\ p \in Mine(n) \/ (cmd[c].alone /\ proc[p] = "unborn")
    <2>1. p \in Procs /\ p[1] = n /\ proc'[p] = "live" /\ p \notin apart' BY <1>4 DEF Mine, Live
    <2>2. CASE p \in new
      <3>1. cmd[c].alone BY <1>2, <2>1, <2>2
      <3>2. PICK m \in missing : p = Fresh(m) BY <2>2
      <3>3. m = n BY <1>2, <2>1, <3>2
      <3> QED BY <1>2, <1>4, <2>2, <3>1, <3>2, <3>3
    <2>3. CASE p \notin new
      <3>1. p \in Mine(n) /\ p \in Alive(proc)
        BY <1>2, <2>1, <2>3 DEF Mine, Live, Alive
      <3>2. p \in ledger /\ p = field[n] BY <1>1, <1>4, <3>1 DEF OnRecord
      <3>3. CASE ~cmd[c].alone /\ UNCHANGED <<ledger, field>> BY <3>1, <3>2, <3>3
      <3>4. CASE /\ ledger' = (cmd[c].ledger \cap Alive(proc)) \cup new
                 /\ field' = [m \in Names |-> IF m \in missing THEN Fresh(m) ELSE cmd[c].field[m]]
        <4>1. p \in cmd[c].ledger
          <5>1. CASE cmd[c].alone BY <1>2, <3>1, <3>2, <5>1 DEF AloneStill
          <5>2. CASE ~cmd[c].alone
            <6>1. p \in ledger' BY <1>2, <2>1, <3>2, <5>2
            <6> QED BY <2>3, <3>4, <6>1
          <5> QED BY <5>1, <5>2
        <4>2. cmd[c].field[n] = p /\ n \notin missing BY <1>3, <1>4, <3>1, <4>1
        <4> QED BY <1>4, <3>1, <3>4, <4>1, <4>2
      <3> QED BY <1>2, <3>3, <3>4
    <2> QED BY <2>2, <2>3
  <1>5. OnRecord' BY <1>4 DEF OnRecord
  <1>6. UNCHANGED <<phase, child, timer>> BY <1>2 DEF supervisor
  <1>7. Supervised'
    <2>1. CASE cmd[c].alone BY <1>1, <1>2, <1>6, <2>1 DEF Supervised, AloneStill, NoField
    <2>2. CASE ~cmd[c].alone
      <3>1. \A n \in Names : Mine(n)' \subseteq Mine(n) BY <1>4, <2>2
      <3> QED BY <1>1, <1>6, <3>1 DEF Supervised, View, NoField
    <2> QED BY <2>1, <2>2
  <1>8. ASSUME NEW d \in Commands, cmd'[d].at = "read"
        PROVE  /\ cmd'[d].alone => AloneStill(d)'
               /\ \A p \in cmd'[d].ledger : proc'[p] # "unborn"
               /\ \A n \in Names : \A p \in Mine(n)' :
                    p \in cmd'[d].ledger => cmd'[d].field[n] = p
    <2>1. d # c /\ cmd'[d] = cmd[d] BY <1>2, <1>8, Domains DEF Idle
    <2>2. cmd[d].at = "read" /\ ~cmd[c].alone /\ ~cmd[d].alone
      BY <1>1, <1>2, <1>8, <2>1 DEF ReadIsTrue, AloneStill
    <2>3. \A n \in Names : Mine(n)' \subseteq Mine(n) BY <1>4, <2>2
    <2>4. \A p \in cmd[d].ledger : p \in Procs BY Domains
    <2>5. \A p \in cmd[d].ledger : proc[p] # "unborn" BY <1>1, <2>2 DEF ReadIsTrue
    <2>6. \A p \in cmd[d].ledger : proc'[p] # "unborn" BY <1>2, <2>4, <2>5
    <2>7. \A n \in Names : \A p \in Mine(n)' : p \in cmd[d].ledger => cmd[d].field[n] = p
      BY <1>1, <2>2, <2>3 DEF ReadIsTrue
    <2> QED BY <2>1, <2>2, <2>6, <2>7
  <1>9. ReadIsTrue' BY <1>8 DEF ReadIsTrue
  <1> QED BY <1>5, <1>7, <1>9 DEF ServicesInv

(* A stop command tells all that runs. *)
LEMMA StopServicesStep ==
  ASSUME TypeOK, ServicesInv, StopServices
  PROVE  ServicesInv'
  <1>1. OnRecord /\ Supervised /\ ReadIsTrue BY DEF ServicesInv
  <1>2. PICK S : ledger \subseteq S /\ proc' = Tell(S) BY DEF StopServices
  <1>3. /\ cmd' = NotAlone /\ child' = child /\ timer' \subseteq timer /\ apart' = apart
        /\ (phase' = phase \/ (phase = "up" /\ phase' = "stopping"))
    BY DEF StopServices, supervisor
  <1>4. /\ \A n \in Names : Live(n)' = Live(n) \ S
        /\ \A p \in Procs : (proc[p] = "unborn") <=> (proc'[p] = "unborn")
    BY <1>2, TellQuiets, Domains
  <1>5. \A n \in Names : Mine(n)' = {} BY <1>1, <1>2, <1>3, <1>4 DEF OnRecord, Mine
  <1>6. OnRecord' BY <1>5 DEF OnRecord
  <1>7. Supervised' BY <1>1, <1>3, <1>5 DEF Supervised, View, NoField
  <1>8. ReadIsTrue' BY <1>1, <1>3, <1>4, <1>5, ReadsKept
  <1> QED BY <1>6, <1>7, <1>8 DEF ServicesInv

(* The invariant is inductive. *)
LEMMA ServicesNext == TypeOK /\ ServicesInv /\ [Next]_vars => ServicesInv'
  <1> SUFFICES ASSUME TypeOK, ServicesInv, [Next]_vars PROVE ServicesInv'
    OBVIOUS
  <1>1. TypeOK' BY TypesNext
  <1>2. CASE UNCHANGED vars
    <2>1. \A n \in Names : Mine(n)' = Mine(n) BY <1>2 DEF vars, Mine, Live
    <2>2. OnRecord' /\ Supervised' BY <1>2, <2>1 DEF vars, supervisor, file, ServicesInv, OnRecord,
         Supervised, View, NoField
    <2>3. ReadIsTrue' BY <1>2, <2>1 DEF vars, supervisor, file, ServicesInv, ReadIsTrue, AloneStill, Alive
    <2> QED BY <2>2, <2>3 DEF ServicesInv
  <1>3. CASE Next
    BY <1>1, <1>3, LaunchStep, ReclaimedStep, EndsStep, ChildExitStep, RestartStep, DieStep,
       StartReadStep, StartServicesStep, StopServicesStep DEF Next
  <1> QED BY <1>2, <1>3

(* Two copies of a service never run that nobody told to stop, but for what a start     *)
(* command that was not alone started or dropped from the ledger: what an earlier start *)
(* command or a crashed supervisor left is reclaimed first, and what runs is not started *)
(* again (reclaimStrays, startServices).                                              *)
THEOREM OneCopy == Spec => []OneOfEach
  <1>1. ServicesInv => OneOfEach
    <2> SUFFICES ASSUME ServicesInv, NEW n \in Names PROVE Cardinality(Live(n) \ apart) <= 1
      BY DEF OneOfEach
    <2>1. Live(n) \ apart = {} \/ Live(n) \ apart = {field[n]} BY DEF ServicesInv, OnRecord, Mine
    <2>2. Cardinality({}) = 0 /\ Cardinality({field[n]}) = 1 BY FS_EmptySet, FS_Singleton
    <2> QED BY <2>1, <2>2
  <1> QED BY <1>1, InitTypes, TypesNext, ServicesInit, ServicesNext, PTL DEF Spec

(* What a step keeps on the ledger. *)
Kept ==
  \A p \in Procs :
    proc'[p] = "live" /\ (p \in ledger \/ proc[p] = "unborn") =>
      p \in ledger' \/ \E c \in Commands : LosesUnread(c, p)

(* The supervisor merges what runs and what it started. *)
LEMMA PersistKeeps ==
  ASSUME Persist, \A p \in Procs : proc[p] = "unborn" /\ proc'[p] = "live" => p \in Range(child')
  PROVE  Kept
  BY DEF Persist, Kept, Alive

(* A supervisor, beginning or ending, and what runs, ending, take nothing off that runs. *)
LEMMA OthersKeep ==
  ASSUME TypeOK, Launch \/ Stop \/ Stopped \/ Crash \/ (\E p \in Procs : Die(p))
                 \/ (\E c \in Commands : StartRead(c)) \/ StopServices
  PROVE  Kept
  <1>1. \A S : proc' = Tell(S) => \A p \in Procs : proc'[p] = "live" => proc[p] = "live" /\ p \notin S
    BY DEF Tell, Become
  <1>2. \A S : proc' = KillLeft(S) => \A p \in Procs : proc'[p] = "live" => proc[p] = "live"
    BY DEF KillLeft, Become
  <1>3. CASE Launch BY <1>1, <1>3 DEF Launch, Kept, file
  <1>4. CASE Stop BY <1>1, <1>4 DEF Stop, Kept, file
  <1>5. CASE Stopped BY <1>2, <1>5 DEF Stopped, Kept, Alive
  <1>6. CASE Crash BY <1>6 DEF Crash, Kept, file
  <1>7. ASSUME NEW p \in Procs, Die(p) PROVE Kept
    <2>1. ledger' = ledger /\ proc[p] # "unborn"
          /\ \E fate \in {"gone", "stood down"} : proc' = [proc EXCEPT ![p] = fate]
      BY <1>7 DEF Die, file
    <2>2. \A q \in Procs : proc'[q] = "live" => proc[q] = "live" BY <2>1, Domains
    <2> QED BY <2>1, <2>2 DEF Kept
  <1>8. CASE \E c \in Commands : StartRead(c) BY <1>8 DEF StartRead, Kept, file
  <1>9. CASE StopServices
    <2>1. PICK S : ledger \subseteq S /\ proc' = Tell(S) BY <1>9 DEF StopServices
    <2> QED BY <1>1, <2>1 DEF Kept
  <1> QED BY <1>3, <1>4, <1>5, <1>6, <1>7, <1>8, <1>9

(* A start command loses what it did not read, and only if it was not alone. *)
LEMMA StartKeeps ==
  ASSUME TypeOK, ReadIsTrue, NEW c \in Commands, StartServices(c)
  PROVE  Kept
  <1> DEFINE missing == {n \in Names : cmd[c].field[n] \notin cmd[c].ledger}
             new == {Fresh(n) : n \in missing}
  <1>1. /\ cmd[c].at = "read" /\ cmd' = [cmd EXCEPT ![c] = Idle]
        /\ \A p \in Procs : proc'[p] = IF p \in new /\ proc[p] = "unborn" THEN "live" ELSE proc[p]
        /\ \/ ledger' = (cmd[c].ledger \cap Alive(proc)) \cup new
           \/ ~cmd[c].alone /\ ledger' = ledger
        /\ cmd[c].alone => AloneStill(c)
    BY StartWrites
  <1> HIDE DEF new
  <1>2. cmd'[c] = Idle BY <1>1, Domains
  <1>3. \A p \in cmd[c].ledger : proc[p] # "unborn" BY <1>1 DEF ReadIsTrue
  <1>4. ASSUME NEW p \in Procs, proc'[p] = "live", p \in ledger \/ proc[p] = "unborn"
        PROVE  p \in ledger' \/ LosesUnread(c, p)
    <2>1. CASE p \in cmd[c].ledger
      <3>1. p \in Alive(proc) /\ p \in ledger BY <1>1, <1>3, <1>4, <2>1 DEF Alive
      <3> QED BY <1>1, <2>1, <3>1
    <2>2. CASE p \notin cmd[c].ledger /\ ~cmd[c].alone BY <1>1, <1>2, <2>2 DEF LosesUnread
    <2>3. CASE p \notin cmd[c].ledger /\ cmd[c].alone
      <3>1. p \notin ledger \cap Alive(proc) BY <1>1, <2>3 DEF AloneStill
      <3>2. p \in new BY <1>1, <1>4, <3>1 DEF Alive
      <3> QED BY <1>1, <2>3, <3>2
    <2> QED BY <2>1, <2>2, <2>3
  <1> QED BY <1>4 DEF Kept

(* What is started is on the ledger with its starter's write, and no write takes it off  *)
(* while it lives and nobody told it to stop: a supervisor's, a stop command's or a start *)
(* command's; but for what a start command that was not alone had not read (runtime.ts:   *)
(* "no writer can lose another writer's pids").                                         *)
THEOREM LedgerKeepsAll == Spec => LedgerKeeps
  <1>1. TypeOK /\ ServicesInv /\ [Next]_vars => [Kept]_vars
    <2> SUFFICES ASSUME TypeOK, ServicesInv, Next PROVE Kept OBVIOUS
    <2>1. ReadIsTrue BY DEF ServicesInv
    <2>2. ASSUME Reclaimed PROVE Kept BY <2>2, ReclaimedSpawns, PersistKeeps
    <2>3. ASSUME NEW n \in Names, Restart(n) PROVE Kept
      <3>1. CASE Persist BY <2>3, <3>1, RestartSpawns, PersistKeeps
      <3>2. CASE ~Persist
        <4>1. ledger' = ledger /\ \A p \in Procs : ~(proc[p] = "unborn" /\ proc'[p] = "live")
          BY <2>3, <3>2, RestartSpawns
        <4> QED BY <4>1 DEF Kept
      <3> QED BY <3>1, <3>2
    <2>4. ASSUME NEW n \in Names, ChildExit(n) PROVE Kept
      <3>1. Persist /\ proc' = proc BY <2>4 DEF ChildExit
      <3> QED BY <3>1, PersistKeeps
    <2> QED BY <2>1, <2>2, <2>3, <2>4, OthersKeep, StartKeeps DEF Next
  <1>2. LedgerKeeps <=> [][Kept]_vars BY DEF LedgerKeeps, Kept
  <1> QED BY <1>1, <1>2, InitTypes, TypesNext, ServicesInit, ServicesNext, PTL DEF Spec

(* A service that stood down under this supervisor has neither a child nor a timer. *)
Down ==
  /\ DOMAIN child = Names /\ stoodDown \cup timer \subseteq Names
  /\ phase \in {"off", "reclaiming"} => child = NoField
  /\ phase = "reclaiming" => stoodDown = {}
  /\ \A n \in stoodDown : child[n] = None
  /\ phase = "up" => \A n \in timer : n \notin stoodDown /\ child[n] = None

LEMMA DownInit == Init => Down
  BY DEF Init, Down, NoField

(* Whoever starts and stops: nothing gives a child back to a service that stood down, *)
(* but a supervisor that starts anew.                                                 *)
LEMMA DownNext ==
  Down /\ [Next]_vars => Down' /\ (\A n \in stoodDown : run' = run => child'[n] = None)
  <1> SUFFICES ASSUME Down, [Next]_vars
               PROVE  Down' /\ (\A n \in stoodDown : run' = run => child'[n] = None)
    OBVIOUS
  <1>1. CASE UNCHANGED vars BY <1>1 DEF vars, supervisor, Down, NoField
  <1>2. CASE Launch BY <1>2 DEF Launch, Down, NoField
  <1>3. CASE Reclaimed
    <2>1. phase = "reclaiming" /\ phase' = "up" /\ stoodDown' = stoodDown /\ Spawn(Names, KillLeft(strays))
      BY <1>3 DEF Reclaimed
    <2>2. PICK born \in SUBSET Names :
            /\ child' = [m \in Names |-> IF m \in born THEN Fresh(m) ELSE child[m]]
            /\ timer' = (timer \ Names) \cup (Names \ born)
      BY <2>1 DEF Spawn
    <2> QED BY <2>1, <2>2 DEF Down, NoField
  <1>4. CASE \E n \in Names : Restart(n)
    <2>1. PICK n \in Names : Restart(n) BY <1>4
    <2>2. phase = "up" /\ phase' = phase /\ n \in timer /\ stoodDown' = stoodDown /\ Spawn({n}, proc)
      BY <2>1 DEF Restart
    <2>3. PICK born \in SUBSET {n} :
            /\ child' = [m \in Names |-> IF m \in born THEN Fresh(m) ELSE child[m]]
            /\ timer' = (timer \ {n}) \cup ({n} \ born)
      BY <2>2 DEF Spawn
    <2> QED BY <2>2, <2>3 DEF Down
  <1>5. CASE \E n \in Names : ChildExit(n)
    <2>1. PICK n \in Names : ChildExit(n) BY <1>5
    <2>2. /\ phase \in {"up", "stopping"} /\ phase' = phase /\ child[n] # None
          /\ child' = [child EXCEPT ![n] = None]
          /\ \/ UNCHANGED <<timer, stoodDown>>
             \/ stoodDown' = stoodDown \cup {n} /\ UNCHANGED timer /\ phase = "up"
             \/ timer' = timer \cup {n} /\ UNCHANGED stoodDown
      BY <2>1 DEF ChildExit, AfterExit
    <2> QED BY <2>2 DEF Down
  <1>6. CASE Stop \/ Stopped \/ Crash
    BY <1>6 DEF Stop, Stopped, Crash, Down, NoField
  <1>7. CASE (\E p \in Procs : Die(p)) \/ (\E c \in Commands : StartRead(c) \/ StartServices(c)) \/ StopServices
    <2>1. UNCHANGED <<run, child, stoodDown>> /\ timer' \subseteq timer
          /\ (phase' = phase \/ (phase = "up" /\ phase' = "stopping"))
      BY <1>7 DEF Die, StartRead, StartServices, StopServices, supervisor
    <2> QED BY <2>1 DEF Down, NoField
  <1> QED BY <1>1, <1>2, <1>3, <1>4, <1>5, <1>6, <1>7 DEF Next

(* A service that stood down is not started again by that supervisor (12: another  *)
(* instance owns the workstation; 13: the relay refuses its credentials): the     *)
(* first half of RestartPolicy, with start commands beside it or not.             *)
THEOREM StoodDownStays == Spec => [][\A n \in stoodDown : run' = run => child'[n] = None]_vars
  BY DownInit, DownNext, PTL DEF Spec
================================================================================
