---------------------------- MODULE BackendProofs ----------------------------
(***************************************************************************)
(* Proofs about Backend: types, and that users are served in turn, for any *)
(* number of users, any of them in the editor and any limit of commands.   *)
(***************************************************************************)
EXTENDS Backend, TLAPS, FiniteSetTheorems

Others == Users \ {Watched}

\* The commands that the users of S may give in one round.
EdQuota(S) == Cardinality(S \cap Editors) * (AllowedEdCmds + 1)
Quota(S) == Cardinality(S \ Editors) + EdQuota(S)

\* The users whose turn has come since the watched one waits at the latest:
\* those behind NextCmdGiver, in this round or in the one before.
Passed(next) ==
  IF next < Watched THEN {u \in Users : next < u /\ u < Watched}
  ELSE {u \in Users : u < Watched \/ next < u}

\* They had their quota at most, and the one whose turn it is as much as
\* CmdsGiven says.
RoundBound ==
  /\ overtaken <= Quota(Passed(nextGiver)) + cmdsGiven
  /\ overtaken > Quota(Passed(nextGiver)) => nextGiver \in Editors \ {Watched}

\* Only a command that could be taken is waiting.
WaitsReady == overtaken > 0 => Watched \in ready /\ ~IsLimited(Watched)

\* A signal is being handled, so it is one of those in SignalOrder.
AskedIsPending == phase = "asking" => tested < Len(SignalOrder)

IInv == TypeOK /\ AskedIsPending /\ WaitsReady /\ RoundBound

-----------------------------------------------------------------------------
(* Quotas.                                                                 *)

LEMMA QuotaType ==
  ASSUME NEW S \in SUBSET Users
  PROVE  /\ IsFiniteSet(S \ Editors) /\ IsFiniteSet(S \cap Editors)
         /\ Cardinality(S \ Editors) \in Nat
         /\ Cardinality(S \cap Editors) \in Nat
         /\ EdQuota(S) \in Nat
         /\ Quota(S) \in Nat
<1>1. IsFiniteSet(Users)
  BY BackendAssumption, FS_Interval DEF Users
<1>2. IsFiniteSet(S \ Editors) /\ IsFiniteSet(S \cap Editors)
  BY <1>1, FS_Subset
<1>3. Cardinality(S \ Editors) \in Nat /\ Cardinality(S \cap Editors) \in Nat
  BY <1>2, FS_CardinalityType
<1>4. AllowedEdCmds + 1 \in Nat
  BY BackendAssumption
<1>5. \A n, k \in Nat : n * k \in Nat
  OBVIOUS
<1>6. EdQuota(S) \in Nat
  BY <1>3, <1>4, <1>5 DEF EdQuota
<1> QED
  BY <1>2, <1>3, <1>6 DEF Quota

\* One user more has one command more, or ALLOWED_ED_CMDS + 1 of them.
LEMMA QuotaAdd ==
  ASSUME NEW S \in SUBSET Users, NEW u \in Users \ S
  PROVE  Quota(S \cup {u}) = Quota(S) + (IF u \in Editors THEN AllowedEdCmds + 1
                                         ELSE 1)
<1>1. \A n, k \in Nat : (n + 1) * k = n * k + k
  OBVIOUS
<1>2. AllowedEdCmds + 1 \in Nat
  BY BackendAssumption
<1>5. EdQuota(S) \in Nat /\ Cardinality(S \ Editors) \in Nat
  BY QuotaType
<1>3. CASE u \in Editors
  <2>1. (S \cup {u}) \ Editors = S \ Editors
    BY <1>3
  <2>2. (S \cup {u}) \cap Editors = (S \cap Editors) \cup {u}
    BY <1>3
  <2>3. Cardinality((S \cap Editors) \cup {u}) = Cardinality(S \cap Editors) + 1
    BY QuotaType, FS_AddElement
  <2>4. EdQuota(S \cup {u}) = EdQuota(S) + (AllowedEdCmds + 1)
    BY ZenonT(300), <2>2, <2>3, <1>1, <1>2, QuotaType DEF EdQuota
  <2> QED
    BY <2>1, <2>4, <1>3, <1>5, BackendAssumption DEF Quota
<1>4. CASE u \notin Editors
  <2>1. (S \cup {u}) \ Editors = (S \ Editors) \cup {u}
    BY <1>4
  <2>2. (S \cup {u}) \cap Editors = S \cap Editors
    BY <1>4
  <2>3. Cardinality((S \ Editors) \cup {u}) = Cardinality(S \ Editors) + 1
    BY QuotaType, FS_AddElement
  <2>4. EdQuota(S \cup {u}) = EdQuota(S)
    BY <2>2 DEF EdQuota
  <2> QED
    BY <2>1, <2>3, <2>4, <1>4, <1>5 DEF Quota
<1> QED
  BY <1>3, <1>4

LEMMA QuotaGrows ==
  ASSUME NEW T \in SUBSET Users, NEW S \in SUBSET T
  PROVE  Quota(S) <= Quota(T)
<1>1. Cardinality(S \ Editors) <= Cardinality(T \ Editors)
  <2>1. S \ Editors \in SUBSET (T \ Editors)
    OBVIOUS
  <2> QED
    BY <2>1, QuotaType, FS_Subset
<1>2. Cardinality(S \cap Editors) <= Cardinality(T \cap Editors)
  <2>1. S \cap Editors \in SUBSET (T \cap Editors)
    OBVIOUS
  <2> QED
    BY <2>1, QuotaType, FS_Subset
<1>3. \A i, j, k \in Nat : i <= j => i * k <= j * k
  OBVIOUS
<1>4. S \in SUBSET Users /\ AllowedEdCmds + 1 \in Nat
  BY BackendAssumption
<1>5. EdQuota(S) <= EdQuota(T)
  <2>1. Cardinality(S \cap Editors) \in Nat /\ Cardinality(T \cap Editors) \in Nat
    BY <1>4, QuotaType
  <2> QED
    BY <1>2, <1>3, <1>4, <2>1 DEF EdQuota
<1>6. /\ EdQuota(S) \in Nat /\ EdQuota(T) \in Nat
      /\ Cardinality(S \ Editors) \in Nat /\ Cardinality(T \ Editors) \in Nat
  BY <1>4, QuotaType
<1> QED
  BY <1>1, <1>5, <1>6 DEF Quota

LEMMA PassedType ==
  ASSUME NEW n \in -1 .. MaxPlayer
  PROVE  Passed(n) \in SUBSET Others /\ Passed(n) \in SUBSET Users /\ Others \in SUBSET Users
<1>1. MaxPlayer \in Nat /\ Watched \in 0 .. MaxPlayer
  BY BackendAssumption DEF Users
<1> QED
  BY <1>1 DEF Passed, Others, Users

\* The turn goes on from one user to the next.
LEMMA PassedStep ==
  ASSUME NEW n \in Users
  PROVE  /\ n = Watched => Passed(n - 1) = {}
         /\ n # Watched => /\ Passed(n - 1) = Passed(n) \cup {n}
                           /\ n \notin Passed(n)
<1>1. MaxPlayer \in Nat /\ Watched \in 0 .. MaxPlayer /\ n \in 0 .. MaxPlayer
  BY BackendAssumption DEF Users
<1>2. CASE n = Watched
  BY <1>1, <1>2 DEF Passed, Users
<1>3. CASE n < Watched
  <2>1. Passed(n) = {u \in Users : n < u /\ u < Watched}
    BY <1>3 DEF Passed
  <2>2. Passed(n - 1) = {u \in Users : n - 1 < u /\ u < Watched}
    BY <1>1, <1>3 DEF Passed
  <2>3. \A u \in Users : n - 1 < u <=> n < u \/ u = n
    BY <1>1 DEF Users
  <2>4. n \in Users /\ n # Watched /\ n \notin Passed(n)
    BY <1>1, <1>3, <2>1
  <2>5. Passed(n - 1) = Passed(n) \cup {n}
    BY <1>3, <2>1, <2>2, <2>3, <2>4
  <2> QED
    BY <2>4, <2>5
<1>4. CASE n > Watched
  <2>1. Passed(n) = {u \in Users : u < Watched \/ n < u}
    BY <1>1, <1>4 DEF Passed
  <2>2. Passed(n - 1) = {u \in Users : u < Watched \/ n - 1 < u}
    BY <1>1, <1>4 DEF Passed
  <2>3. \A u \in Users : n - 1 < u <=> n < u \/ u = n
    BY <1>1 DEF Users
  <2>4. n \in Users /\ n # Watched /\ n \notin Passed(n)
    BY <1>1, <1>4, <2>1
  <2>5. Passed(n - 1) = Passed(n) \cup {n}
    BY <1>4, <2>1, <2>2, <2>3, <2>4
  <2> QED
    BY <2>4, <2>5
<1> QED
  BY <1>1, <1>2, <1>3, <1>4

\* select() begins the next round where the last one has ended.
LEMMA PassedSelect == Passed(-1) = Passed(MaxPlayer)
<1>1. MaxPlayer \in Nat /\ Watched \in 0 .. MaxPlayer
  BY BackendAssumption DEF Users
<1>2. Passed(-1) = {u \in Users : u < Watched}
  BY <1>1 DEF Passed, Users
<1>3. Passed(MaxPlayer) = {u \in Users : u < Watched}
  BY <1>1 DEF Passed, Users
<1> QED
  BY <1>2, <1>3

-----------------------------------------------------------------------------
(* The invariant.                                                          *)

LEMMA InitHolds == Init => IInv
<1> SUFFICES ASSUME Init
             PROVE  IInv
  OBVIOUS
<1>1. MaxPlayer \in Nat /\ AllowedEdCmds \in Nat /\ MaxCmds \in [Users -> Nat \cup {-1}]
      /\ -1 \in -1 .. MaxPlayer
  BY BackendAssumption
<1>2. TypeOK
  <2>1. \A u \in Users : 0 <= MaxCmds[u] + 1
    BY <1>1
  <2>2. numCmds \in [Users -> Nat] /\ \A u \in Users : numCmds[u] <= MaxCmds[u] + 1
    BY <2>1 DEF Init
  <2>3. /\ phase \in Phases /\ tested \in 0 .. Len(SignalOrder) /\ pending \subseteq Signals
        /\ ready \subseteq Users
    BY DEF Init, Phases, LpcPhases, SignalOrder
  <2>4. /\ \A flag \in {extraJobs, shutDown, reload, gcRequest} : flag \in BOOLEAN
        /\ \A flag \in {commTime, commReturn, timeTo, timerAlive} : flag \in BOOLEAN
    BY Zenon DEF Init
  <2>5. nextGiver \in -1 .. MaxPlayer /\ cmdsGiven \in 0 .. AllowedEdCmds /\ overtaken \in Nat
    BY <1>1 DEF Init
  <2> QED
    BY <2>2, <2>3, <2>4, <2>5, Zenon DEF TypeOK
<1>3. Quota(Passed(-1)) \in Nat
  BY <1>1, PassedType, QuotaType
<1> QED
  BY <1>2, <1>3 DEF Init, IInv, AskedIsPending, WaitsReady, RoundBound

\* What the lemmas about the round need of the invariant.
LEMMA RoundFacts ==
  ASSUME IInv
  PROVE  /\ MaxPlayer \in Nat /\ AllowedEdCmds \in Nat /\ Watched \in Users
         /\ nextGiver \in -1 .. MaxPlayer
         /\ cmdsGiven \in 0 .. AllowedEdCmds /\ overtaken \in Nat
         /\ Passed(nextGiver) \in SUBSET Users
         /\ Quota(Passed(nextGiver)) \in Nat
BY PassedType, QuotaType, BackendAssumption DEF IInv, TypeOK

\* Nothing of what RoundBound and WaitsReady speak about changes.
LEMMA RoundUnchanged ==
  ASSUME IInv, UNCHANGED roundVars
  PROVE  WaitsReady' /\ RoundBound'
BY DEF IInv, WaitsReady, RoundBound, roundVars, Passed, Quota, EdQuota, IsLimited

LEMMA AlarmsKeep ==
  ASSUME IInv, Alarm \/ TimerDies \/ RestartTimer
  PROVE  IInv'
<1>1. UNCHANGED <<phase, jobVars, roundVars>>
  BY DEF Alarm, TimerDies, RestartTimer
<1>2. TypeOK'
  BY <1>1 DEF IInv, TypeOK, Alarm, TimerDies, RestartTimer, jobVars, roundVars
<1>3. AskedIsPending'
  BY <1>1 DEF IInv, AskedIsPending, jobVars
<1> QED
  BY <1>1, <1>2, <1>3, RoundUnchanged DEF IInv

LEMMA RequestsKeep ==
  ASSUME IInv, ShutDownEfun \/ RequestCollection \/ \E s \in Signals : Signal(s)
  PROVE  IInv'
<1>1. UNCHANGED <<phase, tested, roundVars>>
  BY DEF ShutDownEfun, RequestCollection, Signal
<1>2. TypeOK'
  BY <1>1 DEF IInv, TypeOK, ShutDownEfun, RequestCollection, Signal, roundVars, alarmVars
<1>3. AskedIsPending'
  BY <1>1 DEF IInv, AskedIsPending
<1> QED
  BY <1>1, <1>2, <1>3, RoundUnchanged DEF IInv

LEMMA TypeKeeps ==
  ASSUME IInv, NEW u \in Users, Type(u)
  PROVE  IInv'
<1>1. TypeOK' /\ AskedIsPending'
  BY DEF IInv, TypeOK, AskedIsPending, Type, jobVars, alarmVars
<1>2. WaitsReady' /\ RoundBound'
  BY DEF IInv, WaitsReady, RoundBound, Type, Passed, Quota, EdQuota, IsLimited
<1> QED
  BY <1>1, <1>2 DEF IInv

LEMMA DisconnectKeeps ==
  ASSUME IInv, NEW u \in Users, Disconnect(u)
  PROVE  IInv'
<1>1. TypeOK' /\ AskedIsPending'
  BY DEF IInv, TypeOK, AskedIsPending, Disconnect, jobVars, alarmVars
<1>2. WaitsReady'
  BY DEF IInv, WaitsReady, Disconnect, IsLimited
<1>3. RoundBound'
  <2>1. CASE u = Watched
    <3>1. overtaken' = 0 /\ UNCHANGED <<nextGiver, cmdsGiven>>
      BY <2>1 DEF Disconnect
    <3>2. Quota(Passed(nextGiver)) \in Nat /\ cmdsGiven \in Nat
      BY RoundFacts
    <3> QED
      BY <3>1, <3>2 DEF RoundBound, Passed, Quota, EdQuota
  <2>2. CASE u # Watched
    BY <2>2 DEF IInv, RoundBound, Disconnect, Passed, Quota, EdQuota
  <2> QED
    BY <2>1, <2>2
<1> QED
  BY <1>1, <1>2, <1>3 DEF IInv

LEMMA JobsKeep ==
  ASSUME IInv, StartTurn \/ JobStep
  PROVE  IInv'
<1>1. UNCHANGED <<alarmVars, roundVars>>
  BY DEF StartTurn, JobStep, SkipSignal, TakeSignal, SignalHandled, SignalShutsDown,
         SignalReloads, SignalKills, SignalsTested, ShutDown, ReloadMaster,
         MasterReloaded, CollectGarbage, JobsDone
<1>2. Len(SignalOrder) = 5
  BY DEF SignalOrder
<1>3. AskedIsPending /\ tested \in 0 .. 5 /\ TypeOK
  BY <1>2 DEF IInv, TypeOK
<1>4. /\ phase' \in Phases /\ tested' \in 0 .. 5 /\ AskedIsPending'
      /\ pending' \subseteq Signals
      /\ extraJobs' \in BOOLEAN /\ shutDown' \in BOOLEAN
      /\ reload' \in BOOLEAN /\ gcRequest' \in BOOLEAN
  <2>1. CASE StartTurn
    BY <1>2, <1>3, <2>1 DEF StartTurn, TypeOK, AskedIsPending, Phases, LpcPhases
  <2>2. CASE SkipSignal
    BY <1>2, <1>3, <2>2 DEF SkipSignal, TypeOK, AskedIsPending, Phases, LpcPhases
  <2>3. CASE TakeSignal
    BY <1>2, <1>3, <2>3 DEF TakeSignal, TypeOK, AskedIsPending, Phases, LpcPhases
  <2>4. CASE SignalHandled
    BY <1>2, <1>3, <2>4 DEF SignalHandled, TypeOK, AskedIsPending, Phases, LpcPhases
  <2>5. CASE SignalShutsDown
    <3>1. /\ shutDown' = TRUE /\ reload' = reload /\ gcRequest' = gcRequest
          /\ pending' \in {pending, {}} /\ phase' \in {"jobs", "signals"}
      BY <2>5 DEF SignalShutsDown
    <3>2. tested' \in {0, tested + 1}
      BY <2>5 DEF SignalShutsDown
    <3>3. extraJobs' \in BOOLEAN
      BY <1>3, <2>5 DEF SignalShutsDown, TypeOK
    <3>4. tested < 5
      BY <1>2, <1>3, <2>5 DEF SignalShutsDown, AskedIsPending
    <3> QED
      BY <1>3, <3>1, <3>2, <3>3, <3>4 DEF TypeOK, AskedIsPending, Phases, LpcPhases
  <2>6. CASE SignalReloads
    BY <1>2, <1>3, <2>6 DEF SignalReloads, TypeOK, AskedIsPending, Phases, LpcPhases
  <2>7. CASE SignalKills \/ SignalsTested \/ ShutDown
    BY <1>2, <1>3, <2>7 DEF SignalKills, SignalsTested, ShutDown, TypeOK,
                            AskedIsPending, Phases, LpcPhases, jobVars
  <2>8. CASE ReloadMaster \/ MasterReloaded
    BY <1>2, <1>3, <2>8 DEF ReloadMaster, MasterReloaded, TypeOK,
                            AskedIsPending, Phases, LpcPhases, jobVars
  <2>9. CASE CollectGarbage \/ JobsDone
    BY <1>2, <1>3, <2>9 DEF CollectGarbage, JobsDone, TypeOK,
                            AskedIsPending, Phases, LpcPhases, jobVars
  <2> QED
    BY <2>1, <2>2, <2>3, <2>4, <2>5, <2>6, <2>7, <2>8, <2>9 DEF JobStep
<1>5. TypeOK'
  BY <1>1, <1>2, <1>3, <1>4 DEF TypeOK, alarmVars, roundVars
<1> QED
  BY <1>1, <1>4, <1>5, RoundUnchanged DEF IInv

-----------------------------------------------------------------------------
(* The round of commands.                                                  *)

LEMMA SelectKeeps ==
  ASSUME IInv, Select
  PROVE  IInv'
<1>1. TypeOK' /\ AskedIsPending'
  BY RoundFacts DEF IInv, TypeOK, AskedIsPending, Select, jobVars, alarmVars, Phases,
                    LpcPhases
<1>2. WaitsReady'
  BY DEF IInv, WaitsReady, Select, IsLimited
<1>3. RoundBound'
  <2>1. nextGiver = -1 /\ nextGiver' = MaxPlayer /\ overtaken' = overtaken /\ cmdsGiven' = 0
    BY RoundFacts DEF Select
  <2>2. -1 \notin Editors
    BY BackendAssumption DEF Users
  <2>3. overtaken <= Quota(Passed(-1))
    BY <2>1, <2>2, RoundFacts DEF IInv, RoundBound
  <2>4. (Quota(Passed(nextGiver)))' = Quota(Passed(MaxPlayer))
    BY <2>1 DEF Passed, Quota, EdQuota
  <2>5. Quota(Passed(MaxPlayer)) \in Nat /\ overtaken \in Nat
    BY <2>1, PassedSelect, RoundFacts
  <2> QED
    BY <2>1, <2>3, <2>4, <2>5, PassedSelect DEF RoundBound
<1> QED
  BY <1>1, <1>2, <1>3 DEF IInv

\* The turn goes to the next user when the bound is kept with one user more.
LEMMA TurnGoesOn ==
  ASSUME IInv, nextGiver \in Users, nextGiver' = nextGiver - 1,
         overtaken' \in Nat, cmdsGiven' \in Nat,
         nextGiver = Watched => overtaken' = 0,
         nextGiver # Watched =>
           overtaken' <= Quota(Passed(nextGiver))
                           + (IF nextGiver \in Editors THEN AllowedEdCmds + 1 ELSE 1)
  PROVE  RoundBound'
<1>1. overtaken' <= Quota(Passed(nextGiver - 1)) /\ Quota(Passed(nextGiver - 1)) \in Nat
  <2>1. nextGiver - 1 \in -1 .. MaxPlayer
    BY RoundFacts DEF Users
  <2>2. Quota(Passed(nextGiver - 1)) \in Nat
    BY <2>1, PassedType, QuotaType
  <2>3. CASE nextGiver = Watched
    BY <2>2, <2>3
  <2>4. CASE nextGiver # Watched
    BY <2>2, <2>4, PassedStep, QuotaAdd, RoundFacts
  <2> QED
    BY <2>2, <2>3, <2>4
<1>2. (Quota(Passed(nextGiver)))' = Quota(Passed(nextGiver - 1))
  BY DEF Passed, Quota, EdQuota
<1> QED
  BY <1>1, <1>2 DEF RoundBound

LEMMA SkipUserKeeps ==
  ASSUME IInv, SkipUser
  PROVE  IInv'
<1>1. nextGiver \in Users /\ nextGiver' = nextGiver - 1
      /\ UNCHANGED <<phase, jobVars, alarmVars, cmdsGiven, ready, numCmds, overtaken>>
  BY RoundFacts DEF SkipUser, Users
<1>2. TypeOK' /\ AskedIsPending'
  BY <1>1, RoundFacts DEF IInv, TypeOK, AskedIsPending, jobVars, alarmVars, Users
<1>3. WaitsReady'
  BY <1>1 DEF IInv, WaitsReady, IsLimited
<1>4. nextGiver = Watched => overtaken = 0
  BY RoundFacts DEF IInv, WaitsReady, SkipUser
<1>5. overtaken <= Quota(Passed(nextGiver))
                     + (IF nextGiver \in Editors THEN AllowedEdCmds + 1 ELSE 1)
  BY RoundFacts DEF IInv, RoundBound
<1>6. RoundBound'
  BY <1>1, <1>4, <1>5, RoundFacts, TurnGoesOn
<1> QED
  BY <1>2, <1>3, <1>6 DEF IInv

LEMMA TakeCommandKeeps ==
  ASSUME IInv, TakeCommand
  PROVE  IInv'
<1> DEFINE u == nextGiver
<1>1. u \in Users /\ u \in ready /\ ~IsLimited(u) /\ MaxCmds \in [Users -> Nat \cup {-1}]
  BY BackendAssumption DEF IInv, TypeOK, TakeCommand
<1>2. /\ cmdsGiven' \in 0 .. AllowedEdCmds /\ nextGiver' \in {u, u - 1}
      /\ nextGiver' \in -1 .. MaxPlayer /\ overtaken' \in {0, overtaken + 1}
      /\ ready' = ready \ {u} /\ phase' = "command"
      /\ UNCHANGED <<jobVars, alarmVars>>
  BY <1>1, RoundFacts DEF TakeCommand, Users
<1>3. /\ numCmds' \in [Users -> Nat]
      /\ \A v \in Users : numCmds'[v] <= MaxCmds[v] + 1
      /\ \A v \in Users \ {u} : numCmds'[v] = numCmds[v]
  <2>1. /\ numCmds \in [Users -> Nat]
        /\ \A v \in Users : numCmds[v] <= MaxCmds[v] + 1
        /\ MaxCmds[u] < 0 \/ numCmds[u] <= MaxCmds[u]
        /\ \A v \in Users : MaxCmds[v] \in Int
    BY <1>1 DEF IInv, TypeOK, IsLimited
  <2> QED
    BY <1>1, <2>1 DEF TakeCommand
<1>4. TypeOK'
  BY <1>2, <1>3, RoundFacts DEF IInv, TypeOK, jobVars, alarmVars, Phases, LpcPhases
<1>5. AskedIsPending'
  BY <1>2 DEF AskedIsPending
<1>6. overtaken' > 0 => u # Watched /\ Watched \in ready /\ ~IsLimited(Watched)
  BY <1>1, RoundFacts DEF TakeCommand
<1>7. WaitsReady'
  <2> SUFFICES ASSUME overtaken' > 0
               PROVE  (Watched \in ready /\ ~IsLimited(Watched))'
    BY DEF WaitsReady
  <2>1. numCmds'[Watched] = numCmds[Watched]
    BY <1>3, <1>6, RoundFacts
  <2> QED
    BY <1>2, <1>6, <2>1 DEF IsLimited
<1>8. RoundBound'
  <2>1. CASE u \in Editors /\ cmdsGiven < AllowedEdCmds
    <3>1. nextGiver' = nextGiver /\ cmdsGiven' = cmdsGiven + 1
      BY <2>1 DEF TakeCommand
    <3>2. (Quota(Passed(nextGiver)))' = Quota(Passed(nextGiver))
      BY <3>1 DEF Passed, Quota, EdQuota
    <3>3. overtaken <= Quota(Passed(nextGiver)) + cmdsGiven
      BY DEF IInv, RoundBound
    <3> QED
      BY <1>2, <1>6, <2>1, <3>1, <3>2, <3>3, RoundFacts DEF RoundBound
  <2>2. CASE ~(u \in Editors /\ cmdsGiven < AllowedEdCmds)
    <3>1. nextGiver' = nextGiver - 1 /\ cmdsGiven' = 0
      BY <2>2 DEF TakeCommand
    <3>2. nextGiver = Watched => overtaken' = 0
      BY <1>6, <1>2, RoundFacts
    <3>3. overtaken' <= Quota(Passed(nextGiver))
                          + (IF nextGiver \in Editors THEN AllowedEdCmds + 1 ELSE 1)
      BY <1>2, RoundFacts DEF IInv, RoundBound
    <3> QED
      BY <1>1, <1>2, <3>1, <3>2, <3>3, RoundFacts, TurnGoesOn
  <2> QED
    BY <2>1, <2>2
<1> QED
  BY <1>4, <1>5, <1>7, <1>8 DEF IInv

LEMMA TurnKeeps ==
  ASSUME IInv,
         Accepted \/ CommandDone \/ UncaughtError \/ SkipTimed \/ TimedDone
  PROVE  IInv'
<1>1. UNCHANGED <<jobVars, roundVars>> /\ phase' \in {"after", "message", "top"}
  BY DEF Accepted, CommandDone, UncaughtError, SkipTimed, TimedDone
<1>2. commTime' \in BOOLEAN /\ commReturn' \in BOOLEAN /\ timeTo' \in BOOLEAN
      /\ timerAlive' \in BOOLEAN
  BY DEF IInv, TypeOK, Accepted, CommandDone, UncaughtError, SkipTimed, TimedDone,
         alarmVars
<1>3. TypeOK'
  BY <1>1, <1>2 DEF IInv, TypeOK, jobVars, roundVars, Phases, LpcPhases
<1>4. AskedIsPending'
  BY <1>1 DEF AskedIsPending
<1> QED
  BY <1>1, <1>3, <1>4, RoundUnchanged DEF IInv

LEMMA StartTimedKeeps ==
  ASSUME IInv, NEW advances \in BOOLEAN, StartTimed(advances)
  PROVE  IInv'
<1>1. /\ UNCHANGED <<jobVars, nextGiver, cmdsGiven, ready, overtaken, timerAlive>>
      /\ phase' = "timed" /\ commTime' = FALSE /\ commReturn' = FALSE /\ timeTo' = FALSE
      /\ numCmds' = IF advances THEN [u \in Users |-> 0] ELSE numCmds
  BY DEF StartTimed
<1>2. \A v \in Users : MaxCmds[v] >= -1 /\ MaxCmds[v] \in Int
  BY BackendAssumption
<1>3. TypeOK'
  <2>1. numCmds' \in [Users -> Nat] /\ \A v \in Users : numCmds'[v] <= MaxCmds[v] + 1
    BY <1>1, <1>2 DEF IInv, TypeOK
  <2> QED
    BY <1>1, <2>1 DEF IInv, TypeOK, jobVars, Phases, LpcPhases
<1>4. AskedIsPending'
  BY <1>1 DEF AskedIsPending
<1>5. WaitsReady'
  <2>1. ~IsLimited(Watched) => ~IsLimited(Watched)'
    BY <1>1, <1>2, RoundFacts DEF IsLimited
  <2> QED
    BY <1>1, <2>1 DEF IInv, WaitsReady
<1>6. RoundBound'
  BY <1>1 DEF IInv, RoundBound, Passed, Quota, EdQuota
<1> QED
  BY <1>3, <1>4, <1>5, <1>6 DEF IInv

-----------------------------------------------------------------------------
(* Theorems.                                                               *)

\* Types, the quota of each user and who waits for whom hold in all states.
THEOREM Invariance == Spec => []IInv
<1>1. Init => IInv
  BY InitHolds
<1>2. IInv /\ [Next]_vars => IInv'
  <2> SUFFICES ASSUME IInv, [Next]_vars
               PROVE  IInv'
    OBVIOUS
  <2>1. CASE Alarm \/ TimerDies \/ RestartTimer
    BY <2>1, AlarmsKeep
  <2>2. CASE ShutDownEfun \/ RequestCollection \/ \E s \in Signals : Signal(s)
    BY <2>2, RequestsKeep
  <2>3. CASE \E u \in Users : Type(u) \/ Disconnect(u)
    BY <2>3, TypeKeeps, DisconnectKeeps
  <2>4. CASE StartTurn \/ JobStep
    BY <2>4, JobsKeep
  <2>5. CASE Select
    BY <2>5, SelectKeeps
  <2>6. CASE SkipUser
    BY <2>6, SkipUserKeeps
  <2>7. CASE TakeCommand
    BY <2>7, TakeCommandKeeps
  <2>8. CASE Accepted \/ CommandDone \/ UncaughtError \/ SkipTimed \/ TimedDone
    BY <2>8, TurnKeeps
  <2>9. CASE \E advances \in BOOLEAN : StartTimed(advances)
    BY <2>9, StartTimedKeeps
  <2>10. CASE UNCHANGED vars
    <3>1. TypeOK' /\ AskedIsPending'
      BY <2>10 DEF IInv, TypeOK, AskedIsPending, vars, jobVars, alarmVars, roundVars
    <3> QED
      BY <2>10, <3>1, RoundUnchanged DEF IInv, vars
  <2> QED
    BY <2>1, <2>2, <2>3, <2>4, <2>5, <2>6, <2>7, <2>8, <2>9, <2>10 DEF Next, LoopStep
<1> QED
  BY <1>1, <1>2, PTL DEF Spec

\* Every variable of the backend keeps its type, and nobody gives more
\* commands in a second than maxNumCmds allows, by one.
THEOREM TypeCorrect == Spec => []TypeOK
<1>1. IInv => TypeOK
  BY DEF IInv
<1> QED
  BY <1>1, Invariance, PTL

\* get_message() serves users in turn: while a command waits, each of the
\* other users gives his quota at most.
THEOREM UsersAreServedInTurn == Spec => []EachInTurn
<1>1. IInv => EachInTurn
  <2> SUFFICES ASSUME IInv
               PROVE  EachInTurn
    OBVIOUS
  <2>1. overtaken <= Quota(Others) /\ Quota(Others) \in Nat
    <3>1. Passed(nextGiver) \in SUBSET Others /\ Others \in SUBSET Users
      BY PassedType DEF IInv, TypeOK
    <3>2. Quota(Passed(nextGiver)) <= Quota(Others) /\ Quota(Others) \in Nat
      BY <3>1, QuotaGrows, QuotaType
    <3>3. CASE overtaken <= Quota(Passed(nextGiver))
      BY <3>2, <3>3, RoundFacts
    <3>4. CASE overtaken > Quota(Passed(nextGiver))
      <4>1. nextGiver \in Editors \ {Watched}
        BY <3>4 DEF IInv, RoundBound
      <4>2. nextGiver \in Users /\ nextGiver # Watched
        BY <4>1, BackendAssumption
      <4>3. nextGiver \notin Passed(nextGiver)
        BY <4>2, PassedStep
      <4>4. Quota(Passed(nextGiver) \cup {nextGiver})
              = Quota(Passed(nextGiver)) + (AllowedEdCmds + 1)
        BY <4>1, <4>2, <4>3, RoundFacts, QuotaAdd
      <4>5. Passed(nextGiver) \cup {nextGiver} \in SUBSET Others
        BY <3>1, <4>2 DEF Others
      <4>6. Quota(Passed(nextGiver) \cup {nextGiver}) <= Quota(Others)
        BY <3>1, <4>5, QuotaGrows
      <4> QED
        BY <3>2, <4>4, <4>6, RoundFacts DEF IInv, RoundBound
    <3> QED
      BY <3>3, <3>4, RoundFacts
  <2> QED
    BY <2>1 DEF EachInTurn, Others, Quota, EdQuota
<1> QED
  BY <1>1, Invariance, PTL
=============================================================================
