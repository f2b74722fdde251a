------------------------------- MODULE Backend -------------------------------
(***************************************************************************)
(* The main loop of the driver (backend() in src/src/backend.c), the flags *)
(* its signal handlers set, and the round of player commands that          *)
(* get_message() of src/src/comm.c makes over the connected users.         *)
(*                                                                         *)
(* One turn of the loop does the extra jobs (signals, shutdown, reload of  *)
(* the master, garbage collection), gets one command or the news that an   *)
(* alarm came, executes the command, and once per alarm runs heart beats,  *)
(* call_outs and the reset and swap of objects: the "timed" section, whose *)
(* parts are the modules HeartBeat and CallOut.  A signal handler may run  *)
(* between any two steps.                                                  *)
(***************************************************************************)
EXTENDS Integers, FiniteSets, Sequences

CONSTANTS
  MaxPlayer,      \* max_player, the highest index in all_players
  Editors,        \* the users that are in ed()
  AllowedEdCmds,  \* ALLOWED_ED_CMDS
  MaxCmds,        \* maxNumCmds of each user, -1 for no limit
  Signals,        \* the signals that are stored for the backend
  Watched         \* the user whose waiting is counted (history)

Users == 0..MaxPlayer

\* The order in which process_pending_signals() tests the signals.
SignalOrder == <<"TERM", "HUP", "USR1", "USR2", "INT">>

ASSUME BackendAssumption ==
  /\ MaxPlayer \in Nat
  /\ Editors \subseteq Users
  /\ AllowedEdCmds \in Nat
  /\ MaxCmds \in [Users -> Nat \cup {-1}]
  /\ Signals \subseteq {"TERM", "HUP", "USR1", "USR2", "INT"}
  /\ Watched \in Users

VARIABLES
  phase,       \* what the driver is doing
  tested,      \* how many signals process_pending_signals() has tested
  pending,     \* pending_signals
  extraJobs,   \* extra_jobs_to_do
  shutDown,    \* game_is_being_shut_down
  reload,      \* master_will_be_updated
  gcRequest,   \* gc_request is not gcDont
  commTime,    \* comm_time_to_call_heart_beat
  commReturn,  \* comm_return_to_backend
  timeTo,      \* time_to_call_heart_beat
  timerAlive,  \* the interval timer sends alarms
  nextGiver,   \* NextCmdGiver
  cmdsGiven,   \* CmdsGiven
  ready,       \* the users with a complete command (TS_READY)
  numCmds,     \* the commands of each user in this second, if these are limited
  overtaken    \* history: commands of others that a command of Watched waits for

jobVars == <<tested, pending, extraJobs, shutDown, reload, gcRequest>>
alarmVars == <<commTime, commReturn, timeTo, timerAlive>>
roundVars == <<nextGiver, cmdsGiven, ready, numCmds, overtaken>>
vars == <<phase, jobVars, alarmVars, roundVars>>

\* The phases in which LPC code may run.
LpcPhases == {"top", "asking", "reloading", "collecting", "closing",
              "accepting", "message", "command", "timed"}
Phases == LpcPhases \cup {"signals", "jobs", "memory", "jobsDone", "after", "stopped"}

-----------------------------------------------------------------------------
(* What comes from outside, at any time.                                   *)

\* catch_alarm().
Alarm ==
  /\ phase # "stopped"
  /\ timerAlive
  /\ commReturn' = TRUE
  /\ commTime' = TRUE
  /\ UNCHANGED <<phase, jobVars, timeTo, timerAlive, roundVars>>

\* The alarm "died" (check_alarm()).
TimerDies ==
  /\ timerAlive
  /\ timerAlive' = FALSE
  /\ UNCHANGED <<phase, jobVars, commTime, commReturn, timeTo, roundVars>>

\* handle_signal(), the action not being one of those it takes at once.
Signal(s) ==
  /\ phase # "stopped"
  /\ s \in Signals \ pending
  /\ pending' = pending \cup {s}
  /\ extraJobs' = TRUE
  /\ commReturn' = TRUE
  /\ UNCHANGED <<phase, tested, shutDown, reload, gcRequest, commTime, timeTo,
                 timerAlive, roundVars>>

\* A user completes a command.
Type(u) ==
  /\ phase # "stopped"
  /\ u \notin ready
  /\ ready' = ready \cup {u}
  /\ UNCHANGED <<phase, jobVars, alarmVars, nextGiver, cmdsGiven, numCmds, overtaken>>

\* The connection of a user ends; it may be another one that types next.
Disconnect(u) ==
  /\ phase \in LpcPhases
  /\ u \in ready
  /\ ready' = ready \ {u}
  /\ overtaken' = IF u = Watched THEN 0 ELSE overtaken
  /\ UNCHANGED <<phase, jobVars, alarmVars, nextGiver, cmdsGiven, numCmds>>

-----------------------------------------------------------------------------
(* What LPC code asks of the backend.                                      *)

\* shutdown().
ShutDownEfun ==
  /\ phase \in LpcPhases
  /\ extraJobs' = TRUE
  /\ shutDown' = TRUE
  /\ UNCHANGED <<phase, tested, pending, reload, gcRequest, alarmVars, roundVars>>

\* garbage_collection(), or an allocation that fails for the first time.
RequestCollection ==
  /\ phase \in LpcPhases
  /\ extraJobs' = TRUE
  /\ gcRequest' = TRUE
  /\ UNCHANGED <<phase, tested, pending, shutDown, reload, alarmVars, roundVars>>

-----------------------------------------------------------------------------
(* The extra jobs.                                                         *)

\* The top of the loop.
StartTurn ==
  /\ phase = "top"
  /\ phase' = IF extraJobs THEN "signals" ELSE "message"
  /\ tested' = 0
  /\ UNCHANGED <<pending, extraJobs, shutDown, reload, gcRequest, alarmVars, roundVars>>

\* The next signal is not pending.
SkipSignal ==
  /\ phase = "signals"
  /\ tested < Len(SignalOrder)
  /\ SignalOrder[tested + 1] \notin pending
  /\ tested' = tested + 1
  /\ UNCHANGED <<phase, pending, extraJobs, shutDown, reload, gcRequest, alarmVars, roundVars>>

\* The next signal is pending: execute_signal_action(), which may ask the
\* master.
TakeSignal ==
  LET s == SignalOrder[tested + 1] IN
  /\ phase = "signals"
  /\ tested < Len(SignalOrder)
  /\ s \in pending
  /\ pending' = IF s = "TERM" THEN pending ELSE pending \ {s}
  /\ phase' = "asking"
  /\ UNCHANGED <<tested, extraJobs, shutDown, reload, gcRequest, alarmVars, roundVars>>

\* The signal was handled by the master.
SignalHandled ==
  /\ phase = "asking"
  /\ SignalOrder[tested + 1] # "TERM"
  /\ phase' = "signals"
  /\ tested' = tested + 1
  /\ UNCHANGED <<pending, extraJobs, shutDown, reload, gcRequest, alarmVars, roundVars>>

\* The driver is to shut down: on SIGTERM, on SIGHUP that the master does not
\* handle (either drops the other signals), and by DCS_SHUTDOWN.
SignalShutsDown ==
  LET s == SignalOrder[tested + 1] IN
  /\ phase = "asking"
  /\ shutDown' = TRUE
  /\ \/ /\ s \in {"TERM", "HUP"}
        /\ pending' = {}
        /\ extraJobs' = (s = "HUP" \/ extraJobs)
        /\ phase' = "jobs"
        /\ tested' = 0
     \/ /\ s # "TERM"
        /\ extraJobs' = TRUE
        /\ phase' = "signals"
        /\ tested' = tested + 1
        /\ UNCHANGED pending
  /\ UNCHANGED <<reload, gcRequest, alarmVars, roundVars>>

\* The master is to be loaded again: on SIGUSR1 that it does not handle, and
\* by DCS_RELOAD_MASTER.
SignalReloads ==
  /\ phase = "asking"
  /\ SignalOrder[tested + 1] # "TERM"
  /\ reload' = TRUE
  /\ extraJobs' = TRUE
  /\ phase' = "signals"
  /\ tested' = tested + 1
  /\ UNCHANGED <<pending, shutDown, gcRequest, alarmVars, roundVars>>

\* SIGINT that the master does not handle.
SignalKills ==
  /\ phase = "asking"
  /\ SignalOrder[tested + 1] = "INT"
  /\ phase' = "stopped"
  /\ UNCHANGED <<jobVars, alarmVars, roundVars>>

\* process_pending_signals() returns.
SignalsTested ==
  /\ phase = "signals"
  /\ tested = Len(SignalOrder)
  /\ phase' = "jobs"
  /\ tested' = 0
  /\ UNCHANGED <<pending, extraJobs, shutDown, reload, gcRequest, alarmVars, roundVars>>

\* backend() returns.
ShutDown ==
  /\ phase = "jobs"
  /\ shutDown
  /\ phase' = "stopped"
  /\ UNCHANGED <<jobVars, alarmVars, roundVars>>

\* Mutant: the reload does not depend on the test for the shutdown.
ReloadMasterFirst ==
  /\ phase = "jobs"
  /\ phase' = IF reload THEN "reloading" ELSE "memory"
  /\ reload' = FALSE
  /\ UNCHANGED <<tested, pending, extraJobs, shutDown, gcRequest, alarmVars, roundVars>>

\* The master is destructed, and loaded again to be told so.
ReloadMaster ==
  /\ phase = "jobs"
  /\ ~shutDown
  /\ phase' = IF reload THEN "reloading" ELSE "memory"
  /\ reload' = FALSE
  /\ UNCHANGED <<tested, pending, extraJobs, shutDown, gcRequest, alarmVars, roundVars>>

MasterReloaded ==
  /\ phase = "reloading"
  /\ phase' = "memory"
  /\ UNCHANGED <<jobVars, alarmVars, roundVars>>

\* low_memory() in the master, garbage_collection(), and slow_shut_down() in
\* the master if the memory reserves are still in use.
CollectGarbage ==
  /\ \/ phase = "memory" /\ phase' = IF gcRequest THEN "collecting" ELSE "jobsDone"
     \/ phase = "collecting" /\ phase' \in {"closing", "jobsDone"}
     \/ phase = "closing" /\ phase' = "jobsDone"
  /\ gcRequest' = (gcRequest /\ phase # "collecting")
  /\ UNCHANGED <<tested, pending, extraJobs, shutDown, reload, alarmVars, roundVars>>

\* extra_jobs_to_do is reset after all of them.
JobsDone ==
  /\ phase = "jobsDone"
  /\ extraJobs' = FALSE
  /\ phase' = "message"
  /\ UNCHANGED <<tested, pending, shutDown, reload, gcRequest, alarmVars, roundVars>>

-----------------------------------------------------------------------------
(* get_message().                                                          *)

\* check_alarm(), at the top of the loop and before select(): no alarm came
\* for too long.
RestartTimer ==
  /\ phase = "top" \/ (phase = "message" /\ nextGiver < 0)
  /\ ~timerAlive
  /\ timerAlive' = TRUE
  /\ commReturn' = TRUE
  /\ commTime' = TRUE
  /\ timeTo' = TRUE
  /\ UNCHANGED <<phase, jobVars, roundVars>>

\* select(), the start of a new round of commands; then answers of the ERQ
\* and new connections are handled.
Select ==
  /\ phase = "message"
  /\ nextGiver < 0
  /\ cmdsGiven' = 0
  /\ nextGiver' = MaxPlayer
  /\ phase' = "accepting"
  /\ UNCHANGED <<jobVars, alarmVars, ready, numCmds, overtaken>>

\* An alarm or a signal makes get_message() return before the round.
Accepted ==
  /\ phase = "accepting"
  /\ timeTo' = (timeTo \/ commTime)
  /\ phase' = IF commTime \/ commReturn THEN "after" ELSE "message"
  /\ UNCHANGED <<jobVars, commTime, commReturn, timerAlive, roundVars>>

\* maxNumCmds is reached.  ip->numCmds is 0 after the first command of a
\* second: here the commands themselves are counted.
IsLimited(u) == MaxCmds[u] >= 0 /\ numCmds[u] > MaxCmds[u]

\* The user has no command, or none is taken.
SkipUser ==
  /\ phase = "message"
  /\ nextGiver >= 0
  /\ nextGiver \notin ready \/ IsLimited(nextGiver)
  /\ nextGiver' = nextGiver - 1
  /\ UNCHANGED <<phase, jobVars, alarmVars, cmdsGiven, ready, numCmds, overtaken>>

\* Mutant: ALLOWED_ED_CMDS is compared after one command too many.
TakeCommandOneMore ==
  LET u == nextGiver IN
  /\ phase = "message"
  /\ u \in ready
  /\ ~IsLimited(u)
  /\ ready' = ready \ {u}
  /\ IF u \in Editors /\ cmdsGiven <= AllowedEdCmds
     THEN cmdsGiven' = cmdsGiven + 1 /\ UNCHANGED nextGiver
     ELSE cmdsGiven' = 0 /\ nextGiver' = u - 1
  /\ numCmds' = IF MaxCmds[u] < 0 THEN numCmds ELSE [numCmds EXCEPT ![u] = @ + 1]
  /\ overtaken' = IF u # Watched /\ Watched \in ready /\ ~IsLimited(Watched)
                  THEN overtaken + 1 ELSE 0
  /\ phase' = "command"
  /\ UNCHANGED <<jobVars, alarmVars>>

\* get_message() returns with the command of a user; it is the user's turn
\* again only if he is in ed().
TakeCommand ==
  LET u == nextGiver IN
  /\ phase = "message"
  /\ u \in ready
  /\ ~IsLimited(u)
  /\ ready' = ready \ {u}
  /\ IF u \in Editors /\ cmdsGiven < AllowedEdCmds
     THEN cmdsGiven' = cmdsGiven + 1 /\ UNCHANGED nextGiver
     ELSE cmdsGiven' = 0 /\ nextGiver' = u - 1
  /\ numCmds' = IF MaxCmds[u] < 0 THEN numCmds ELSE [numCmds EXCEPT ![u] = @ + 1]
  /\ overtaken' = IF u # Watched /\ Watched \in ready /\ ~IsLimited(Watched)
                  THEN overtaken + 1 ELSE 0
  /\ phase' = "command"
  /\ UNCHANGED <<jobVars, alarmVars>>

-----------------------------------------------------------------------------
(* The rest of the turn.                                                   *)

\* The command was executed.
CommandDone ==
  /\ phase = "command"
  /\ phase' = "after"
  /\ UNCHANGED <<jobVars, alarmVars, roundVars>>

\* Mutant: an error ends the round of commands, too.
UncaughtErrorEndsRound ==
  /\ phase \in {"command", "accepting"}
  /\ phase' = "top"
  /\ nextGiver' = -1
  /\ overtaken' = IF overtaken > MaxPlayer * (AllowedEdCmds + 1) THEN 0 ELSE overtaken
  /\ UNCHANGED <<jobVars, alarmVars, cmdsGiven, ready, numCmds>>

\* An error that nobody catches longjmp()s to the top of the loop: in the
\* command, or in the logon() of a new connection.
UncaughtError ==
  /\ phase \in {"command", "accepting"}
  /\ phase' = "top"
  /\ UNCHANGED <<jobVars, alarmVars, roundVars>>

\* Mutant: an alarm that get_message() has not noticed is dropped.
SkipTimedForgets ==
  /\ phase = "after"
  /\ ~timeTo
  /\ commReturn' = FALSE
  /\ commTime' = FALSE
  /\ phase' = "top"
  /\ UNCHANGED <<jobVars, timeTo, timerAlive, roundVars>>

\* No alarm since the last timed section that get_message() had noticed.
SkipTimed ==
  /\ phase = "after"
  /\ ~timeTo
  /\ commReturn' = FALSE
  /\ phase' = "top"
  /\ UNCHANGED <<jobVars, commTime, timeTo, timerAlive, roundVars>>

\* The timed section begins; the clock shows the next second, or the one it
\* was rounded up to already.
StartTimed(advances) ==
  /\ phase = "after"
  /\ timeTo
  /\ commReturn' = FALSE
  /\ commTime' = FALSE
  /\ timeTo' = FALSE
  /\ numCmds' = IF advances THEN [u \in Users |-> 0] ELSE numCmds
  /\ phase' = "timed"
  /\ UNCHANGED <<jobVars, timerAlive, nextGiver, cmdsGiven, ready, overtaken>>

TimedDone ==
  /\ phase = "timed"
  /\ phase' = "top"
  /\ UNCHANGED <<jobVars, alarmVars, roundVars>>

Init ==
  /\ phase = "top"
  /\ tested = 0
  /\ pending = {}
  /\ extraJobs = FALSE
  /\ shutDown = FALSE
  /\ reload = FALSE
  /\ gcRequest = FALSE
  /\ commTime = FALSE
  /\ commReturn = FALSE
  /\ timeTo = FALSE
  /\ timerAlive = TRUE
  /\ nextGiver = -1
  /\ cmdsGiven = 0
  /\ ready = {}
  /\ numCmds = [u \in Users |-> 0]
  /\ overtaken = 0

JobStep ==
  \/ SkipSignal
  \/ TakeSignal
  \/ SignalHandled
  \/ SignalShutsDown
  \/ SignalReloads
  \/ SignalKills
  \/ SignalsTested
  \/ ShutDown
  \/ ReloadMaster
  \/ MasterReloaded
  \/ CollectGarbage
  \/ JobsDone

Advance == StartTimed(TRUE)

LoopStep ==
  \/ StartTurn
  \/ JobStep
  \/ Select
  \/ Accepted
  \/ SkipUser
  \/ TakeCommand
  \/ CommandDone
  \/ UncaughtError
  \/ SkipTimed
  \/ \E advances \in BOOLEAN : StartTimed(advances)
  \/ TimedDone

Next ==
  \/ Alarm
  \/ TimerDies
  \/ \E s \in Signals : Signal(s)
  \/ \E u \in Users : Type(u) \/ Disconnect(u)
  \/ ShutDownEfun
  \/ RequestCollection
  \/ RestartTimer
  \/ LoopStep

Spec == Init /\ [][Next]_vars

\* The driver is one thread that goes on with what it does: LPC code ends, by
\* the eval cost limit at the latest.  The timer sends alarms as long as it is
\* alive, and a dead one is noticed.  The clock advances.  Not every single
\* select() brings a new connection whose logon() fails.
FairSpec ==
  /\ Spec
  /\ WF_vars(LoopStep)
  /\ WF_vars(Alarm)
  /\ SF_vars(RestartTimer)
  /\ SF_vars(Advance)
  /\ SF_vars(Accepted)

-----------------------------------------------------------------------------
(* Properties.                                                             *)

TypeOK ==
  /\ phase \in Phases
  /\ tested \in 0..Len(SignalOrder)
  /\ pending \subseteq Signals
  /\ \A flag \in {extraJobs, shutDown, reload, gcRequest} : flag \in BOOLEAN
  /\ \A flag \in {commTime, commReturn, timeTo, timerAlive} : flag \in BOOLEAN
  /\ nextGiver \in -1..MaxPlayer
  /\ cmdsGiven \in 0..AllowedEdCmds
  /\ ready \subseteq Users
  /\ numCmds \in [Users -> Nat]
  /\ \A u \in Users : numCmds[u] <= MaxCmds[u] + 1
  /\ overtaken \in Nat

\* While a command waits, each of the others is served once and no more, whatever
\* errors, alarms and signals interrupt the round.  Served is one command, or
\* ALLOWED_ED_CMDS + 1 of a user who is editing: get_message() compares CmdsGiven
\* before it counts the command it takes.  That is one more than its comment
\* says ("when they are editing, then they can give up to ALLOWED_ED_CMDS").
EachInTurn ==
  LET others == Users \ {Watched} IN
  overtaken <= Cardinality(others \ Editors)
                 + Cardinality(others \cap Editors) * (AllowedEdCmds + 1)

\* Heart beats and call_outs are run after every alarm, however much the users
\* type and whatever fails, and also when the timer dies.
TimeGoesOn == commTime ~> phase \in {"timed", "stopped"}

\* A command of a user is taken, even if every round is ended by an alarm
\* before it has begun.
CommandsAreTaken ==
  \A u \in Users : u \in ready ~> (u \notin ready \/ phase = "stopped")

\* shutdown(), called in a command, a heart beat or a call_out, stops the game.
ShutdownHappens ==
  phase \in {"command", "timed"} /\ shutDown /\ extraJobs ~> phase = "stopped"

\* doc/master/handle_external_signal: a signal that the driver receives is
\* forwarded to the master.
SignalsAreForwarded ==
  \A s \in Signals : s \in pending ~> (s \notin pending \/ phase = "stopped")
=============================================================================
