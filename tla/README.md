# A TLA+ model of LDMud

LDMud is a game driver: a single-threaded server that runs programs written in
LPC for users connected over telnet. The driver owns the main loop; LPC code
runs in commands of users, in heart beats, in delayed calls ("call_outs") and in
the callbacks of objects, and calls back into the driver through efuns. What
makes it hard to get right is not parallelism but re-entrance: nearly every
loop of the driver calls LPC code, and that code may change the list the loop
runs over, destruct the objects in it or leave the loop by an error
(`longjmp()`). The only true concurrency are the signal handlers.

This directory models that core: the loop and its handlers, the two mechanisms
that run LPC code by time, coroutines with their control stack, the life of
objects from the list of all objects to the release of their memory, their
inventories, actions and shadows, the swapper, and the requests to the external
ERQ process. Paths below are those of the
repository, with `src/` before them.

## 1. Inventory

| Part | State | Operations | Hard because |
|---|---|---|---|
| Backend loop (`src/src/backend.c`) | `extra_jobs_to_do` and the requests it announces, `pending_signals`, `comm_time_to_call_heart_beat`, `comm_return_to_backend`, `time_to_call_heart_beat` | the turn of the loop, signal handlers, `check_alarm()`, `process_objects()` | flags set by handlers between any two steps; errors that jump to the top |
| User round (`src/src/comm.c`, `get_message()`) | `NextCmdGiver`, `CmdsGiven`, `numCmds` | select, scan, take a command | interrupted rounds, fairness between users |
| Connections (`src/src/comm.c`) | `all_players`, telnet state, input_to stack, write buffer | connect, negotiate, disconnect, input_to, exec, snoop | user gone while its input is handled |
| ERQ (`src/src/comm.c`) | `pending_erq[]` with its free list, the connection, half a message not yet sent, the buffer of answers | send, answer, keep the handle, lose, stop, start, attach a user as ERQ | late answers, handles used again, callbacks from inside the loops over handles and answers |
| Call_outs (`src/src/call_out.c`) | `call_list` of differences, `num_callouts`, cost per user | call_out, find, remove, run, purge | list changed from inside its loop, clock jumps, errors |
| Heart beats (`src/src/heartbeat.c`) | `hb_list`, `next_hb`, flags, counter, `tlast` | set, run, fail, destruct | same, and the alarm ends a round anywhere |
| Coroutines (`src/src/coroutine.c`, `src/src/interpret.c`) | state, awaiter/awaitee links, frames | create, call, await, yield, return, abort | errors in the middle of a hand-over |
| Objects (`src/src/simulate.c`, `object.c`, `otable.c`) | object list, newly destructed and destructed lists, inventory, shadows | load, clone, move, shadow, destruct | destruction while in use |
| Error contexts (`src/src/simulate.c`) | context stack, eval cost and limits | catch, errorf, limited | what an unwinding must restore |
| Swapper (`src/src/swap.c`) | free list of the file, the two halves of an object | swap out, swap in, free | I/O errors half way |
| Interpreter, closures (`src/src/interpret.c`, `closure.c`) | value and control stack | one per bytecode | size |
| Commands (`src/src/actions.c`), wizlist (`wiz_list.c`) | sentences, statistics per user | add_action, parse | sequential |
| Data types (`mstrings.c`, `mapping.c`, `array.c`, `structs.c`, ...) | reference counts, hash tables | efuns | sequential |
| Memory (`smalloc.c`, `slaballoc.c`, `xalloc.c`, `gcollect.c`) | heaps, reserves | allocate, collect | raw memory |
| Compiler, regexps, editor, packages, start-up | - | - | functions of their input, or bindings |

How they interact. The backend calls `get_message()` for one command, executes
it, and, once per alarm, runs `next_call_out_cycle()`, `call_heart_beat()`,
`call_out()` and `process_objects()` in that order: a call_out that a heart
beat makes is timed from the new second. `destruct()` turns a heart beat off,
makes call_outs stale (they are dropped when they come up) and leaves
coroutines to be refused when somebody resumes them. `errorf()` switches off
the heart beat that failed and unwinds the control stack, which aborts
coroutines on the way. `process_objects()` is the only part of the driver that
swaps objects of its own accord; everybody else who touches an object swaps it
in, and `destruct()` does too. A user's connection lives in the same sentence of
an object as its place in a chain of shadows, in front of its actions. The
wizlist entry of an object's owner carries the
evaluation cost of its call_outs from call to call. The ERQ is looked at by
`get_message()` between `select()` and the users; its callbacks run with no
command giver and are billed to that same account, and `attach_erq_demon()` may take the connection of a user for it.

## 2. The modules

| Module | Models | State |
|---|---|---|
| `Backend` | the loop of `backend()`, `handle_signal()`, `catch_alarm()`, `check_alarm()`, `process_pending_signals()`, the extra jobs, and the round of `get_message()` | the flags by name, `phase` for the program counter |
| `CallOut` | `call_out.c` as a whole, the steps of the backend around it, and the evaluation cost of the ERQ callbacks in `get_message()` | `callList` is a sequence of records with the field `delta`; `asker` is the object whose callback runs |
| `HeartBeat` | `heartbeat.c`, `errorf()`'s handling of a failing heart beat, `destruct()` | `hbList` is a sequence of objects, `nextHb` the object of the node |
| `Coroutine` | `coroutine.c`, the instructions `F_RETURN`, `F_TRANSFORM_TO_COROUTINE`, `F_AWAIT`, `F_YIELD_*`, `call_coroutine()`, `pull_error_context()` | `state`, the two links, `stack` of frames |
| `ProcessObjects` | `process_objects()`, the object list and both lists of destructed objects, references, the master that is taken back | `objList` is a sequence, `newlyDestructed` and `destructed` are sets, as their order is of no account, `pc` the place in the loop |
| `Objects` | `f_set_environment()`, `destruct()`, `shadow()`, `unshadow()`, `add_action()`, `remove_action()` and the removal of actions, `exec()` and connections as far as they hold a sentence | `contains` and `super`, `ann` with the list of sentences of each object, `calls` with the efuns that wait for an answer of the master |
| `ObjectStore` | what the swapper promises: objects with data, no swapping | `store` |
| `Swap` | `swap.c` as a whole with its callers `process_objects()`, `swap()`, `remove_object()` and the garbage collector | `sw` holds the static variables, the block list as a function from offset to size; `file`; `obj` |
| `Erq` | the ERQ interface of `comm.c`: `f_send_erq()`, `send_erq()`, `f_attach_erq_demon()`, `start_erq_demon()`, `stop_erq_demon()`, the loop over the answers in `get_message()`, what `remove_interactive()` does with a connection meant for the ERQ | `erq` holds the static variables, `stack` the frames of the driver in which LPC code runs with the locals they keep, `peer` the other process |
| `MCBackend`, `MCCallOut`, `MCHeartBeat`, `MCCoroutine`, `MCProcessObjects`, `MCObjects`, `MCSwap`, `MCErq` | the instances TLC checks | |
| `CoroutineProofs`, `BackendProofs`, `ProcessObjectsProofs`, `HeartBeatProofs`, `CallOutProofs`, `ErqProofs`, `ObjectsProofs` | theorems about the module of that name | |
| `SwapProofs` | theorems about `Swap`: the list of blocks; objects, holders and the refinement | |

Conventions. One action is one stretch of driver code between two points where
other code may run: LPC code (another action of the same module, enabled in
"LPC phases") or, in `Backend` and `HeartBeat`, a signal handler. An efun that asks
the master in the middle is two actions or more: in `Objects`, `AskShadow` has the
tests of `validate_shadowing()` before `query_allow_shadow()` and `Shadow` what comes
after it; `AskAddAction`, `AskAgain` and `EndAddAction` are the walk of `add_action()`
down the shadows with `privilege_violation()` on the way. An error is an
action that may be taken wherever LPC code runs. Pointers to objects, users and
coroutines are model values; a C list is a sequence. Variables marked *history*
are not in the code: they remember what a property speaks about and no guard
depends on them. Operators with the comment "Mutant" before them are not part of
the specification either: each is an action or helper with a plausible mistake,
kept to show that a property notices it.

`CallOut` and `HeartBeat` each stand for the timed section of `Backend` that
drives them. What passes between them is small: the alarm flag that ends a round
of heart beats, the current time, and the order of the calls. Each module has
that interface as actions of its own (`NextCallOutCycle`, `StartCallOut`,
`StartCycle`, `Alarm`) and `Backend` shows that the timed section is entered.

The life of an object is divided among three modules that do not overlap in
state. `ProcessObjects` has the lists it is in and knows a swapped object only as
a step that may fail (`ResetFailsToLoad`); `Swap` has where its data are, and
creates and destructs it at any time; `Objects` has its relations to other
objects while it lives, and `RemoveObject` for the rest of its sentences.

In `Objects`, a sentence is one record for the two C structures `action_t` and
`shadow_t`, because `destruct()` reads the one as the other (see the runs).

`Swap` implements `ObjectStore` under the refinement mapping `Seen`: what an
object holds is in memory or is what `Read` finds in the file at its swap
number. `Transparent` is the abstract specification with that mapping: no sequence
of swapping, failures, clean-ups and collections changes or loses data.

In `Erq`, all efuns may be called whenever LPC code runs, and LPC code runs when
the stack is empty (a command) or its innermost frame is a call. A frame `loop` is
`get_message()` with the messages from `rp` on and the answer it is at; a frame
`stop` is `stop_erq_demon()` with its place in `pending_erq[]` and what its caller
does afterwards. The field `u` of an entry is the union of the C code: the next
free entry, or the closure.

Data left out: function names and arguments of calls (two entries for one object
are two calls of one function), the text of commands, verbs of actions, values
saved in coroutines. In `Swap`, sizes are in words and the content of a block is
one tag in each word, so that a block that is overwritten, freed or too short is
noticed when it is read; statistics, and the two spare blocks that save calls of
malloc, are left out; a swap file that cannot be opened makes a call do nothing,
which is no step; shared programs (cloned, inherited) are never swapped and not
modelled. In `ProcessObjects`, the exact ages of an object are inputs of the steps
that ask for them. In `Erq`, the content of messages is left out and they are read
whole; an answer says to which request the ERQ gives it, which only the property
looks at.

## 3. What is checked

`PROJECT.json` lists the runs with their properties; this is why they are there.

**`call_out`** - three call_outs, two objects of one user (one a player, one
lightweight), delays of -1 and 1, a clock that goes -2, 0 or 2 seconds between
alarms, so that it is at second 1 or 3. Three entries are the smallest list with a
first, middle and last one; the clock goes back (differences grow), stands still and
skips a second, so that calls are late and calls made meanwhile go before, between
and behind them. Shown: the counter matches the list even while a call
is popped and put back (`TypeOK`), a call is executed at the second asked for
whatever is inserted or removed before it (`OnTimeExact`, for calls made while no overdue
call heads the list - see the deviations), the loop leaves nothing that is due
(`NothingDueLeft`), and calls for the same second run in the order they were
made (`FirstInFirstOut`). All call_outs and ERQ callbacks of one user together get
the cost of one evaluation per second, also across errors and calls put off by a second,
and the same again after a callback that failed (`EvalBudget` - see the deviations;
the limit is one step here and any number in the proof), and the
loop ends however many calls without delay the calls make (`LoopEnds`). The
actions of several users meet in the list only; what each may spend is proved
for any set of users.

**`heart_beat_order`** - three objects, interval 2, alarms at any point of a
round, clock steps of 0, 1 and 2 to second 4. The loop visits the objects oldest
beat first (`VisitsOldestFirst`); this is what makes it right to end the round
at the first object that is not due (`NoneDueLeft`), and nobody starves even if
every round is cut short (`NobodyStarves`).

**`heart_beat_toggle`** - two objects with a heart_beat() function and one
without, heart beats globally enabled and disabled at any time, both settings of
`synch_heart_beats`. Nodes, flags and counter agree, `next_hb` never points at a
freed node (`ListIsConsistent`), and two beats of an object are an interval
apart (`BeatSpacing`).

**`coroutine`** - four coroutines, two objects, four frames, with symmetry in
both sets (all properties treat members alike; none of them is a liveness
property). Four coroutines are needed for a chain of three with somebody outside
it. The properties are described with the proofs.

**`backend`** - two users, user 1 in the editor and limited to one command per
second, user 0 the one that waits, two signals, a timer that may die. Users are
served in turn whatever interrupts the round (`EachInTurn`, with one command more
for a user in the editor than the driver's comment says - see the deviations), the timed section
follows every alarm (`TimeGoesOn`), every command is taken (`CommandsAreTaken`),
and `shutdown()` is obeyed whatever else is to be done (`ShutdownHappens`).

**`process_objects`** - the master and two others, one reference beside that of
the list, three loads, alarms between any two steps of the loop. The loop moves
each object to the end of the list before it works on it; shown is that this
makes no call of `process_objects()` handle an object twice whatever is loaded,
destructed, taken back or fails meanwhile (`NobodyTwice`), that each object is in
one list at most (`TypeOK`), that a reset that is due is made (`DueIsReset`), and
that a destructed object is freed once the last reference is gone, though the
list of destructed objects is only searched when `dest_last_ref_gone` is set
(`DestructedAreFreed`). Three objects give the list a first, a middle and a last
one; a load may be of a new object or of one that was freed.

**`objects`** - a master and three others, of which each may hold, shadow, give
an action to and lose each other; one of them at a
time has a connection, which `exec()` moves; one efun at a time waits for the master,
while all of the others may be called. Checked with symmetry in the three. One action
in all lists is enough: an action is taken out for its own fields, except in
`remove_environment_sent()`, which decides by the first of a run of sentences with the
same `ob`, and for an action that makes a difference only if the run begins with the
shadow sentence.
Nobody has an action of an object that is gone or out of
reach (`ActionsInVicinity`), chains of shadows are lists in both directions whose
sentences are where `O_SHADOW` says (`ShadowChains`), and actions that a shadow
added go with the shadow (`ShadowActionsBacked`). Three objects are a chain with
an object in the middle, while the master is around them. The run is for a mudlib in
which the code that runs while the master is asked does not undo what the efun has
tested (`MasterMeddles = FALSE`): the efun itself tests only for destructed objects
afterwards, and with `TRUE` the three properties are false (see the deviations).

**`swap`** - two objects, variables of one word and programs of two, a file of up
to four words and one failing write: free blocks are split, joined on both
sides, reused and left over. Both modes of the allocator. The block list agrees
with rover and offset (`ListIsTight`), the totals with the list
(`FreeSpaceExact`), each used block with one holder (`UsedAreHeld`), the line
numbers can be had (`LinesAvailable`), and the swapper cannot be seen
(`Transparent`).

**`erq`** - three requests for two handles, so that handles are used again; one
request may be answered several times, the two others are those of another object;
they are treated alike, hence the symmetry; two messages
on the way, so that a loop has answers behind the one it is at; one user who can
become the ERQ and one more start, so that there are three ERQs one after the
other, each of which may die, send garbage or leave a message half sent. At any
time each handle is free or belongs to one waiting request
(`HandlesArePartitioned`), and an answer goes to the request that was asked
(`AnswersReachTheirAsker`). The run is for a mudlib that attaches an ERQ in commands
and in `H_ERQ_STOP`, and whose objects are not destructed while they wait for
several answers; for others see the deviations.

Deadlock is not checked where the system stops by design: `Backend` (driver
down), `CallOut`, `Coroutine`, `ProcessObjects`, `Swap` and `Erq` (all bounds used up, or a
failed assertion), `Objects` (a `destruct()` that does not return).

### Disagreements the runs show

Three runs are expected to end with a violation; each states what the
repository says of itself, and TLC shows that the code does something else.

* `coroutine_destruct`: a coroutine whose object was destructed goes on when the
  one it awaits returns.
* `backend_lost_signal`: a signal that comes while the extra jobs are done stays
  pending, as `extra_jobs_to_do` is reset after them.
* `objects_hang`: `destruct()` of a shadowed object does not return if the object
  that shadows it is shadowed by nobody and the newest of its actions is one of its
  own: its shadow sentence has just been freed, and the loop over the shadows
  takes the action for it. With other actions the loop leaves the chain and calls
  `remove_shadow_actions()` for objects that are none of the shadows, which does no harm.

### Deviations met without a run of their own

* A call_out of a lightweight object without saved command giver runs with the
  command giver left by whatever ran before (`call_out.c:394-441`), although
  `doc/efun/call_out` says that the current user is saved and restored.
  (`GiverOf` of `CallOut`).
* When the object of the next coroutine cannot be swapped in and a `catch()` is
  further up, `pull_error_context()` aborts a coroutine that does not run
  (`interpret.c:8965-8968`) and the assertion of `coroutine.c:434` fails. TLC
  refutes `AssertionsNeverFail` of `Coroutine`; the run `coroutine` checks
  everything that holds in spite of it.
* `load_ob_from_swap()` clears `O_SWAPPED` (`swap.c:2373`) also when it could not
  restore the variables for lack of memory, against `swap.c:23-26`. The pointer is a
  swap number then and is used as an address. `Swap` has this with `ReadFails =
  TRUE`, and TLC refutes `FlagIsHonest`; the run `swap` assumes `FALSE`, as what
  follows is undefined.
* A player keeps actions of the room it leaves, if the room shadows it, contrary to
  `doc/efun/add_action:32-33`. `remove_environment_sent()` decides for each run of
  sentences with the same `ob` by the first of them (`actions.c:422-469`); in the
  player's shadow sentence, which comes first, the shadow lies in that place, so the
  actions behind it that the room defined before it became a shadow are taken for a
  part of that run. With `RoomsShadow = TRUE` TLC refutes `ActionsInVicinity` in seven
  states; the run `objects` excludes rooms that shadow what is in them.
* `validate_shadowing()` makes its tests (`simulate.c:4877-4900`), then asks
  `query_allow_shadow()` in the master (4916-4917), and after that only looks for
  destructed objects (4919) before `f_shadow()` sets the links (4982-4997). Meanwhile
  the shadow may have been moved into something, have been shadowed by its victim, or
  the victim may shadow something else, contrary to the comment of `f_shadow()`
  (`simulate.c:4945-4950`): "shadow() also fails if [...] the calling object is already
  shadowing, is being shadowed, or has an environment. Also the target ob must not be
  shadowing something else." With `MasterMeddles = TRUE` TLC refutes `ShadowChains` in
  six states (a ring of shadows, after which a walk down the chain never ends in the
  code), `ActionsInVicinity` and `ShadowActionsBacked` in eight.
* In the same way `add_action()` called by a shadow asks `privilege_violation()`
  (`actions.c:1189`) on its walk down the chain, and goes on though the shadow may
  have been taken out of it: the action is then noted for a shadow that shadows
  nobody, and is not removed with it. The walk reads `O_GET_SHADOW(ob)` without a
  look at `O_SHADOW` (`actions.c:1193`); what it finds in an object that lost its
  shadow sentence meanwhile is undefined and not followed in the model.
* `destruct_object()` looks whether the inventory is empty and then saves the editor's
  buffer of a user (`simulate.c:2630-2648`, `comm.c:7449-7475`), which asks the master;
  what is moved into the user by then is not moved out by `destruct()`. With
  `MasterMeddles = FALSE` `Objects` is for buffers whose saving puts nothing into their
  user.
* The ERQ callbacks in `get_message()` share the account of the user's call_outs, but
  they are not held back if he is blocked (`comm.c:2687-2697`): the callback starts
  at a cost of -1, fails at its first instruction, and what is noted is the cost
  cleared for `runtime_error()` (`interpret.c:20818-20823`). So an ERQ callback that fails
  gives its user the whole budget of the second again, and lifts the block of a call_out
  that failed, though `wiz_list.c:64-67` says that `call_out_cost` is "the collected
  execution cost of all call_outs executed for time .last_call_out" and "prevents
  call_outs from hogging all the cpu". `EvalBudget` counts from the last failure of such
  a callback on; if `AnswerFails` left `spent` alone it would be false.
* `destruct()` of a master with several objects inside leaves the actions these
  have from each other, as nobody is left to move them out; `prepare_destruct()`
  asks the contents of all others to leave first. A master in `Objects` holds one
  object at most.
* `attach_erq_demon("", 0)` in `stale_erq()`, as `doc/efun/attach_erq_demon:29-31`
  advises, makes `pending_erq[]` anew (`comm.c:5764-5775`) while `stop_erq_demon()`
  goes through it (`comm.c:5913-5926`); the master is not told of the requests
  behind, contrary to `doc/master/stale_erq:8-9`. In the same way a callback of an
  answer that attaches a new ERQ with `do_close` comes back to a loop that frees its
  handle once more, though all handles are in the free list, and that goes
  on with the answers of the old ERQ. With `RestartAnywhere = TRUE` TLC refutes
  `EveryPendingIsTold` and `HandlesArePartitioned` of `Erq`.
* An answer with the handle kept frees it nevertheless if the object of the
  callback is destructed (`comm.c:2698-2705`). The next request gets the handle, and
  the answers that follow are given to it. With `DestructAnyone = TRUE` TLC
  refutes `AnswersReachTheirAsker`.
* A message of invalid length ends the loop over the answers, but if it was not
  the first of the buffer it stays there (`comm.c:2715-2721`) and stops the next ERQ
  when that sends its first answer.
* With `--no-erq` nobody makes the free list of `pending_erq[]`, and an ERQ attached
  from a user gets no request with a callback. `Erq` begins with the call of
  `start_erq_demon()` in `main()`.
* The garbage collector turns the callback of a request into the number 0 if it is
  a closure of an efun bound to a destructed object (`gcollect.c:1721-1724`);
  `get_message()` takes it for a closure when the answer comes. The callbacks of `Erq`
  are lfun closures and lambdas, which stay.
* The comment before the loop of `process_objects()` counts until the number
  "exceeds" that of all objects; the loop ends when it is equal.
* `doc/efun/call_out` promises a real delay of at least `<delay>`. A call made
  while the list is headed by an overdue entry (from a command or heart beat in
  a late second) may run one or more seconds early: `insert_call()` counts the
  delay from the head's time. `OnTimeExact` therefore speaks of the other calls.
* The documentation says that the call_outs of a user over the limit are
  discarded; `call_out()` puts them off by a second (`call_out.c:373-392`), and
  the model follows the code.
* `count_ref_from_call_outs()` clears a destructed command giver
  (`call_out.c:704-710`), after which the call looks as if it never had one,
  contrary to the comment in `call_out()`.
* Disabling heart beats sets `next_hb` to NULL (`heartbeat.c:158-162`); when they
  are enabled again the round begins at the head of the list and not with the
  oldest object. `VisitsOldestFirst` is checked without that switch.
* A user in `ed()` gives `ALLOWED_ED_CMDS + 1` commands in a row before it is the
  next one's turn, as `get_message()` compares `CmdsGiven` before it counts the
  command (`comm.c:3133-3144`); its comment says "they can give up to
  ALLOWED_ED_CMDS" (`comm.c:2249-2250`), and `config.h.in:468-470` calls the number
  "the ratio of the no of ed cmds executed per player cmd". `EachInTurn` is stated with the number the code allows; with
  `AllowedEdCmds` instead of `AllowedEdCmds + 1` TLC refutes it.
* `maxNumCmds` counts from 0 after the first command of a second, so that one
  command more than `doc/efun/configure_interactive` says is allowed.
* A `shutdown()` called by the master in `external_master_reload()`,
  `low_memory()` or `slow_shut_down()` is delayed like the lost signal until
  something else asks for extra jobs; `ShutdownHappens` is about the calls from
  commands and timed events.

## 4. Fairness

* `CallOut`: weak fairness of the steps of the loop. The driver has one thread,
  and an LPC function ends, by the limit on evaluation cost at the latest.
* `HeartBeat`: the same, weak fairness of the alarm and of the next timed
  section, and strong fairness of the step that calls the next object: the
  alarm may come before the loop has called anybody, but not every time, as the
  next alarm comes a second after the one before at the earliest.
* `Backend`: weak fairness of the loop and the alarm (an interval timer). Strong
  fairness of `RestartTimer` (a timer that is dead for 15 seconds is noticed at
  each turn), of a timed section in a new second (the clock advances), and of
  the end of accepting connections. The last one is an assumption about the
  world: an error in `logon()` of a new connection leaves `get_message()` before
  it looks at the alarm flag, and if every single `select()` brought one,
  neither the timed section nor the users would get their turn. Without the
  assumption TLC finds that starvation.

* `ProcessObjects`: weak fairness of the loop, which has one thread. Strong
  fairness of `CleanupStuff` (each turn of the backend calls it), of a call of
  `process_objects()` with enough time (a mud that is overloaded for ever does one
  reset per call, and with an object due each time another one can wait for ever)
  and of the reset of `Watched` (the memory to swap it in is not short for ever).

`Objects`, `Swap` and `Erq` have no liveness property: whether the ERQ answers is
not in the driver's hands.

## 5. What is proved

All theorems are for any values of the constants that satisfy the named assumption
of the module (`CoroutineAssumption`, `BackendAssumption`, ...), which say no more
than that NULL values are not members of the sets and that bounds are numbers;
bounds that TLC needs (depth of the stack, loads, size of the file) may have any
value. Each proof has an inductive invariant `IInv`, which TLC found true on the
instances first, and `Invariance` shows it for all states, with a lemma per action.

**Coroutines.** `IInv == TypeOK /\ AssertionsHold /\ Links /\ RunningOnce /\
NoAwaitCycle`. `Links` strengthens `AwaitsAreSound`: while `abort_coroutine()` goes
through the awaiters, the one it turns to next is cut off from the coroutine that
was just finished but still linked to those that await it (`AbortingIsCutOff`). The
parts depend on each other: a coroutine that finishes was running because it is in
the top frame (`RunningOnce`), so nobody's state is overwritten; the coroutine
woken is the awaiter and was awaiting (`Links`), so it is not in a frame; and the
coroutine that a new await links to is sleeping, hence awaits nobody, hence no
cycle is closed. Proved: every property of the run `coroutine`. `NoAwaitCycle` is
stated with sets (no non-empty set of coroutines in which everybody awaits a
member) so that it needs no recursion; `Chain`, the loop of
`get_resumable_coroutine()`, is the least set closed under awaiting.

**Backend.** `IInv == TypeOK /\ AskedIsPending /\ WaitsReady /\ RoundBound`.
`EachInTurn` bounds how many commands others give while one waits; inductive is that
they gave no more than the quota of the users whose turn has passed since
(`RoundBound`, from `NextCmdGiver`), and what the one at turn has given (`CmdsGiven`).
An interrupted round leaves both where they are, which is why it keeps the bound.

**Process objects.** `IInv == TypeOK /\ Len(objList) <= loads /\ VisitedAtEnd`: what was
visited is among the last `num_last_processed` objects of the list, as the loop
moves each object to the end before it works on it and everything else only
takes objects out or puts them in front. Hence `NobodyTwice`; `TypeOK` says that each
object is in one list.

**Heart beats.** `IInv == NodesOK /\ FlagsOK /\ RunOK /\ BeatsKnown /\ OrderKept`. Proved for
any instance: types, `ListIsConsistent`, `BeatSpacing`. `OrderKept` is that from
`next_hb` on, around the end of the list, `tlast` does not decrease; it gives
`VisitsOldestFirst` and `NoneDueLeft`, under the assumption `~MayDisable`: disabling
the heart beats in a round sets `next_hb` to NULL and loses the order (see the
deviations), so both theorems fail without it. The lemmas at the head of the module say
what taking out and inserting does to a sequence without repetition.

**Call_outs.** Two inductive invariants. For costs, `IInv == CostsOK /\ SpentIsCounted /\
EvalBudget`: what a user has spent in this second is covered by `eval_cost` while a
call_out or an ERQ callback runs and by the saved `call_out_cost` between them, unless
that is negative: then `call_out()` starts nothing for him, and what `get_message()`
starts can evaluate nothing before it has failed. A call_out and a callback start in the
same way (`StartKeeps`) and end in the same way (`CallEndsKeeps`). This does not look at the
list, so it holds whatever the list does. For the list, `OnSchedule`: the running total
of the deltas up to an entry (`Waits`) is what the call_out still waits, apart from the
head, which call_out() takes out before it makes the call, and entries of equal totals
of one object are in the order they were made. Running totals are functions that a
lemma (`TotalsExist`) shows to exist; inserting before an entry splits its delta and
leaves the totals behind it alone, and taking an entry out gives its delta to the next.
Hence `TypeOK`, `OnTimeExact`, `NothingDueLeft` and `FirstInFirstOut`. The library's
induction theorems cannot be used, so induction is over sets: a set of numbers with a
member has a least one (`NatMin`, from the well-foundedness of < on the numbers).

**Swapper.** `SwapProofs` first shows that `swap_alloc()` and `swap_free()` keep `ListOK`:
the blocks tile the file (`Tiled`), no two free ones are neighbours (`NoTwoFree`), and
rover, predecessor and `current_offset` agree (`RoverOK`); that the block returned
was free and has the size asked for, and that no other used block moves. On that,
`SwapProofs` has `IInv`: `ListOK`, the used blocks are those of the objects and the lost
ones, no two holders share one, and each object represents some data d (`Sound`),
in memory or in a block that holds them. Each operation of `swap.c` is shown once for
one object and the file (`StepKeeps`): it represents the same data afterwards, or
data changed as `ObjectStore` allows (`Moves`), and what others hold stays
(`OthersStay`). Hence `ListIsTight`, `UsedAreHeld`, `LinesAvailable`, `FlagIsHonest` and
`SwapIsTransparent`: `Swap` implements `ObjectStore`. All are under `~ReadFails`. With
`ReadFails` the code clears `O_SWAPPED` for variables it has not restored, and the
theorems are false (see the deviations).

The totals of the file are counted over the words, not the blocks: the free space is the
cardinality of the set of words of free blocks, so that a split, a join and a free change
it by what `total_free` changes (`FreeSpaceExact`, and with it `TypeOK` of `Swap`).

**ERQ.** Two inductive invariants. `HInv`: the free list is a sequence of handles without
repetition, of which each free entry is a member (`IsFreeList`; that following the links
gives it and ends, `FreeListIsWhole`, is the lemma `WholeList`); each other entry belongs
to one request that waits (`Shared`); the stack has at most one loop of get_message(), at
its bottom, and loops of stop_erq_demon() only without an ERQ and under at most one call
(`StackOK`); without an ERQ nothing is on its way (`OffIsQuiet`) and each request left is
one that a loop on the stack comes to (`OffIsTold`) - which is what makes it safe that
start_erq_demon() builds a new list over the old one. Hence `TypeOK` and
`HandlesArePartitioned`, under `~RestartAnywhere`: a callback of the ERQ that attaches
another one breaks `OffIsTold` (see the deviations). `AInv`: the messages read but not
done with, and those on the connection, form a line; each in it up to the first bad one is
for the owner of its handle, and nothing comes behind the last answer; what the ERQ
was asked and the rest of a request not yet written are for owners of handles too
(`MessagesOK`). So a handle is freed only when nothing for it is left anywhere, and who
gets it next gets no answer meant for another: `AnswersReachTheirAsker`. A buffer kept
behind a bad message is never read on, because it begins with that message
(`BufferOK`). It needs `~DestructAnyone` besides: get_message() frees the handle at any
answer to a destructed object, while the ERQ goes on to answer (see the deviations).

**Objects.** The theorems assume `MasterMeddles = FALSE`: when shadow() or add_action() go
on after a question to the master, what they tested is so (see the deviations); that they
need nothing else of the state in which they asked, so that all other efuns may run
between, is part of what is shown. `IInv` has three parts. `Inventory`: an inventory is without repetition and
holds the objects whose environment its owner is, only live objects have or are an
environment, and `super` has no ring (`Acyclic`: of any objects one has its
environment outside; that nobody is inside itself follows, `NotInsideItself`). It is
kept because set_environment() refuses a destination inside the object. `Shadows`:
`O_SHADOW`, the shadow sentence and the list agree (`Annotated`), the two directions of
the links are inverse and have no ring (`Linked`), and shadows are live and nowhere.
shadow() puts a new one on top, unshadow() and destruct() take one out of the middle
(`LeaveFacts`): the objects below and above keep the end of their chain. `Actions`:
each action is of a live object in the vicinity and, if a shadow added it, that is still a
shadow of the one it acts for (`Fine`). Inductive is this only with a third part: no
object has an action of one of its own shadows. Otherwise the actions of its
environment might be in one run with its shadow sentence, and
`remove_environment_sent()` would keep them. An object that becomes a shadow has no
environment, so only itself and who is inside it can have an action of it; that it
shadows neither is what `f_shadow()` and `RoomsShadow = FALSE` exclude, and a
shadow's new actions are in the name of the object below. Hence `TypeOK` and `ShadowChains`,
and under `RoomsShadow = FALSE` `ActionsInVicinity` and `ShadowActionsBacked`; with TRUE
they are false (see the deviations). The loops of the code over chains are functions
of a counter up to the number of objects; that they end at the last object is shown
with the pigeonhole theorem of the library (`NoLongChain`). The loop of destruct() over
former shadows, which may leave the chain, is shown to do nothing but remove actions
(`LoopFacts`), so all four hold although `DestructReturns` does not.

Only model-checked: the liveness properties, which are beyond the prover. Induction over data is done where needed with sets of positions; a recursive
operator occurs in no module with a theorem.

## 6. Not modelled

`PROJECT.json` lists the components with their status. Left out for good: the
compiler, data types, memory allocators and the garbage collector's traversal
(sequential code over raw memory, for which tests and the driver's own checks are
the better tool), the packages (bindings), the editor and the matchers (pure
functions). Left out for now: the next section.

## 7. Plan

Done: `CallOut`, `HeartBeat`, `Coroutine`, `Backend`, `Swap` and `ObjectStore`,
`Objects`, `ProcessObjects`, `Erq`, and the proofs of section 5. What a next step
would take:

1. `Commands`: the parser of commands, whose markers in the list of sentences
   survive that the functions it calls change the list; on top of `Objects`.
2. `ErrorContexts`: catch, the reserve of evaluation cost, limited().
3. `Connections`: the stack of input_to, snooping, the write buffer.
4. Refinement: `CallOut` implements an abstract timer (a bag of calls with their
   due times).
