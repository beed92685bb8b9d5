# Sleepy Agent: TLA+ specifications

Sleepy Agent lets a Codex task sleep until a job ends: `durable-continue register`
writes a row into a SQLite table, a LaunchAgent runs a read-only check command until it
matches or the hard timeout passes, and a dispatcher that Codex Desktop started sends the
message `continue` to the task and looks for it in the task's rollout file.  Four kinds of
processes share the one table, hold leases on its rows, and may die at any moment.

This directory models that protocol and the parts under it (the execution of checks, the
evidence in rollout files, the native pipe, the migration of old databases, heartbeats,
durations), checks them with TLC and proves with TLAPS, for every value of the constants, every
safety property of a passing run but the one about the rounding of floats.  Paths below are
relative to the repository root.

## The system

| Part | Code | State | Operations | Hard about it |
|---|---|---|---|---|
| monitors table | `src/durable_continue/store.py` | one row per monitor: state, schedule, claim token and expiry, anchor, outcome | `register`, `cancel`, `recover_stale`, `claim_due_check`, `complete_check`, `claim_due_delivery`, `record_delivery_anchor`, `delivery_succeeded`, `delivery_retry`, `delivery_blocked` | concurrent callers, leases that expire under their holder, late writes with old tokens, a clock that may step back |
| LaunchAgent | `daemon.py`, `launchd/*.plist.in` | a loop: asleep, between checks, in a check | `run_once`, `_execute_claimed_check` | one check at a time; dies anywhere and is restarted; checks that outlive their lease |
| check execution | `checker.py` | the processes of a check and two pipes | `run_checker`, `decide` | processes that outlive the shell, ignore SIGTERM or leave the group; output cut off and decoded |
| state commands | `dispatcher_state.py`, `cli.py` | none of its own | `_dispatcher-claim`, `-observe`, `-fail` | several transactions and file scans each; outlive their caller |
| dispatcher | `mcp/dispatcher.mjs` | `dispatching`, the claim in hand, the child awaited | `dispatchOnce`, `runStateCommand` | asynchronous; every await may time out while the work goes on; one per Desktop window |
| native pipe client | `mcp/native_pipe_client.mjs` | socket, pending requests, cached tools | `sendContinue`, `request`, `connect`, `onData`, `onDisconnect` | late answers, answers cut anywhere, disconnects in the middle of a request, one event loop for it all |
| rollout evidence | `delivery_evidence.py` | rollout files (owned by Desktop) | `capture_rollout_anchor`, `validate_rollout_anchor`, `find_continue_after` | files archived, torn, truncated, appended to or superseded between two steps |
| migration | `store.py` (`init`, `_migrate_legacy_schema`) | the schema | open, migrate | concurrent openers |
| heartbeat | `dispatcher.mjs`, `plugin_runtime.py` | a file per dispatcher | `writeHeartbeat`, `active_dispatchers` | stale files, reused pids |
| command line, durations, scripts, plugin files | `cli.py`, `durations.py`, `scripts/`, ... | none | `register`, `cancel`, `status`, `list`, `doctor` | - |

How they interact: every process calls the table (a call is one `BEGIN IMMEDIATE`
transaction); the dispatcher spawns state commands and talks to Desktop over the native
pipe; Desktop appends to rollouts; state commands read them; checks look at the job.

What makes the parts correct:

* table: a claim belongs to one holder; one delivery is in flight; a wait is woken once and
  ends once; a finished row is final; a woken row is always scheduled;
* delivery: delivered only on evidence; no message is sent twice; an attempt and its claim
  always end; a blocked delivery is not sent; the budget holds;
* waiting: every wait ends at its deadline at the latest; no due check starves; the reason
  of a wake-up is true;
* a check ends within its limit, leaves no process behind and is decided on all it printed
  last;
* evidence: what is found is this task's exact continue after the anchor, nothing is read
  over, and the breaker opens for archived tasks only;
* the pipe: a request is written once and settled by its own answer or by a failure, always;
* migration: no wait is lost or finished by it, none is replayed, and the table is consistent
  afterwards.

The hazards, each at its line and with the properties aimed at it, are listed under
`hazards` in `PROJECT.json`.

## The modules

| Module | What it is |
|---|---|
| `Wait` | what a durable wait promises its task: registered, woken for one reason, then delivered to one turn or cancelled |
| `Store` | the table, one action per writing method; refines `Wait` |
| `Dispatch` | dispatchers, state commands, Desktop and rollouts over `Store` (`S == INSTANCE Store`) |
| `Daemon` | the LaunchAgent's loop, checks and jobs over `Store` |
| `Checker` | one run of a check: `run_checker` and `decide`, with the processes it starts |
| `Evidence` | the calls of `delivery_evidence.py` over rollout files that Desktop changes |
| `Send` | what the dispatcher expects of `sendContinue` |
| `NativePipe` | the native pipe client; refines `Send` |
| `Migration` | opening and migrating the database, then `Store` (`S == INSTANCE Store`) |
| `Heartbeat` | heartbeat files and how `doctor` judges them |
| `Policy` | `parse_duration` and `format_duration` as operators, floats included |
| `StoreProofs`, `DispatchProofs`, `DaemonProofs`, `CheckerProofs`, `EvidenceProofs`, `NativePipeProofs`, `MigrationProofs`, `HeartbeatProofs` | the theorems about the module of that name, and their proofs |
| `MCStore`, `MCDispatch`, ... | the instances TLC checks |

Definitions named `Mut...` are deliberately wrong variants of the definition that follows
them (a dropped guard, a missing reset, ...).  Nothing uses them; each is there so that one
can be put in place of the real one and a property seen to fail.

### Store

`row[m]` is the row of monitor `m`, with the columns that some operation reads or that
record an outcome.  Left out: `poll_count`, `last_*`, `updated_at`, `started_at`,
`delivery_backend`, `delivery_started_at`, `delivery_blocked_at` (set with
`delivery_blocked_reason`), the texts that only checks and messages carry, and the JSONL
logs.  `delivery_rollout_path` and `_offset` are one column, `delivery_rollout`: they are
only ever written together.  `issued` counts the claim tokens; `uuid4().hex` is a token
larger than all before.

The row transforms (`Cancelled`, `Recovered`, `Woken`, ...) are the `SET` clauses, the
guards (`HoldsClaim`, `DueChecks`, ...) the `WHERE` clauses; `ORDER BY ... LIMIT 1` is
`FirstDueChecks`, `FirstDueDeliveries`, with a free choice among ties.  A call that changes
no row is a stuttering step.  `Spec` lets anyone call anything: with every token ever issued
and any reading of the clock, forwards or backwards.  So what holds of `Spec` holds however
the callers behave, crash or race.

### Dispatch

A state command in a process slot runs through the program counters `recover`, `lease`,
`anchor`, `record`, `find` (`claim_dispatch`), `scan` (`observe_dispatch`), `succeed` and
`fail` (`record_dispatch_failure`), one step per transaction or scan.  `js[d]` says what
`dispatchOnce` of dispatcher `d` awaits: a child (`claim`, `before`, `after`, `fail`,
`catch`) or the native pipe (`send`: connecting and `tools/list`; `call`: `tools/call`
written).  When a timer fires first, the dispatcher goes on and the child becomes an orphan
that may still do all its work, or die (SIGTERM).  `calls` holds the messages Desktop was
handed and has neither shown nor dropped.  `rollout[t]` is the list of exact `continue`
messages in the rollout of task `t`, each with its author, which the code cannot see; an
anchor is a number of continues, and the turn that consumed the i-th is `i`.

Merged into one step: the `get` and the write of `record_dispatch_failure` (its write
repeats the token in the WHERE clause, so a row that changed in between is left alone); the
`get`, the validation and the scan of an observation (the row's anchor never changes while
the claim holds); the idle polls of an observation.  A round of `dispatchOnce` that finds
the dispatcher disabled or already dispatching changes nothing.  A command may fail at any
step with another exception than the expected one, also after its last commit, when the
JSONL log cannot be written (`CommandFails`, `Ends`); the dispatcher then takes its catch
branch.  An anchor that is unavailable or truncated is one more way to retry here
(`Unreadable`).  An anchor that is invalid (outside of the Codex home, not a rollout of the task) blocks the
delivery for good, like the archived target: README.md calls the target invalid, and the
disturbance is "invalid target".  So does a rollout that has grown beyond the scan limit
(`BeyondLimit`), the one error of `find_continue_after` that is not retryable; module
`Evidence` has the details.

### Daemon

`daemon.pc` is `sleep`, `claim` (between two checks of `run_once`) or `check`.  A check
prints at any moment what its job looks like then; the command may end at any time up to
`CheckTimeout`, with what it printed so far.  `Decision` is `decide`: a failure outranks a
success, and either outranks the deadline.  A crash puts the loop to sleep for launchd's
throttle.  Dispatchers poll beside it, and `recover_stale` is the first thing they do.
That a check ends within `CheckTimeout` is an assumption here; module `Checker` shows it for
checks whose processes end on SIGTERM and stay in their group, and `MCCheckBound.cfg` that it is
wrong for others.

### Checker

`proc` holds the shell and what it starts; each process may survive SIGTERM, lead a session
of its own or have let go of the two pipes, and hands the last two down to its children.
`py.pc` is where `run_checker` is: `communicate` with its time limit, `terminate` (SIGTERM,
one second, SIGKILL) or `drain` (the second `communicate`, without a limit).  What is
printed is a sequence of marks; a regex matches a mark or it does not, and none matches the
fixed texts of errors.  `Decide` is `decide` on the tails.

### Evidence

A rollout file is a sequence of pieces: records, or the head and later the tail of a torn
one.  A record carries what the code can tell of it: type, kind, exactness, thread, turn,
size.  `call` is one call at a time, one step per look at the file system: the two listings,
the stat, the validation, the open and every `readline`.  Between any two steps Desktop may
append, start another file, archive, restore or delete; it truncates between calls only.
`newer` is what `_mtime_ns` tells: which of two files was modified after the other.
The scan may read over a record that is torn when it is read (the tail does not parse), so
"the first continue after the anchor" in `Dispatch` is exact for records that are appended
whole, and `FinalAnswersTrue` says what holds in general.  All pieces have length one, except
that a record may be marked as longer than the line limit.

### Send and NativePipe

`client` is the `NativePipeClient`: socket, buffer, pending requests, next id, catalogue.
`caller` is the one `sendContinue` under way (`dispatching` allows one).  Frames are two
units, so chunks may end inside the length, between frames or nowhere near either; whatever
is out of step is garbage.  Request ids are any positive numbers, counted up as `nextId` is;
what Desktop writes bounds them.  JavaScript's run-to-completion is in the guards: `Quiet` says
that no callback runs and no promise is about to resume.  The event order relied on is that
of Node's sockets: `destroy(error)` emits its error before promises resume, and the close
event of a destroyed socket comes before the connect event of its successor.  `close()` runs
when the process exits and is not an action.  `Send` is the abstract side: an attempt is
written at most once, succeeds only if Desktop accepted it, and fails at any time;
`Dispatch` assumes no more of its sends.  `asked` maps to the number of `tools/call` frames
per attempt.

### Migration

`schema` is the state of the database on disk, `legacy` the rows an old release left behind,
`row` the migrated table.  `opener[o]` is how far process `o` is in `Store.init`: each look at
the schema is a step of its own, and the migration one step, since it is one transaction.  A
process that is through uses the table (`S!Next`).  `LegacyOutcome`, a part of the module's
assumption, is what an old release may have left in a row: it has sent for woken rows only, it
dates what it cancelled, and a turn is recorded with a delivery.  "UNKNOWN" stands for every
state `_migrated_record` has no name for; it cancels such a row.  Left out are rows that the
code takes all the same and makes rows of that no operation of the table makes: delivered
without a turn (`DELIVERED` stays, without one), an unknown state that was never woken
(cancelled and blocked without a wake reason), and owed without a wake reason, as are the rows of
`test_v4_delivery_records_migrate_without_replaying_ambiguous_receipt`, which are about states
and receipts only.  After a migration of such rows `MigratedConsistent` is false; no code or
document says that an old release wrote any.

### Heartbeat

A file per pid with what `writeHeartbeat` puts in it; a pid runs nothing, a dispatcher or
another program.  `Loaded` is what the file says and `doctor` calls loaded: initialized, with a
native pipe and a runtime.  It is not all that `dispatchOnce` asks: a dispatcher started with
`DURABLE_CONTINUE_DISABLE_DISPATCH=1` writes the same file, is listed and never dispatches
(`dispatcher.mjs:18`, `152`), so nothing here says that a listed dispatcher dispatches.
`loaded` (when a dispatcher with this pid last was) and `steady` are history, for the
properties only.  Timers are on time and the wall clock runs evenly.

### Policy

Operators only, checked over all arguments within bounds beside the table that stores what
they compute (`MCStore` extends both).  `retry_delay` is `Backoff` of module `Dispatch`.  A float
is a dyadic number of `Precision` bits, with rounding to nearest-even after each operation.

## The runs

All pass or fail as listed in `PROJECT.json`; `tlc -workers 2 -config X.cfg M`.

| Run | Asks | Bounds |
|---|---|---|
| `store` (`MCStore.cfg`) | is the table consistent whoever calls it; does it implement `Wait`; are durations what they say | 2 monitors, 4 claims, 2 clock readings: enough for a row to be claimed, recovered, claimed again and written by its former holder, beside another row; durations of up to three digits and two decimals in floats of 14 bits, enough to round a product below a whole second |
| `dispatch` (`MCDispatch.cfg`) | is a delivery always based on evidence, does the anchor cover every send | 1 monitor, 2 dispatchers, 2 process slots, 2 attempts, rollouts of up to 2 continues; every timeout 0 and time free, so every timer may fire at every moment; crash, failing commands, archive, an invalid target, cancel, user continues, recovery by the daemon |
| `dispatch_timely` (`MCDispatchTimely.cfg`) | do the default lease, timeouts and backoff keep attempts apart, is each retry as late as its backoff says | units of 15 s; 14 units, past the lease of 12; 2 attempts, 2 dispatchers that may crash |
| `dispatch_live` (`MCDispatchLive.cfg`) | does every attempt end, does every owed delivery end | 1 dispatcher that may die at any time, commands that may fail; 2 attempts and a third claim, a lease of 2 units, less than an attempt may take, and 6 units: enough for three claims to be left behind, recovered and taken again one after the other, or for the last to end |
| `daemon` (`MCDaemon.cfg`) | are deadlines met, are all due checks served, are reasons true | small numbers in the order of the defaults (a check shorter than its lease, a round with room for just the monitors there are); 2 monitors with waits of 3 units, a daemon that dies once at any moment, 6 claims, never used up; the clock runs past the last bound, 19 units |
| `checker` (`MCChecker.cfg`) | what is killed, what is read, what is decided | 3 processes with any traits: a shell, its child and a grandchild; 3 marks on two pipes, tails of 2; 3 units for a limit and a grace of 1 |
| `evidence` (`MCEvidence.cfg`) | is what is found evidence, is nothing overlooked | 2 files, 3 pieces together, a scan limit of 1 and a context window of 2, which may start inside a record: a capture, a continue before and after the anchor, a torn record, a limit passed |
| `migration` (`MCMigration.cfg`) | does a migration keep every wait, finish none and replay none | 2 processes, 2 monitors of every legacy kind, an unknown state among them, 2 claims |
| `native_pipe` (`MCNativePipe.cfg`) | is the client a `Send`, in step, with the right request pending; does every attempt come back | 2 attempts, 2 connections, 3 frames: an answer to an earlier attempt, on an earlier connection, and one cut off |
| `heartbeat` (`MCHeartbeat.cfg`) | whom does `doctor` list | 1 pid (files of different pids never meet), units of 5 s, 9 units: two lives and a file gone stale |
| `breaker_stops_send` (`MCBreaker.cfg`), `retry_budget` (`MCBudget.cfg`) | see below: what the code does not do | the constants of `dispatch_timely` |

Five more configurations are not in the list of runs but are kept beside it, each with the
module and, where it fails, the property named below: `MCTwoMonitors.cfg` (passes), `MCLongCheck.cfg`,
`MCCheckBound.cfg`, `MCUndecodable.cfg` and `MCMigrationRace.cfg` (each finds a violation).
`MCTwoMonitors.cfg` runs `MCDispatch` with two monitors in one task: each may adopt the other's
continue, but never one from before its own anchor (`DeliveredOnEvidence`, `AnchorCoversSends`).

`CHECK_DEADLOCK FALSE` everywhere: the clock, the claims and the processes are bounded, so
the models stop there; and with every monitor delivered the real system rests too.

What bounds what: `Token` the claims, `Time`/`MaxTime` the clock, `Proc` the state commands
alive at once, `MaxRollout` the continues, `MaxCrashes` the crashes, `MaxRegistration` the
time of registrations, `MaxPieces` the files, `MaxConnections` and `MaxFrames` what Desktop
does on the pipe, `MaxPrinted` the output of a check.  Symmetry is used for safety only (monitors,
dispatchers, slots, openers, processes; the runs with liveness have none).

The deepest properties:

* `AnchorCoversSends`: everything ever sent for a monitor lies after its anchor, through
  crashes, orphans and retries.  This is why adopting "the first continue after the anchor"
  finds a message whose answer was lost.
* `SendsAlone`, `NoDuplicateContinue`: they depend on numbers.  The awaits of one attempt
  (20 + 10 + 10 + 30 + 40 + 20 s) fit into the lease of 180 s, and the first backoff of 60 s
  is longer than the time an accepted message may take to show (`VisibleDelay`, an
  assumption about Desktop).  `Timely` is the assumption that no process is suspended
  beyond the time its caller grants it.  Without it (a laptop that sleeps) neither holds:
  the native send carries no fencing token.
* `HardTimeoutMet`, `DueChecksServed`: real-time bounds of a sequential daemon.  With
  `Delay(n)` a rest and n checks: a due check is served within `Delay` of the other
  monitors, and `Delay(1)` more for each crash; a deadline is met within `Delay` of all
  monitors, and for each crash the lease of the claim it left behind, a full round (the
  daemon reaps between two rounds only) and that delay again.
* `OneDelivering`, `ClaimsExclusive` and the rest of the table hold for callers of any
  behaviour, and `MigratedConsistent` says that migrated rows are where such a table may
  start from, whatever other processes did with it in between.
* `NothingOverlooked`, `FinalAnswersTrue`: the scan against a file that grows and moves while
  it is read; a continue that was whole when the scan began is never missed.
* `ImplementsSend`: late answers, reconnections and cut frames never make an attempt be
  written twice or succeed on another's answer.  `PendingIsAwaited`, a part of
  `Consistent`, is the reason.
* `NothingMissed`: a check that was not timed out is decided on everything every process
  that kept the pipes printed, not on what was there when the shell ended.
* `SteadyListed` holds for up to three missed heartbeats and not for four (20 s).
* `DeliveryEnds`: one DELIVERING row stops all deliveries, so the claim must always be given
  back; once dispatchers stay alive and commands succeed, every owed delivery is delivered or
  blocked, with whatever claims and orphans earlier crashes left, and through the claims taken
  again after a lease ran out.  `BeyondBounds` names the two states in which the model itself
  stops: a further claim would be needed, or a time after `MaxTime`.
* `RetriesSpaced`: however crashes, late answers and recoveries mix, a failure that was recorded
  is retried within the budget and after the backoff of `--retry-seconds` and
  `--max-retry-seconds`; an attempt that left no word is retried when its lease has run out, at
  once; nothing moves the date of a waiting retry.
* `VerdictOfTails`: with tails that cut output off, several processes and two streams, a check
  ends its wait in failure exactly if a failure is among the last of what was printed, earlier
  than a success or later, and in success exactly if a success is and no failure.
* `WaitsSurvive`: a migration, also the late one of an opener that saw the old schema, leaves a
  wait that was watched to be watched and one that was owed a delivery owed, with its deadline
  and wake reason.

Fairness (`Dispatch!Fairness`): weak fairness of each dispatcher's timer and of its loop
(Node's timers fire and settled promises resume), of each state command (a child runs), of
the daemon's recovery (KeepAlive restarts it, each round begins with `recover_stale`) and
of the clock.  None for Desktop: it may never answer, show or drop a message, except in
`dispatch_live`, where `Timely` includes that a message is shown or dropped by `VisibleDelay`.
None for crashes, users and orphans' deaths (an orphan that has answered exits).
`NativePipe!Fairness` is that of Node alone: timers fire, callbacks and promises run.  One assumption is in both: connecting to the pipe
settles (in `Dispatch`, within `ListTimeout`); the code sets no timeout on
`net.createConnection`.

### Disagreements found

* `breaker_stops_send`: the observation before a send may open the circuit breaker; its
  answer `{observed: false, stale: false, error}` (`cli.py:299`) makes `dispatchOnce` go on
  and send to the archived task.
* `retry_budget`: `recover_stale` returns an expired delivery to the queue without
  comparing its attempts to `--max-delivery-attempts`.

Shown by the configurations that are kept beside the runs:

* `MCLongCheck.cfg` (`MCDaemon`, `HardTimeoutMet`): with `--check-timeout` above the 150 s lease
  of `claim_due_check`, the running check is reaped by the next dispatcher poll and its result
  dropped, so the wait outlives its hard timeout.
* `MCCheckBound.cfg` (`MCChecker`, `CheckBounded`): after the time limit `run_checker` calls
  `communicate()` without one (`checker.py:90`) and waits for every process that holds the
  pipes; one that ignored SIGTERM or left the group may hold them for good, and the daemon has
  one thread.
* `MCUndecodable.cfg` (`MCChecker`, `SuccessWakes`): output is decoded strictly
  (`checker.py:80`); one bad byte makes the whole observation an execution error with empty
  tails, success or not.
* `MCMigrationRace.cfg` (`MCMigration`, `OpeningKeepsRows`): the columns are read before the
  migration's transaction begins (`store.py:233`), so a second opener migrates the migrated
  table again and takes claims from their holders.  `NoReplay`, `WaitsSurvive` and
  `MigratedConsistent` hold all the same.

## The proofs

Every theorem holds for all values of the constants that meet the assumption of its module
(`StoreAssumption`, `DispatchAssumption`, ...): naturals are naturals, NULL is none of the
values it stands beside, tokens are positive.  Where the code is right only for some numbers,
the theorem says so in its own hypothesis (`Punctual`, `Feasible`, `Calibrated`, below).  The
bounds of the runs (claims, clock, crashes, pieces, frames) are constants like the others, so
the theorems are not about small instances.

### Store

* `StoreInvariant`: `IInv`, the conjunction of `TypeOK`, `OneDelivering`,
  `ClaimsExclusive`, `DeliveryScheduled`, `OutcomeExclusive`, always holds.  None of the
  parts but the first is inductive alone: that a blocked row had been woken needs the wake
  reason of a delivering row, which needs that of a pending row; that tokens differ needs
  the bound on the tokens in use; one delivery in flight needs that a row never becomes
  DELIVERING but by the guarded claim.  The five properties follow (`RowsTyped`,
  `OneDeliveryInFlight`, `ClaimsNeverShared`, `OwedDeliveriesScheduled`,
  `OutcomesExclusive`).
* `TerminalRowsFrozen`: no step changes a finished row, because no guard holds there; this
  uses the token columns of the invariant.
* `DeliveryPhaseAdvances`: what `status` shows of a delivery never goes back.  It needs that
  a delivering row has no outcome and that an anchor is only on woken rows.
* `WaitsKept`: no step loses a registered wait, moves its deadline or changes its reason.
* `ClaimsRunOut`: what any write does to a claim.  No lease is extended and no claim is taken
  over from its holder; a new one has a token nobody held before; the attempts of a row are
  exactly the claims of its delivery.  This is what makes a lease a bound on how long a dead
  process can hold a row.
* `StoreImplementsWait`: `Spec => W!Spec`.

The argument: almost every call writes one row.  First each write is shown to keep a row
good by itself (`CancelledRow`, `WokenRow`, ...), then `OneRowWritten` shows once what a
write to one row must satisfy to keep `IInv`, and each action combines the two.
`RecoverStale`, which writes many rows, is treated apart.  The refinement has the same shape
(`RowMove`: the ways one row may move; `RowMoveRefines`).

### Dispatch

* `DispatchInvariant`: the table's invariant, types, and what is known of every process.
  Whether something may be sent or reported is decided in a child that may be alive, orphaned
  or finished and not yet read, so `GoodCommand` and `GoodLoop` say of each of these that
  whoever may still send or report works on a row whose anchor was recorded before.  The
  table's part of the argument is that a recorded anchor never moves.  From it follow
  `SuccessOnEvidence` and `AnchorsPrecedeSends`, whatever crashes, fails or is late.
* `DispatchCallsTable`: every step is a call of `Store` or leaves the table alone.  With it
  the table's theorems carry over: `TableStaysConsistent`, `FinishedRowsFrozen`,
  `ShownPhaseAdvances`, and `DispatchKeepsWaits` (every step is one of `Wait`).
* `RetriesAreSpaced`: `Spec => RetriesSpaced`.  A row that is being delivered comes up for another attempt in two ways
  only: its failure was recorded within the budget, and the next attempt waits for the backoff
  of this one; or its lease had run out, and the next attempt may start at once.  So the second
  way is all there is to the violation that run `retry_budget` shows: a retry of a recorded
  failure always stays within the budget.
* The protocol between `dispatchOnce` and its commands (`Protocol`): a command passes its own
  stages only and answers in words its caller knows, and the child a dispatcher awaits is of
  the kind it started at this point.  Hence `EveryAnswerRead`: no answer leaves the loop where it
  is.  `AttemptsAdvance` adds the measure of `StepsLeft`, eight for each thing the loop may
  still await and one for each stage of the command it awaits now: nobody adds to it, and every
  step of the attempt, or of its command, takes some away, at most 63 in all.
* Under `Punctual`, which is what "timely" means in numbers: alarms are met, a command, the
  grace of an observation, `tools/list` and the time an accepted message takes to show fit
  into the lease, and the last three into the first backoff.  With the defaults this is
  20 + 10 + 10 + v < 180 and 10 + 10 + v < 60: it holds when a message shows within 39 s.
  `TimelyInvariant` is a budget: whoever may still send for a monitor has until some time to do
  so, and until then nobody else can claim the row (`Safe`), because the claim has not expired,
  was given back with a longer backoff, or the delivery is over.  From it follow
  `PunctualOneProspect`, `PunctualSendsAlone` and `PunctualShowsOnce`.

### Daemon

* `DaemonInvariant`, and from it `WakesTruthful`: a decision comes from what the job showed
  during this check, and jobs end once.
* `DaemonImplementsStore` and `DaemonImplementsWait`: a run of the daemon is a run of the
  table, and so of module `Wait`.
* Under `Feasible` (a round has room for every monitor, with the code's limit for up to 100;
  a check ends within its lease, 60 s within 150 s by default; nobody waits for 0 s):
  `DaemonInBudget` keeps for every due check and every deadline the time at which the daemon
  is free next plus a check for each monitor that may still come before.  Nobody joins these
  while it waits, so the budget only shrinks, but for one rest and for what a crash costs: the
  claim left behind is counted from the crash on, and reaped between two rounds only.  From it
  follow `DueChecksComeFirst` and `HardTimeoutsMet`, for any number of monitors and crashes.

### Checker

`CheckerInvariant` has three facts beside the types: the shell never leaves its session, so
SIGKILL reaches it (`ShellKept`); nobody takes back a pipe that was let go of, so the output
is final once no process holds one (`Final`); and the clock stands at the time allowed when
SIGTERM is sent, so obedient processes leave nothing to wait for (`Alarms`, `Obeyed`).
`ObedientChecksEnd`, `NothingIsMissed` and `VerdictIsOfTails` follow.  The last rests on what
`TailText` says of `tail_text`: a mark is in the tail of a stream exactly if fewer than
`TailChars` marks follow it.

### Evidence

`EvidenceInvariant`: where a scan is (`Scanning`: no continue that was whole when the scan
began lies behind its position), that the second piece a read takes is the rest of a torn
record and no record of its own (`TornRight`), that the file Desktop writes to was modified
last (`Order`), and what a capture has listed and lived through (`Looking`).  From it follow
`NothingIsOverlooked`, `FinalAnswersAreTrue` and `AnchorsPart`, for any number of files,
pieces and records, any scan limit and any context window.

`CallsEnd`: a call returns within `ScanLimit + 5` steps of its own, although the file may grow
as fast as it is read, and may be moved and removed meanwhile.  What is left is counted from
where the call is and, in a scan, from what it may still read.

### NativePipe

`NativePipeInvariant`: the stream is read in step through every way of cutting it and every
reconnection (`Connection`), what a frame says was so when Desktop wrote it (`Truthful`), ids
are never used twice (`Numbered`), so that the request an answer names is the one that was
asked, and an attempt is written once and its caller knows (`CalledOnce`).  `PipeConsistent`
and `CataloguesCurrent` follow, and `PipeImplementsSend`: `Spec => Sends!Spec`.

`PipeAttemptsAdvance`: a caller passes at most five waits (the connection, `tools/list`, its
catalogue, the connection again, `tools/call`) and none twice, also when the connection breaks
and opens again in between; and `onData` reads less with each frame.

### Migration

`MigrationInvariant`: the table's invariant, how far an opener can be under each schema, and
what is promised of every legacy row.  The hard step is the late migration, of an opener that
looked at the schema before another one migrated it: it rewrites rows that are in use, so it
must keep what the table promises of any row (`TableMigrated`, beside `LegacyMigrated` for the
rows an old release left).  `NothingReplayed`, `MigratedTableConsistent` and `FinishedRowsKept`
follow, and `OldWaitsSurvive`, whose second half is a step of the migration taken from the
invariant.  What the proofs take of old
databases is `LegacyOutcome`.

### Heartbeat

`HeartbeatInvariant`: a file that says so was written by a dispatcher that was loaded then, no
earlier than it says; hence `ListedAreLoaded`.  `SteadyInvariant` bounds the age of a file
by the heartbeats missed; `SteadyIsListed` holds for `Calibrated` intervals: with a heartbeat
every 5 s and a limit of 20 s, up to three missed ones, and a doctor no slower than the skew
it allows.

### Only model-checked

* `AttemptEnds`, `DeliveryEnds`, `AttemptSettles`: liveness under fairness, which (like
  ENABLED) is beyond the prover.  The part of the first and the last that is not temporal is
  proved: `AttemptsAdvance` and `PipeAttemptsAdvance` bound the steps of an attempt whatever
  others do, so that what is left to fairness is that its next step is taken.  For
  `DeliveryEnds`, `RetriesAreSpaced` and `ClaimsRunOut` say how attempts follow each other.
* `DurationsKept`: the rounding of floats is a CHOOSE of the one exponent that fits, over a
  bounded set of durations; that there is one for every number is an induction.

## The plan

Done: the modules above, a theorem for every safety property of a passing run but the one
about rounding, and the measures the liveness of attempts rests on.  What is left:
`Dispatch` over `Evidence` as its refinement, for records that are appended whole.

Not modelled, and not planned: the MCP request table and the commands that only read (no
state), the installation scripts (file copies) and plugin
files, `dispatcher_supported` (installed files), the texts and paths of `util.py`, the
JSONL logs (nothing reads them back; that writing them may fail is `CommandFails`), and the
`OSError`s of reading a rollout (retried like any other failure, `Unreadable`).
