------------------------------- MODULE Daemon -------------------------------
(***************************************************************************)
(* Waiting: the LaunchAgent's loop (daemon.py) that claims due checks from *)
(* the monitors table (module Store), runs the check command of each, one  *)
(* at a time, and records what it decides (checker.py).  Dispatchers reap  *)
(* expired leases beside it, users cancel, launchd restarts it when it     *)
(* dies.                                                                   *)
(*                                                                         *)
(* Time is explicit: the clock does not run past an alarm of the daemon,   *)
(* the end of its sleep, of a check's time allowance, or of launchd's      *)
(* throttle.                                                               *)
(***************************************************************************)
EXTENDS Naturals, FiniteSets

CONSTANTS
    Monitor, Token, NULL,   \* as in Store
    Interval,               \* --interval values
    Timeout,                \* --timeout values
    CheckTimeout,           \* --check-timeout of every monitor
    CheckLease,             \* claim_seconds of claim_due_check
    TickSeconds,            \* --tick-seconds
    Throttle,               \* launchd's ThrottleInterval
    MaxChecks,              \* max_checks of run_once
    Outcome,                \* how jobs may end
    MaxCrashes,             \* bounds the crashes of the daemon
    MaxRegistration,        \* bounds the time of registrations
    MaxTime                 \* bounds the clock

VARIABLES
    row, issued,            \* the monitors table, module Store
    now,                    \* the clock
    job,                    \* what each monitor waits for
    daemon,                 \* where the loop is
    crashes                 \* how often it has died

vars == <<row, issued, now, job, daemon, crashes>>
storeVars == <<row, issued>>

S == INSTANCE Store WITH
        Time <- 0..MaxTime, DeliveryLease <- 0, RetryDelay <- {}, Anchor <- {}, Turn <- {},
        BlockReason <- {}

ASSUME DaemonAssumption ==
    /\ {CheckTimeout, CheckLease, TickSeconds, Throttle, MaxChecks, MaxCrashes, MaxRegistration,
        MaxTime} \subseteq Nat
    /\ Interval \subseteq Nat /\ Timeout \subseteq Nat /\ Token \subseteq Nat \ {0}
    /\ Outcome \subseteq {"success", "failure"}
    /\ NULL \notin Nat \cup Monitor \cup {"success", "failure", "timeout"}

\* What a job prints, as the two regexes tell it apart.
Output == {"running", "success", "failure"}

\* run_forever: asleep until `until`, between two checks, or in a check that is
\* killed at `until`; seen is what the check command has printed so far.
Loop == [pc      : {"sleep", "claim", "check"},
         until   : Nat,
         checked : 0..MaxChecks,
         m       : Monitor \cup {NULL},
         tok     : Token \cup {NULL},
         seen    : Output]

Asleep(seconds) ==
    [pc |-> "sleep", until |-> now + seconds, checked |-> 0, m |-> NULL, tok |-> NULL,
     seen |-> "running"]

TypeOK ==
    /\ S!TypeOK
    /\ now \in 0..MaxTime
    /\ job \in [Monitor -> Output]
    /\ daemon \in Loop
    /\ crashes \in 0..MaxCrashes
    /\ daemon.pc = "check" <=> daemon.m # NULL

-----------------------------------------------------------------------------
(* run_once. *)

\* recover_stale opens every round.
BeginRound ==
    /\ daemon.pc = "sleep"
    /\ daemon.until <= now
    /\ S!RecoverStale(now)
    /\ daemon' = [daemon EXCEPT !.pc = "claim", !.until = now]
    /\ UNCHANGED <<now, job, crashes>>

StartCheck ==
    /\ daemon.pc = "claim"
    /\ daemon.checked < MaxChecks
    /\ \E m \in Monitor, tok \in Token :
         /\ S!ClaimDueCheck(m, tok, now)
         /\ daemon' = [daemon EXCEPT !.pc = "check", !.until = now + CheckTimeout,
                                     !.checked = @ + 1, !.m = m, !.tok = tok]
    /\ UNCHANGED <<now, job, crashes>>

\* Mutant: one check per tick.
MutEndRoundAfterOne ==
    /\ daemon.pc = "claim"
    /\ daemon.checked = 1 \/ S!DueChecks(now) = {}
    /\ daemon' = Asleep(TickSeconds)
    /\ UNCHANGED <<storeVars, now, job, crashes>>

EndRound ==
    /\ daemon.pc = "claim"
    /\ daemon.checked = MaxChecks \/ S!DueChecks(now) = {}
    /\ daemon' = Asleep(TickSeconds)
    /\ UNCHANGED <<storeVars, now, job, crashes>>

\* The command looks at the job and prints what it finds.
CheckPrints ==
    /\ daemon.pc = "check"
    /\ daemon' = [daemon EXCEPT !.seen = job[daemon.m]]
    /\ UNCHANGED <<storeVars, now, job, crashes>>

\* Mutant: output that matches nothing is a decision too.
MutDecisionRunning(seen, deadlineDue) == IF deadlineDue THEN "timeout" ELSE seen

\* Mutant: the end of a check's allowance is taken for the end of the wait.
MutDecisionCheckTimeout(seen, deadlineDue) ==
    IF seen # "running" THEN seen ELSE "timeout"

\* decide: a failure outranks a success, and both outrank the deadline.
Decision(seen, deadlineDue) ==
    IF seen # "running" THEN seen ELSE IF deadlineDue THEN "timeout" ELSE NULL

\* The command exits, fails, or is killed when its time is up; a result whose
\* claim was reaped in the meantime is dropped.
FinishCheck ==
    LET m == daemon.m
        decision == Decision(daemon.seen, now >= row[m].deadline_at)
    IN
    /\ daemon.pc = "check"
    /\ IF S!HoldsClaim(m, daemon.tok, "CHECKING")
       THEN S!CompleteCheck(m, daemon.tok, decision, now)
       ELSE UNCHANGED storeVars
    /\ daemon' = [daemon EXCEPT !.pc = "claim", !.until = now, !.m = NULL, !.tok = NULL,
                                !.seen = "running"]
    /\ UNCHANGED <<now, job, crashes>>

\* launchd starts it again after the throttle interval.
Crash ==
    /\ crashes < MaxCrashes
    /\ crashes' = crashes + 1
    /\ daemon' = Asleep(Throttle)
    /\ UNCHANGED <<storeVars, now, job>>

-----------------------------------------------------------------------------
(* Everybody else. *)

Register(m) ==
    /\ now <= MaxRegistration
    /\ \E i \in Interval, t \in Timeout : S!Register(m, i, t, now)
    /\ UNCHANGED <<now, job, daemon, crashes>>

UserCancels(m) ==
    /\ S!Cancel(m, now)
    /\ UNCHANGED <<now, job, daemon, crashes>>

\* claim_dispatch of any dispatcher
DispatcherRecovers ==
    /\ S!RecoverStale(now)
    /\ UNCHANGED <<now, job, daemon, crashes>>

JobEnds(m) ==
    /\ job[m] = "running"
    /\ \E outcome \in Outcome : job' = [job EXCEPT ![m] = outcome]
    /\ UNCHANGED <<storeVars, now, daemon, crashes>>

\* Between two checks the daemon does not wait.
Tick ==
    /\ now < MaxTime
    /\ now < daemon.until
    /\ now' = now + 1
    /\ UNCHANGED <<storeVars, job, daemon, crashes>>

-----------------------------------------------------------------------------

Init ==
    /\ S!Init
    /\ now = 0
    /\ job = [m \in Monitor |-> "running"]
    /\ daemon = Asleep(0)
    /\ crashes = 0

Next ==
    \/ BeginRound \/ StartCheck \/ EndRound \/ CheckPrints \/ FinishCheck \/ Crash
    \/ \E m \in Monitor : Register(m) \/ UserCancels(m) \/ JobEnds(m)
    \/ DispatcherRecovers
    \/ Tick

Spec == Init /\ [][Next]_vars

-----------------------------------------------------------------------------

Waiting(m) == row[m].state \in {"WAITING", "CHECKING"}

\* The longest the daemon rests, and n checks after it.
Rest == IF TickSeconds >= Throttle THEN TickSeconds ELSE Throttle
Delay(n) == Rest + n * CheckTimeout

\* No due check is passed over: it begins before any other monitor is checked
\* twice, however often the others become due meanwhile.  A crash costs a rest and the
\* check it interrupts, which may come first again.
DueChecksServed ==
    \A m \in Monitor :
        row[m].state = "WAITING" =>
            now <= row[m].next_check_at + Delay(Cardinality(Monitor) - 1) + crashes * Delay(1)

\* README: a wait ends when its job "reaches its hard timeout".  However long
\* checks take and whatever dies, no monitor waits on past its deadline for
\* longer than the daemon may need to check every monitor once.  The claim a crash leaves
\* behind costs its lease, a round (the daemon reaps between two rounds only) and that time
\* again.
HardTimeoutMet ==
    LET AllChecks == Delay(Cardinality(Monitor)) IN
    \A m \in Monitor :
        Waiting(m) =>
            now <= row[m].deadline_at + AllChecks
                     + crashes * (CheckLease + Delay(MaxChecks) + AllChecks)

\* A monitor is woken for a reason that is true: the job did end that way, or
\* the deadline had passed when the check was decided (next_check_at then keeps
\* the time of the decision), however late the result was recorded.
WakeTruthful ==
    \A m \in Monitor :
        /\ row[m].wake_reason \in {"success", "failure"} => job[m] = row[m].wake_reason
        /\ row[m].wake_reason = "timeout" => row[m].next_check_at >= row[m].deadline_at
=============================================================================
