---------------------------- MODULE DaemonProofs -----------------------------
(***************************************************************************)
(* Proofs about module Daemon, for any number of monitors and crashes and  *)
(* any intervals, timeouts, leases and ticks.                              *)
(*                                                                         *)
(* That a wake-up is truthful rests on jobs ending once.  The two time     *)
(* bounds rest on a budget kept for every due check m: the time at which   *)
(* the daemon is free next, and a check for each monitor that may still    *)
(* come Before m.  Nobody joins these while m waits: who is rearmed comes  *)
(* after m, and a claim left behind by a crash is counted from the crash   *)
(* on.  So the budget only shrinks, but for a rest at the end of a full    *)
(* round, which can come once, and what a crash costs.                     *)
(***************************************************************************)
EXTENDS Daemon, FiniteSetTheorems, TLAPS

\* The proofs about the table; the parameters are those of S.
T == INSTANCE StoreProofs WITH
        Time <- 0..MaxTime, DeliveryLease <- 0, RetryDelay <- {}, Anchor <- {}, Turn <- {},
        BlockReason <- {}

-----------------------------------------------------------------------------
(* The first inductive invariant: types, and where a decision comes from. *)

SeenTrue ==
    /\ daemon.pc # "check" => daemon.seen = "running"
    /\ daemon.pc = "check" /\ daemon.seen # "running" => daemon.seen = job[daemon.m]

IInv ==
    /\ T!IInv
    /\ now \in 0..MaxTime
    /\ job \in [Monitor -> Output]
    /\ daemon \in Loop
    /\ crashes \in 0..MaxCrashes
    /\ daemon.pc = "check" <=> daemon.m # NULL
    /\ SeenTrue
    /\ WakeTruthful

-----------------------------------------------------------------------------
(* The second: the budget.  Tables r, loops d, times t and numbers k of    *)
(* crashes are arguments, so that it can be stated of both ends of a step. *)

\* The numbers a daemon is run with: a round has room for every monitor, a check ends within
\* its lease, and waiting takes time.
Feasible ==
    /\ IsFiniteSet(Monitor) /\ Cardinality(Monitor) <= MaxChecks
    /\ CheckTimeout < CheckLease
    /\ 0 \notin Interval \cup Timeout

Key(q) == S!Lesser(q.next_check_at, q.deadline_at)

\* Who may be checked before m: a claim a crash left behind may return to any place.
Before(m, r, d) ==
    {n \in Monitor \ {m} : \/ r[n].state = "CHECKING" /\ d.m # n
                           \/ r[n].state = "WAITING" /\ Key(r[n]) <= Key(r[m])}

Free(d, t) == IF d.until > t THEN d.until ELSE t

\* Started at f, n checks end by b.
Fits(f, n, b) == f + n * CheckTimeout <= b

\* The check of m begins by b: the daemon rests at most once more, and only when the round
\* is full before m is reached.
InTime(m, r, d, t, b) ==
    LET c == Cardinality(Before(m, r, d)) IN
    /\ Fits(Free(d, t), c, b)
    /\ d.pc # "sleep" => d.checked + c < MaxChecks \/ Fits(Free(d, t) + Rest, c, b)

AllButOne == Delay(Cardinality(Monitor) - 1)
PerCrash == CheckLease + Delay(MaxChecks) + Delay(Cardinality(Monitor))

\* Limits on the end of a lost claim, and on the start of the check of a row: from its deadline,
\* and from when it is due.
Reaped(q, k) == q.deadline_at + k * PerCrash
ByDeadline(q, k) == Reaped(q, k) + AllButOne
ByDue(q, k) == q.next_check_at + AllButOne + k * Delay(1)

\* A daemon rests for Rest and checks for CheckTimeout, within the lease.
LoopInTime(r, d, t) ==
    /\ d.pc = "sleep" => d.checked = 0 /\ d.until <= t + Rest
    /\ d.pc = "claim" => d.until = t
    /\ d.pc = "check" =>
         /\ t <= d.until /\ d.until <= t + CheckTimeout
         /\ r[d.m].state \in {"CHECKING", "CANCELLED"}
         /\ r[d.m].state = "CHECKING" =>
              /\ r[d.m].claim_token = d.tok
              /\ r[d.m].claim_expires_at = d.until - CheckTimeout + CheckLease

Waits(q) == q.state \in {"WAITING", "CHECKING"}

\* A wait is due, under way, or held by a claim that is reaped at the end of a round.
WaitInTime(m, r, d, t, k) ==
    /\ Waits(r[m]) => r[m].interval_seconds > 0
    /\ r[m].state = "WAITING" /\ Key(r[m]) <= t =>
         InTime(m, r, d, t, ByDue(r[m], k)) /\ InTime(m, r, d, t, ByDeadline(r[m], k))
    /\ r[m].state = "CHECKING" /\ d.m = m => d.until <= ByDeadline(r[m], k) + CheckTimeout
    /\ r[m].state = "CHECKING" /\ d.m # m =>
         /\ Fits(r[m].claim_expires_at + Rest, MaxChecks, Reaped(r[m], k))
         /\ Free(d, t) <= Reaped(r[m], k)
         /\ d.pc # "sleep" => Fits(Free(d, t) + Rest, MaxChecks - d.checked, Reaped(r[m], k))

Budget ==
    /\ LoopInTime(row, daemon, now)
    /\ \A m \in Monitor : WaitInTime(m, row, daemon, now, crashes)

-----------------------------------------------------------------------------
(* Constants and helpers. *)

\* The parameters of the table meet its assumption.
LEMMA TableAssumption == T!StoreAssumption
<1>1. MaxTime \in Nat /\ CheckLease \in Nat
  BY DaemonAssumption DEF DaemonAssumption
<1>2. QED
  BY <1>1, DaemonAssumption DEF DaemonAssumption, T!StoreAssumption, T!WakeReason

LEMMA ConstantsTyped ==
    /\ CheckTimeout \in Nat /\ CheckLease \in Nat /\ TickSeconds \in Nat /\ Throttle \in Nat
    /\ MaxChecks \in Nat /\ MaxCrashes \in Nat /\ MaxTime \in Nat
    /\ Rest \in Nat /\ TickSeconds <= Rest /\ Throttle <= Rest
    /\ NULL \notin Nat /\ NULL \notin Monitor /\ NULL \notin Token
    /\ NULL \notin {"success", "failure", "timeout"}
    /\ Outcome \subseteq {"success", "failure"}
<1>1. /\ CheckTimeout \in Nat /\ CheckLease \in Nat /\ TickSeconds \in Nat /\ Throttle \in Nat
      /\ MaxChecks \in Nat /\ MaxCrashes \in Nat /\ MaxTime \in Nat
  BY DaemonAssumption DEF DaemonAssumption
<1>2. Rest \in Nat /\ TickSeconds <= Rest /\ Throttle <= Rest
  BY <1>1 DEF Rest
<1>3. QED
  BY <1>1, <1>2, DaemonAssumption DEF DaemonAssumption

LEMMA Typed ==
    ASSUME IInv
    PROVE  /\ row \in [Monitor -> T!Row]
           /\ now \in Nat
           /\ job \in [Monitor -> Output]
           /\ daemon \in Loop
           /\ daemon.pc = "check" => daemon.m \in Monitor
BY ConstantsTyped DEF IInv, T!IInv, T!TypeOK, Loop

\* Sleeping is a state of the loop.
LEMMA AsleepLoop == ASSUME NEW n \in Nat, now \in Nat PROVE Asleep(n) \in Loop
BY ConstantsTyped DEF Asleep, Loop, Output

-----------------------------------------------------------------------------
(* The first invariant is kept, and the table is changed by its calls only. *)

\* WakeTruthful, of one row and the job behind it.
Truthful(r, j) ==
    /\ r.wake_reason \in {"success", "failure"} => j = r.wake_reason
    /\ r.wake_reason = "timeout" => r.next_check_at >= r.deadline_at

Sound == [T!Next]_(T!vars) /\ IInv'

\* A call of the table by anybody, while the daemon stays where it is.
LEMMA CallSound ==
    ASSUME IInv, [T!Next]_(T!vars), UNCHANGED <<now, job, daemon, crashes>>,
           \A m \in Monitor : Truthful(row'[m], job[m])
    PROVE  Sound
BY TableAssumption, T!InvNext DEF IInv, Sound, SeenTrue, WakeTruthful, Truthful

\* A step of the daemon with or without a call of the table, between two prints.
LEMMA LoopSound ==
    ASSUME IInv, [T!Next]_(T!vars), UNCHANGED <<now, job>>, crashes' \in 0..MaxCrashes,
           daemon' \in Loop, daemon'.seen = "running", daemon'.pc = "check" <=> daemon'.m # NULL,
           \A m \in Monitor : Truthful(row'[m], job[m])
    PROVE  Sound
BY TableAssumption, T!InvNext DEF IInv, Sound, SeenTrue, WakeTruthful, Truthful

\* An unwoken row says nothing.
LEMMA Unwoken ==
    ASSUME NEW r, NEW j, r.wake_reason = NULL
    PROVE  Truthful(r, j)
BY ConstantsTyped DEF Truthful

LEMMA RowsTruthful == ASSUME IInv PROVE \A m \in Monitor : Truthful(row[m], job[m])
BY DEF IInv, WakeTruthful, Truthful

\* recover_stale
LEMMA RecoverCall ==
    ASSUME IInv, S!RecoverStale(now)
    PROVE  [T!Next]_(T!vars) /\ \A m \in Monitor : Truthful(row'[m], job[m])
<1>1. T!Step(now)
  BY DEF S!RecoverStale, T!Step, T!RecoverStale, S!Recovered, T!Recovered, S!Released, T!Released,
         S!Expired, T!Expired
<1>2. [T!Next]_(T!vars)
  BY <1>1 DEF T!Next, IInv
<1>3. ASSUME NEW m \in Monitor PROVE Truthful(row'[m], job[m])
  <2>1. row'[m] = S!Recovered(row[m], now) /\ row[m] \in T!Row /\ Truthful(row[m], job[m])
    BY Typed, RowsTruthful DEF S!RecoverStale
  <2>2. CASE row[m].state = "CHECKING"
    <3>1. row[m].wake_reason = NULL
      BY <2>2 DEF IInv, T!IInv, T!DeliveryScheduled, T!DeliveryColumns
    <3>2. row'[m].wake_reason = NULL
      BY <2>1, <2>2, <3>1 DEF S!Recovered, S!Released, T!Row
    <3>3. QED
      BY <3>2, Unwoken
  <2>3. CASE row[m].state # "CHECKING"
    BY <2>1, <2>3 DEF S!Recovered, S!Released, T!Row, Truthful
  <2>4. QED
    BY <2>2, <2>3
<1>4. QED
  BY <1>2, <1>3

\* What a call writes to one row.
LEMMA OneRowCall ==
    ASSUME IInv, NEW m \in Monitor, NEW q, row' = [row EXCEPT ![m] = q], Truthful(q, job[m])
    PROVE  \A n \in Monitor : Truthful(row'[n], job[n])
BY Typed, RowsTruthful

\* register
LEMMA RegisterSound ==
    ASSUME IInv, NEW m \in Monitor, Register(m)
    PROVE  Sound
<1>1. PICK i \in Interval, t \in Timeout : S!Register(m, i, t, now)
  BY DEF Register
<1>2. T!Register(m, i, t, now)
  BY <1>1 DEF S!Register, T!Register, S!Registered, T!Registered, S!NoRow, T!NoRow, S!Lesser,
         T!Lesser
<1>3. [T!Next]_(T!vars)
  BY <1>2 DEF T!Next, T!Step, IInv
<1> DEFINE q == S!Registered(i, t, now)
<1>4. row' = [row EXCEPT ![m] = q]
  BY <1>1 DEF S!Register
<1>5. q.wake_reason = NULL
  BY DEF S!Registered, S!NoRow
<1> HIDE DEF q
<1>6. QED
  BY <1>3, <1>4, <1>5, Unwoken, OneRowCall, CallSound DEF Register

\* cancel
LEMMA CancelSound ==
    ASSUME IInv, NEW m \in Monitor, UserCancels(m)
    PROVE  Sound
<1>1. T!Cancel(m, now)
  BY DEF UserCancels, S!Cancel, T!Cancel, S!Cancelled, T!Cancelled, S!Released, T!Released,
         S!ActiveStates, T!ActiveStates
<1>2. [T!Next]_(T!vars)
  BY <1>1 DEF T!Next, T!Step, IInv
<1> DEFINE q == S!Cancelled(row[m], now)
<1>3. row' = [row EXCEPT ![m] = q]
  BY DEF UserCancels, S!Cancel
<1>4. Truthful(q, job[m])
  BY Typed, RowsTruthful DEF S!Cancelled, S!Released, T!Row, Truthful
<1> HIDE DEF q
<1>5. QED
  BY <1>2, <1>3, <1>4, OneRowCall, CallSound DEF UserCancels

\* claim_due_check
LEMMA ClaimSound == ASSUME IInv, StartCheck PROVE Sound
<1>1. PICK m \in Monitor, tok \in Token :
         /\ S!ClaimDueCheck(m, tok, now)
         /\ daemon' = [daemon EXCEPT !.pc = "check", !.until = now + CheckTimeout,
                                     !.checked = @ + 1, !.m = m, !.tok = tok]
  BY DEF StartCheck
<1>2. T!ClaimDueCheck(m, tok, now)
  BY <1>1 DEF S!ClaimDueCheck, T!ClaimDueCheck, S!FirstDueChecks, T!FirstDueChecks, S!DueChecks,
         T!DueChecks, S!CheckBefore, T!CheckBefore, S!Lesser, T!Lesser, S!FreshToken, T!FreshToken,
         S!Claimed, T!Claimed
<1>3. [T!Next]_(T!vars)
  BY <1>2 DEF T!Next, T!Step, IInv
<1> DEFINE q == S!Claimed(row[m], "CHECKING", tok, now + CheckLease)
<1>4. row' = [row EXCEPT ![m] = q]
  BY <1>1 DEF S!ClaimDueCheck
<1>5. Truthful(q, job[m])
  BY Typed, RowsTruthful DEF S!Claimed, T!Row, Truthful
<1> HIDE DEF q
<1>6. \A n \in Monitor : Truthful(row'[n], job[n])
  BY <1>4, <1>5, OneRowCall
<1>7. daemon.pc = "claim" /\ daemon.checked < MaxChecks /\ daemon.seen = "running"
  BY DEF StartCheck, IInv, SeenTrue
<1>8. now + CheckTimeout \in Nat /\ daemon.checked + 1 \in 0..MaxChecks
  BY <1>7, Typed, ConstantsTyped DEF Loop
<1>9. /\ daemon' \in Loop
      /\ daemon'.pc = "check" /\ daemon'.m = m /\ daemon'.seen = "running"
  BY <1>1, <1>7, <1>8, Typed DEF Loop
<1>10. m # NULL
  BY ConstantsTyped
<1>11. UNCHANGED <<now, job, crashes>> /\ crashes' \in 0..MaxCrashes
  BY DEF StartCheck, IInv
<1>12. QED
  BY <1>3, <1>6, <1>9, <1>10, <1>11, LoopSound

\* The decision, and what it rests on.
LEMMA DecisionTrue ==
    ASSUME IInv, daemon.pc = "check", NEW due
    PROVE  LET decision == Decision(daemon.seen, due) IN
           /\ decision \in T!Null(T!WakeReason)
           /\ decision \in {"success", "failure"} => job[daemon.m] = decision
           /\ decision = "timeout" => due
<1>1. daemon.seen \in Output /\ daemon.m \in Monitor
  BY Typed DEF Loop
<1>2. QED
  BY <1>1, ConstantsTyped DEF Decision, Output, IInv, SeenTrue, T!Null, T!WakeReason

\* complete_check, or a result that came too late
LEMMA FinishSound == ASSUME IInv, FinishCheck PROVE Sound
<1> DEFINE m == daemon.m
           due == now >= row[m].deadline_at
           decision == Decision(daemon.seen, due)
<1>1. daemon.pc = "check" /\ m \in Monitor /\ row[m] \in T!Row
  BY Typed DEF FinishCheck
<1>2. /\ decision \in T!Null(T!WakeReason)
      /\ decision \in {"success", "failure"} => job[m] = decision
      /\ decision = "timeout" => due
  BY <1>1, DecisionTrue
<1> HIDE DEF decision
<1>3. ASSUME S!HoldsClaim(m, daemon.tok, "CHECKING")
      PROVE  [T!Next]_(T!vars) /\ \A n \in Monitor : Truthful(row'[n], job[n])
  <2> DEFINE q == IF decision = NULL THEN S!Rearmed(row[m], now) ELSE S!Woken(row[m], decision, now)
  <2>1. S!CompleteCheck(m, daemon.tok, decision, now)
    BY <1>3 DEF FinishCheck, decision
  <2>2. daemon.tok \in Token
    <3>1. row[m].claim_token # NULL
      BY <1>1, <1>3
         DEF S!HoldsClaim, IInv, T!IInv, T!ClaimsExclusive, T!ClaimColumns, T!ClaimedStates
    <3>2. QED
      BY <1>3, <3>1, Typed DEF S!HoldsClaim, Loop
  <2>3. T!CompleteCheck(m, daemon.tok, decision, now)
    BY <2>1 DEF S!CompleteCheck, T!CompleteCheck, S!HoldsClaim, T!HoldsClaim, S!Rearmed, T!Rearmed,
           S!Woken, T!Woken, S!Released, T!Released, S!Lesser, T!Lesser
  <2>4. [T!Next]_(T!vars)
    BY <1>1, <1>2, <2>2, <2>3 DEF T!Next, T!Step, T!ClaimHolder, IInv
  <2>5. row' = [row EXCEPT ![m] = q]
    BY <2>1 DEF S!CompleteCheck
  <2>6. Truthful(q, job[m])
    <3>1. row[m].wake_reason = NULL
      BY <1>1, <1>3 DEF S!HoldsClaim, IInv, T!IInv, T!DeliveryScheduled, T!DeliveryColumns
    <3>2. CASE decision = NULL
      <4>1. q.wake_reason = NULL
        BY <1>1, <3>1, <3>2 DEF S!Rearmed, S!Released, T!Row
      <4>2. QED
        BY <4>1, Unwoken
    <3>3. CASE decision # NULL
      <4>1. /\ q.wake_reason = decision
            /\ q.next_check_at = now
            /\ q.deadline_at = row[m].deadline_at
        BY <1>1, <3>3 DEF S!Woken, S!Released, T!Row
      <4>2. QED
        BY <1>2, <4>1 DEF Truthful
    <3>4. QED
      BY <3>2, <3>3
  <2> HIDE DEF q
  <2>7. QED
    BY <1>1, <2>4, <2>5, <2>6, OneRowCall
<1>4. ASSUME ~ S!HoldsClaim(m, daemon.tok, "CHECKING")
      PROVE  [T!Next]_(T!vars) /\ \A n \in Monitor : Truthful(row'[n], job[n])
  BY <1>4, RowsTruthful DEF FinishCheck, storeVars, T!vars
<1>5. /\ daemon' \in Loop
      /\ daemon'.pc = "claim" /\ daemon'.m = NULL /\ daemon'.seen = "running"
  BY Typed DEF FinishCheck, Loop, Output
<1>6. UNCHANGED <<now, job, crashes>> /\ crashes' \in 0..MaxCrashes
  BY DEF FinishCheck, IInv
<1>7. [T!Next]_(T!vars) /\ \A n \in Monitor : Truthful(row'[n], job[n])
  BY <1>3, <1>4
<1>8. QED
  BY <1>5, <1>6, <1>7, LoopSound

\* The daemon rests: a round ends, or it dies and is started again.
LEMMA AsleepSound ==
    ASSUME IInv, NEW n \in Nat, daemon' = Asleep(n), crashes' \in 0..MaxCrashes,
           UNCHANGED <<storeVars, now, job>>
    PROVE  Sound
<1>1. daemon' \in Loop
  BY AsleepLoop, Typed
<1>2. daemon'.pc = "sleep" /\ daemon'.m = NULL /\ daemon'.seen = "running"
  BY DEF Asleep
<1>3. [T!Next]_(T!vars) /\ \A m \in Monitor : Truthful(row'[m], job[m])
  BY RowsTruthful DEF storeVars, T!vars
<1>4. QED
  BY <1>1, <1>2, <1>3, LoopSound

\* recover_stale opens a round.
LEMMA BeginSound == ASSUME IInv, BeginRound PROVE Sound
<1>1. daemon' = [daemon EXCEPT !.pc = "claim", !.until = now] /\ daemon.pc = "sleep"
  BY DEF BeginRound
<1>2. daemon' \in Loop
  BY <1>1, Typed DEF Loop
<1>3. daemon'.pc = "claim" /\ daemon'.m = NULL /\ daemon'.seen = "running"
  BY <1>1, Typed DEF Loop, IInv, SeenTrue
<1>4. UNCHANGED <<now, job, crashes>> /\ crashes' \in 0..MaxCrashes /\ S!RecoverStale(now)
  BY DEF BeginRound, IInv
<1>5. QED
  BY <1>2, <1>3, <1>4, RecoverCall, LoopSound

\* The output of the check command is read.
LEMMA PrintsSound == ASSUME IInv, CheckPrints PROVE Sound
<1>1. daemon' = [daemon EXCEPT !.seen = job[daemon.m]] /\ daemon.pc = "check"
  BY DEF CheckPrints
<1>2. daemon.m \in Monitor /\ job[daemon.m] \in Output
  BY <1>1, Typed
<1>3. /\ daemon' \in Loop
      /\ daemon'.pc = daemon.pc /\ daemon'.m = daemon.m /\ daemon'.seen = job[daemon.m]
  BY <1>1, <1>2, Typed DEF Loop
<1>4. UNCHANGED <<storeVars, now, job, crashes>>
  BY DEF CheckPrints
<1>5. [T!Next]_(T!vars)
  BY <1>4 DEF storeVars, T!vars
<1>6. T!IInv'
  BY <1>5, TableAssumption, T!InvNext DEF IInv
<1>7. QED
  BY <1>1, <1>3, <1>4, <1>5, <1>6 DEF Sound, IInv, SeenTrue, WakeTruthful, storeVars

\* A job ends once.
LEMMA JobSound == ASSUME IInv, NEW m \in Monitor, JobEnds(m) PROVE Sound
<1>1. PICK outcome \in Outcome : job' = [job EXCEPT ![m] = outcome]
  BY DEF JobEnds
<1>2. job[m] = "running" /\ UNCHANGED <<storeVars, now, daemon, crashes>>
  BY DEF JobEnds
<1>3. outcome \in {"success", "failure"}
  BY ConstantsTyped
<1>4. job' \in [Monitor -> Output] /\ \A n \in Monitor : job[n] # "running" => job'[n] = job[n]
  BY <1>1, <1>2, <1>3, Typed DEF Output
<1>5. [T!Next]_(T!vars)
  BY <1>2 DEF storeVars, T!vars
<1>6. T!IInv'
  BY <1>5, TableAssumption, T!InvNext DEF IInv
<1>7. SeenTrue'
  BY <1>2, <1>4, Typed DEF IInv, SeenTrue
<1>8. WakeTruthful'
  BY <1>2, <1>4 DEF IInv, WakeTruthful, storeVars
<1>9. QED
  BY <1>2, <1>4, <1>5, <1>6, <1>7, <1>8 DEF Sound, IInv

\* Time passes.
LEMMA TickSound == ASSUME IInv, Tick PROVE Sound
<1>1. now' \in 0..MaxTime
  BY ConstantsTyped DEF Tick, IInv
<1>2. UNCHANGED <<storeVars, job, daemon, crashes>>
  BY DEF Tick
<1>3. [T!Next]_(T!vars)
  BY <1>2 DEF storeVars, T!vars
<1>4. T!IInv'
  BY <1>3, TableAssumption, T!InvNext DEF IInv
<1>5. QED
  BY <1>1, <1>2, <1>3, <1>4 DEF Sound, IInv, SeenTrue, WakeTruthful, storeVars

LEMMA InvInit == Init => IInv
<1> SUFFICES ASSUME Init PROVE IInv
  OBVIOUS
<1>1. T!Init
  BY DEF Init, S!Init, T!Init, S!NoRow, T!NoRow
<1>2. T!IInv
  BY <1>1, TableAssumption, T!InvInit
<1>3. now = 0 /\ now \in 0..MaxTime /\ crashes \in 0..MaxCrashes
  BY ConstantsTyped DEF Init
<1>4. daemon \in Loop /\ daemon.pc = "sleep" /\ daemon.m = NULL /\ daemon.seen = "running"
  <2>1. daemon = Asleep(0)
    BY DEF Init
  <2>2. QED
    BY <1>3, <2>1, AsleepLoop DEF Asleep
<1>5. job \in [Monitor -> Output]
  BY DEF Init, Output
<1>6. \A m \in Monitor : row[m].wake_reason = NULL
  BY DEF Init, S!Init, S!NoRow
<1>7. QED
  BY <1>2, <1>3, <1>4, <1>5, <1>6, ConstantsTyped DEF IInv, SeenTrue, WakeTruthful

\* Every step keeps the invariant and calls the table as its callers do.
LEMMA InvNext == IInv /\ [Next]_vars => Sound
<1> SUFFICES ASSUME IInv, [Next]_vars PROVE Sound
  OBVIOUS
<1>1. CASE BeginRound
  BY <1>1, BeginSound
<1>2. CASE StartCheck
  BY <1>2, ClaimSound
<1>3. CASE EndRound
  <2>1. daemon' = Asleep(TickSeconds) /\ UNCHANGED <<storeVars, now, job, crashes>>
    BY <1>3 DEF EndRound
  <2>2. crashes' \in 0..MaxCrashes
    BY <2>1 DEF IInv
  <2>3. QED
    BY <2>1, <2>2, ConstantsTyped, AsleepSound
<1>4. CASE CheckPrints
  BY <1>4, PrintsSound
<1>5. CASE FinishCheck
  BY <1>5, FinishSound
<1>6. CASE Crash
  <2>1. daemon' = Asleep(Throttle) /\ UNCHANGED <<storeVars, now, job>>
    BY <1>6 DEF Crash
  <2>2. crashes' \in 0..MaxCrashes
    BY <1>6, ConstantsTyped DEF Crash, IInv
  <2>3. QED
    BY <2>1, <2>2, ConstantsTyped, AsleepSound
<1>7. ASSUME NEW m \in Monitor, Register(m) \/ UserCancels(m) \/ JobEnds(m) PROVE Sound
  BY <1>7, RegisterSound, CancelSound, JobSound
<1>8. CASE DispatcherRecovers
  BY <1>8, RecoverCall, CallSound DEF DispatcherRecovers
<1>9. CASE Tick
  BY <1>9, TickSound
<1>10. CASE UNCHANGED vars
  <2>1. [T!Next]_(T!vars)
    BY <1>10 DEF vars, T!vars
  <2>2. QED
    BY <1>10, <2>1, RowsTruthful, CallSound DEF vars
<1>11. QED
  BY <1>1, <1>2, <1>3, <1>4, <1>5, <1>6, <1>7, <1>8, <1>9, <1>10 DEF Next

\* The inductive invariant holds in every reachable state.
THEOREM DaemonInvariant == Spec => []IInv
<1>1. IInv /\ [Next]_vars => IInv'
  BY InvNext DEF Sound
<1>2. QED
  BY <1>1, InvInit, PTL DEF Spec

\* The table, the jobs and the loop stay well-typed.
THEOREM DaemonTyped == Spec => []TypeOK
<1>1. IInv => TypeOK
  BY DEF IInv, TypeOK, T!IInv, T!TypeOK, S!TypeOK, T!Row, S!Row, T!Null, S!Null, T!WakeReason,
         S!WakeReason, T!AllStates, S!AllStates, T!ActiveStates, S!ActiveStates
<1>2. QED
  BY <1>1, DaemonInvariant, PTL

\* No wake-up for a reason that is not true, however late a result is recorded or dropped.
THEOREM WakesTruthful == Spec => []WakeTruthful
<1>1. IInv => WakeTruthful
  BY DEF IInv
<1>2. QED
  BY <1>1, DaemonInvariant, PTL


\* The daemon, the dispatchers it shares the table with and the user use it as module Store
\* allows: a run of the daemon is a run of the table.
THEOREM DaemonImplementsStore == Spec => S!Spec
<1>1. Init => S!Init
  BY DEF Init
<1>2. T!Next => S!Next
  BY DEF T!Next, S!Next, T!Step, S!Step, T!ClaimHolder, S!ClaimHolder,
         T!Register, S!Register, T!Registered, S!Registered, T!NoRow, S!NoRow, T!Lesser, S!Lesser,
         T!Cancel, S!Cancel, T!Cancelled, S!Cancelled, T!Released, S!Released,
         T!ActiveStates, S!ActiveStates, T!RecoverStale, S!RecoverStale, T!Recovered, S!Recovered,
         T!Expired, S!Expired, T!ClaimDueCheck, S!ClaimDueCheck, T!FirstDueChecks, S!FirstDueChecks,
         T!DueChecks, S!DueChecks, T!CheckBefore, S!CheckBefore, T!FreshToken, S!FreshToken,
         T!Claimed, S!Claimed, T!ClaimDueDelivery, S!ClaimDueDelivery, T!Delivering, S!Delivering,
         T!FirstDueDeliveries, S!FirstDueDeliveries, T!DueDeliveries, S!DueDeliveries,
         T!DeliveryBefore, S!DeliveryBefore, T!CompleteCheck, S!CompleteCheck,
         T!HoldsClaim, S!HoldsClaim, T!Rearmed, S!Rearmed, T!Woken, S!Woken,
         T!RecordDeliveryAnchor, S!RecordDeliveryAnchor, T!Anchored, S!Anchored,
         T!DeliverySucceeded, S!DeliverySucceeded, T!Delivered, S!Delivered,
         T!DeliveryRetry, S!DeliveryRetry, T!Retried, S!Retried,
         T!DeliveryBlocked, S!DeliveryBlocked, T!Blocked, S!Blocked,
         T!Null, S!Null, T!WakeReason, S!WakeReason
<1>3. IInv /\ [Next]_vars => [S!Next]_(S!vars)
  BY <1>2, InvNext DEF Sound, T!vars, S!vars
<1>4. QED
  BY <1>1, <1>3, DaemonInvariant, PTL DEF Spec, S!Spec

\* Under the daemon every wait is what module Wait promises its task: registered, woken for
\* one reason, consumed by one turn.
THEOREM DaemonImplementsWait == Spec => S!ImplementsWait
<1>1. Init => S!W!Init
  <2>1. Init => T!Init
    BY DEF Init, S!Init, T!Init, S!NoRow, T!NoRow
  <2>2. T!W!Init => S!W!Init
    BY DEF T!W!Init, S!W!Init, T!PhaseOf, S!PhaseOf
  <2>3. QED
    BY <2>1, <2>2, TableAssumption, T!RefineInit
<1>2. IInv /\ [Next]_vars => [S!W!Next]_(S!W!vars)
  <2>1. IInv /\ [Next]_vars => [T!W!Next]_(T!W!vars)
    BY InvNext, TableAssumption, T!RefineNext DEF Sound, IInv
  <2>2. [T!W!Next]_(T!W!vars) => [S!W!Next]_(S!W!vars)
    BY DEF T!W!Next, S!W!Next, T!W!vars, S!W!vars, T!W!Register, S!W!Register, T!W!Wake, S!W!Wake,
           T!W!Deliver, S!W!Deliver, T!W!Cancel, S!W!Cancel, T!PhaseOf, S!PhaseOf,
           T!WakeReason, S!WakeReason
  <2>3. QED
    BY <2>1, <2>2
<1>3. QED
  BY <1>1, <1>2, DaemonInvariant, PTL DEF Spec, S!ImplementsWait, S!W!Spec

-----------------------------------------------------------------------------
(* Sums of checks and rests.  Below, products are met in these only.       *)

LEMMA ProductGrows ==
    ASSUME NEW a \in Nat, NEW b \in Nat, NEW x \in Nat
    PROVE  /\ a * x \in Nat
           /\ (a + 1) * x = a * x + x
           /\ 1 * x = x
           /\ a <= b => a * x <= b * x
<1>1. ASSUME a <= b PROVE a * x <= b * x
  <2>1. PICK c \in Nat : b = a + c
    <3>1. b - a \in Nat /\ b = a + (b - a)
      BY <1>1
    <3>2. QED
      BY <3>1
  <2>2. b * x = a * x + c * x /\ c * x \in Nat /\ a * x \in Nat /\ b * x \in Nat
    BY <2>1
  <2>3. QED
    BY <2>2
<1>2. a * x \in Nat /\ (a + 1) * x = a * x + x /\ 1 * x = x
  OBVIOUS
<1>3. QED
  BY <1>1, <1>2

LEMMA DelaysAdd ==
    /\ \A n \in Nat : Delay(n) \in Nat /\ Rest <= Delay(n) /\ Delay(n + 1) = Delay(n) + CheckTimeout
    /\ Delay(1) = Rest + CheckTimeout
<1>1. CheckTimeout \in Nat /\ Rest \in Nat /\ 1 \in Nat
  BY ConstantsTyped
<1>2. \A n \in Nat : /\ n * CheckTimeout \in Nat
                     /\ (n + 1) * CheckTimeout = n * CheckTimeout + CheckTimeout
  BY <1>1, ProductGrows
<1>3. 1 * CheckTimeout = CheckTimeout
  BY <1>1
<1>4. QED
  BY <1>1, <1>2, <1>3 DEF Delay

\* Less to do, sooner, or by a later limit.
LEMMA FitsLess ==
    ASSUME NEW f \in Nat, NEW n \in Nat, NEW b \in Nat, Fits(f, n, b),
           NEW g \in Nat, NEW l \in Nat, NEW c \in Nat, g <= f, l <= n, b <= c
    PROVE  Fits(g, l, c)
<1>1. l * CheckTimeout <= n * CheckTimeout /\ l * CheckTimeout \in Nat /\ n * CheckTimeout \in Nat
  BY ConstantsTyped, ProductGrows
<1> DEFINE x == l * CheckTimeout
           y == n * CheckTimeout
<1>2. x \in Nat /\ y \in Nat /\ x <= y /\ f + y <= b
  BY <1>1 DEF Fits
<1> HIDE DEF x, y
<1>3. g + x <= c
  BY <1>2
<1>4. QED
  BY <1>3 DEF Fits, x

LEMMA FitsStart == ASSUME NEW f \in Nat, NEW n \in Nat, NEW b \in Nat, Fits(f, n, b) PROVE f <= b
<1> DEFINE x == n * CheckTimeout
<1>1. x \in Nat /\ f + x <= b
  BY ConstantsTyped, ProductGrows DEF Fits
<1> HIDE DEF x
<1>2. QED
  BY <1>1

\* One check is done.
LEMMA FitsOneLess ==
    ASSUME NEW f \in Nat, NEW n \in Nat, NEW b \in Nat
    PROVE  Fits(f, n + 1, b) <=> Fits(f + CheckTimeout, n, b)
<1> DEFINE x == n * CheckTimeout
<1>1. x \in Nat /\ (n + 1) * CheckTimeout = x + CheckTimeout /\ CheckTimeout \in Nat
  BY ConstantsTyped, ProductGrows
<1>2. Fits(f, n + 1, b) <=> f + (x + CheckTimeout) <= b
  BY <1>1 DEF Fits
<1>3. Fits(f + CheckTimeout, n, b) <=> (f + CheckTimeout) + x <= b
  BY DEF Fits
<1> HIDE DEF x
<1>4. QED
  BY <1>1, <1>2, <1>3

\* All is put off.
LEMMA FitsLater ==
    ASSUME NEW f \in Nat, NEW n \in Nat, NEW b \in Nat, NEW x \in Nat, Fits(f, n, b)
    PROVE  Fits(f + x, n, b + x)
<1> DEFINE y == n * CheckTimeout
<1>1. y \in Nat /\ f + y <= b
  BY ConstantsTyped, ProductGrows DEF Fits
<1>2. Fits(f + x, n, b + x) <=> (f + x) + y <= b + x
  BY DEF Fits
<1> HIDE DEF y
<1>3. QED
  BY <1>1, <1>2

\* A delay is a rest and the checks after it.
LEMMA FitsDelay ==
    ASSUME NEW f \in Nat, NEW n \in Nat, NEW b \in Nat
    PROVE  Fits(f + Rest, n, b) <=> f + Delay(n) <= b
<1> DEFINE x == n * CheckTimeout
<1>1. x \in Nat /\ Rest \in Nat
  BY ConstantsTyped, ProductGrows
<1>2. Fits(f + Rest, n, b) <=> (f + Rest) + x <= b
  BY DEF Fits
<1>3. f + Delay(n) <= b <=> f + (Rest + x) <= b
  BY DEF Delay
<1> HIDE DEF x
<1>4. QED
  BY <1>1, <1>2, <1>3

\* A crash costs a rest and the check it interrupts.
LEMMA FitsCrash ==
    ASSUME NEW f \in Nat, NEW n \in Nat, NEW b \in Nat, Fits(f, n, b)
    PROVE  Fits(f + Rest, n + 1, b + Delay(1))
<1>1. Rest \in Nat /\ CheckTimeout \in Nat /\ Delay(1) = Rest + CheckTimeout
  BY ConstantsTyped, DelaysAdd
<1>2. Fits(f + (Rest + CheckTimeout), n, b + (Rest + CheckTimeout))
  <2>1. Rest + CheckTimeout \in Nat
    BY <1>1
  <2>2. QED
    BY <2>1, FitsLater
<1>3. /\ (f + Rest) + CheckTimeout = f + (Rest + CheckTimeout)
      /\ f + Rest \in Nat /\ b + Delay(1) \in Nat
  BY <1>1
<1>4. QED
  BY <1>1, <1>2, <1>3, FitsOneLess

\* There are monitors, and a round has room for them.
LEMMA Numbers ==
    ASSUME Feasible, Monitor # {}
    PROVE  /\ Cardinality(Monitor) \in Nat /\ 1 <= Cardinality(Monitor)
           /\ Cardinality(Monitor) <= MaxChecks
           /\ AllButOne \in Nat /\ Delay(Cardinality(Monitor)) = AllButOne + CheckTimeout
           /\ PerCrash \in Nat
           /\ CheckLease + Delay(MaxChecks) + AllButOne + CheckTimeout <= PerCrash
           /\ Delay(1) <= PerCrash
<1>1. Cardinality(Monitor) \in Nat /\ 1 <= Cardinality(Monitor) /\ Cardinality(Monitor) <= MaxChecks
  BY FS_CardinalityType, FS_EmptySet DEF Feasible
<1> DEFINE n == Cardinality(Monitor) - 1
<1>2. n \in Nat /\ Cardinality(Monitor) = n + 1
  BY <1>1
<1>3. Delay(n) \in Nat /\ Delay(n + 1) = Delay(n) + CheckTimeout /\ Delay(MaxChecks) \in Nat
  BY <1>2, ConstantsTyped, DelaysAdd
<1>4. Rest <= Delay(n) /\ Delay(1) = Rest + CheckTimeout
  BY <1>2, DelaysAdd
<1>5. AllButOne = Delay(n)
  BY DEF AllButOne
<1> HIDE DEF n
<1>6. Delay(Cardinality(Monitor)) = AllButOne + CheckTimeout /\ AllButOne \in Nat
  BY <1>2, <1>3, <1>5
<1>7. PerCrash = CheckLease + Delay(MaxChecks) + (AllButOne + CheckTimeout)
  BY <1>6 DEF PerCrash
<1>8. QED
  BY <1>1, <1>3, <1>4, <1>5, <1>6, <1>7, ConstantsTyped

-----------------------------------------------------------------------------
(* Rows, their keys and their limits.                                      *)

\* What the types say of one state.
Shape(r, d, t) ==
    /\ r \in [Monitor -> T!Row]
    /\ \A m \in Monitor : r[m].state = "CHECKING" => r[m].claim_expires_at \in Nat
    /\ d \in Loop
    /\ t \in Nat
    /\ d.pc = "check" <=> d.m # NULL

LEMMA Shapes == ASSUME IInv PROVE Shape(row, daemon, now)
<1>1. \A m \in Monitor : row[m].state = "CHECKING" => row[m].claim_expires_at \in Nat
  BY Typed DEF T!Row, T!Null, IInv, T!IInv, T!ClaimsExclusive, T!ClaimColumns, T!ClaimedStates
<1>2. QED
  BY <1>1, Typed DEF Shape, IInv

LEMMA ShapesNext == ASSUME IInv' PROVE Shape(row', daemon', now')
<1>1. /\ row' \in [Monitor -> T!Row]
      /\ now' \in Nat
      /\ daemon' \in Loop
      /\ daemon'.pc = "check" <=> daemon'.m # NULL
  BY ConstantsTyped DEF IInv, T!IInv, T!TypeOK
<1>2. \A m \in Monitor : row'[m].state = "CHECKING" => row'[m].claim_expires_at \in Nat
  BY <1>1 DEF T!Row, T!Null, IInv, T!IInv, T!ClaimsExclusive, T!ClaimColumns, T!ClaimedStates
<1>3. QED
  BY <1>1, <1>2 DEF Shape

LEMMA LoopNumbers ==
    ASSUME NEW d \in Loop, NEW t \in Nat
    PROVE  /\ d.until \in Nat /\ d.checked \in Nat /\ d.checked <= MaxChecks
           /\ Free(d, t) \in Nat /\ t <= Free(d, t)
           /\ d.until <= t => Free(d, t) = t
           /\ t <= d.until => Free(d, t) = d.until
BY ConstantsTyped DEF Loop, Free

LEMMA KeyFacts ==
    ASSUME NEW q \in T!Row, NEW t \in Nat
    PROVE  /\ Key(q) \in Nat /\ Key(q) <= q.next_check_at /\ Key(q) <= q.deadline_at
           /\ Key(q) <= t <=> q.next_check_at <= t \/ q.deadline_at <= t
           /\ q.next_check_at \in Nat /\ q.deadline_at \in Nat /\ q.interval_seconds \in Nat
<1>1. q.next_check_at \in Nat /\ q.deadline_at \in Nat /\ q.interval_seconds \in Nat
  BY DEF T!Row
<1>2. QED
  BY <1>1 DEF Key, S!Lesser

LEMMA Limits ==
    ASSUME Feasible, NEW m \in Monitor, NEW q \in T!Row, NEW k \in Nat
    PROVE  /\ Reaped(q, k) \in Nat /\ ByDeadline(q, k) \in Nat /\ ByDue(q, k) \in Nat
           /\ q.deadline_at <= Reaped(q, k)
           /\ q.next_check_at + AllButOne <= ByDue(q, k)
           /\ Reaped(q, k + 1) = Reaped(q, k) + PerCrash
           /\ ByDeadline(q, k + 1) = ByDeadline(q, k) + PerCrash
           /\ ByDue(q, k + 1) = ByDue(q, k) + Delay(1)
<1>1. q.next_check_at \in Nat /\ q.deadline_at \in Nat
  BY DEF T!Row
<1>2. AllButOne \in Nat /\ PerCrash \in Nat /\ Delay(1) \in Nat
  BY Numbers, DelaysAdd
<1> DEFINE x == k * PerCrash
           y == k * Delay(1)
           x2 == (k + 1) * PerCrash
           y2 == (k + 1) * Delay(1)
<1>3. x \in Nat /\ x2 = x + PerCrash /\ y \in Nat /\ y2 = y + Delay(1)
  BY <1>2, ProductGrows
<1>4. /\ Reaped(q, k) = q.deadline_at + x
      /\ Reaped(q, k + 1) = q.deadline_at + x2
      /\ ByDeadline(q, k) = (q.deadline_at + x) + AllButOne
      /\ ByDeadline(q, k + 1) = (q.deadline_at + x2) + AllButOne
      /\ ByDue(q, k) = q.next_check_at + AllButOne + y
      /\ ByDue(q, k + 1) = q.next_check_at + AllButOne + y2
  BY DEF Reaped, ByDeadline, ByDue
<1> HIDE DEF x, y, x2, y2
<1>5. QED
  BY <1>1, <1>2, <1>3, <1>4

\* Fewer monitors come before m than there are.
LEMMA BeforeFinite ==
    ASSUME Feasible, NEW m \in Monitor, NEW r, NEW d
    PROVE  /\ IsFiniteSet(Before(m, r, d))
           /\ Cardinality(Before(m, r, d)) \in Nat
           /\ Cardinality(Before(m, r, d)) + 1 <= Cardinality(Monitor)
           /\ \A n \in Monitor : n # m /\ n \notin Before(m, r, d) =>
                Cardinality(Before(m, r, d)) + 2 <= Cardinality(Monitor)
<1> DEFINE B == Before(m, r, d)
<1>1. B \subseteq Monitor \ {m}
  BY DEF Before
<1>2. IsFiniteSet(Monitor) /\ Cardinality(Monitor) \in Nat
  BY FS_CardinalityType DEF Feasible
<1>3. /\ IsFiniteSet(Monitor \ {m})
      /\ Cardinality(Monitor \ {m}) = Cardinality(Monitor) - 1
  BY <1>2, FS_RemoveElement
<1> HIDE DEF B
<1>4. IsFiniteSet(B) /\ Cardinality(B) \in Nat /\ Cardinality(B) <= Cardinality(Monitor) - 1
  BY <1>1, <1>3, FS_Subset, FS_CardinalityType
<1>5. ASSUME NEW n \in Monitor, n # m, n \notin B
      PROVE  Cardinality(B) + 2 <= Cardinality(Monitor)
  <2>1. n \in Monitor \ {m}
    BY <1>5
  <2>2. /\ IsFiniteSet((Monitor \ {m}) \ {n})
        /\ Cardinality((Monitor \ {m}) \ {n}) = Cardinality(Monitor) - 2
    BY <1>2, <1>3, <2>1, FS_RemoveElement
  <2>3. B \in SUBSET ((Monitor \ {m}) \ {n})
    BY <1>1, <1>5
  <2>4. Cardinality(B) <= Cardinality(Monitor) - 2
    BY <2>2, <2>3, FS_Subset
  <2>5. QED
    BY <1>2, <1>4, <2>4
<1>6. QED
  BY <1>2, <1>4, <1>5 DEF B

-----------------------------------------------------------------------------
(* A due check and its limit.                                              *)

\* Who becomes due waits for the daemon's rest or its check, and for everybody else.
LEMMA Fresh ==
    ASSUME Feasible, NEW m \in Monitor, NEW r, NEW d, NEW t, NEW b \in Nat,
           Shape(r, d, t), LoopInTime(r, d, t), r[m].state = "WAITING", t + AllButOne <= b
    PROVE  InTime(m, r, d, t, b)
<1> DEFINE c == Cardinality(Before(m, r, d))
           n == Cardinality(Monitor) - 1
<1>1. c \in Nat /\ n \in Nat /\ c <= n /\ CheckTimeout \in Nat /\ Rest \in Nat /\ t \in Nat
  BY BeforeFinite, Numbers, ConstantsTyped DEF Shape
<1>2. Fits(t + Rest, n, b)
  BY <1>1, FitsDelay DEF AllButOne
<1>3. d \in Loop /\ Free(d, t) \in Nat
  BY LoopNumbers DEF Shape
<1> HIDE DEF c, n
<1>4. Fits(t + Rest, c, b)
  <2>1. t + Rest \in Nat /\ t + Rest <= t + Rest /\ b <= b
    BY <1>1
  <2>2. QED
    BY <1>1, <1>2, <2>1, FitsLess
<1>5. CASE d.pc = "sleep"
  <2>1. Free(d, t) <= t + Rest
    BY <1>1, <1>5, LoopNumbers DEF Free, LoopInTime, Shape
  <2>2. Fits(Free(d, t), c, b)
    BY <1>1, <1>3, <1>4, <2>1, FitsLess
  <2>3. QED
    BY <1>5, <2>2 DEF InTime, c
<1>6. CASE d.pc = "claim"
  <2>1. Free(d, t) = t
    BY <1>1, <1>3, <1>6, LoopNumbers DEF LoopInTime
  <2>2. Fits(t, c, b)
    BY <1>1, <1>4, FitsLess
  <2>3. QED
    BY <1>4, <2>1, <2>2 DEF InTime, c
<1>7. CASE d.pc = "check"
  <2>1. /\ d.m \in Monitor /\ d.m # m /\ d.m \notin Before(m, r, d)
    BY <1>7 DEF Shape, Loop, LoopInTime, Before
  <2>2. c + 1 <= n
    BY <1>1, <2>1, BeforeFinite, Numbers DEF c, n
  <2>3. Fits(t + Rest, c + 1, b)
    BY <1>1, <1>2, <2>2, FitsLess
  <2>4. Fits((t + Rest) + CheckTimeout, c, b)
    BY <1>1, <2>3, FitsOneLess
  <2>5. Free(d, t) <= t + CheckTimeout
    BY <1>1, <1>3, <1>7, LoopNumbers DEF LoopInTime
  <2>6. Fits(Free(d, t) + Rest, c, b) /\ Fits(Free(d, t), c, b)
    BY <1>1, <1>3, <2>4, <2>5, FitsLess
  <2>7. QED
    BY <2>6 DEF InTime, c
<1>8. QED
  BY <1>3, <1>5, <1>6, <1>7 DEF Loop

\* Nobody came before m who had not to, and the daemon is no later.
LEMMA Kept ==
    ASSUME Feasible, NEW m \in Monitor, NEW r, NEW d \in Loop, NEW t \in Nat, NEW b \in Nat,
           NEW r2, NEW d2 \in Loop, NEW t2 \in Nat,
           InTime(m, r, d, t, b),
           Before(m, r2, d2) \subseteq Before(m, r, d), Free(d2, t2) <= Free(d, t),
           d2.pc # "sleep" => d.pc # "sleep" /\ d2.checked = d.checked
    PROVE  InTime(m, r2, d2, t2, b)
<1> DEFINE c == Cardinality(Before(m, r, d))
           c2 == Cardinality(Before(m, r2, d2))
           f == Free(d, t)
           f2 == Free(d2, t2)
<1>1. c \in Nat /\ c2 \in Nat /\ c2 <= c
  BY BeforeFinite, FS_Subset
<1>2. f \in Nat /\ f2 \in Nat /\ f2 <= f /\ d.checked \in Nat /\ Rest \in Nat /\ MaxChecks \in Nat
  BY LoopNumbers, ConstantsTyped
<1>3. Fits(f, c, b) /\ (d.pc # "sleep" => d.checked + c < MaxChecks \/ Fits(f + Rest, c, b))
  BY DEF InTime
<1>4. /\ InTime(m, r2, d2, t2, b) <=>
           /\ Fits(f2, c2, b)
           /\ d2.pc # "sleep" => d2.checked + c2 < MaxChecks \/ Fits(f2 + Rest, c2, b)
  BY DEF InTime
<1> HIDE DEF c, c2, f, f2
<1>5. Fits(f2, c2, b)
  BY <1>1, <1>2, <1>3, FitsLess
<1>6. Fits(f + Rest, c, b) => Fits(f2 + Rest, c2, b)
  <2>1. f + Rest \in Nat /\ f2 + Rest \in Nat /\ f2 + Rest <= f + Rest
    BY <1>2
  <2>2. QED
    BY <1>1, <2>1, FitsLess
<1>7. ASSUME d2.pc # "sleep", d.checked + c < MaxChecks PROVE d2.checked + c2 < MaxChecks
  BY <1>1, <1>2, <1>7
<1>8. QED
  BY <1>3, <1>4, <1>5, <1>6, <1>7


-----------------------------------------------------------------------------
(* The budget is kept. *)

\* Facts about a state within the budget.
LEMMA Facts ==
    ASSUME IInv, Budget
    PROVE  /\ Shape(row, daemon, now) /\ LoopInTime(row, daemon, now)
           /\ \A m \in Monitor : WaitInTime(m, row, daemon, now, crashes) /\ row[m] \in T!Row
           /\ row \in [Monitor -> T!Row] /\ daemon \in Loop /\ now \in Nat /\ crashes \in Nat
           /\ daemon.m # NULL => daemon.m \in Monitor /\ daemon.pc = "check"
           /\ daemon.m = NULL => \A m \in Monitor : daemon.m # m
<1>1. crashes \in Nat
  BY ConstantsTyped DEF IInv
<1>2. QED
  BY <1>1, Shapes, Typed, ConstantsTyped DEF Budget, IInv

\* A wait that is not touched, while the daemon is no later and no further.
LEMMA WaitKept ==
    ASSUME Feasible, NEW m \in Monitor, NEW r, NEW d \in Loop, NEW t \in Nat, NEW k \in Nat,
           NEW r2, NEW d2 \in Loop, NEW t2 \in Nat,
           WaitInTime(m, r, d, t, k), r[m] \in T!Row, r2[m] = r[m],
           r[m].state = "CHECKING" => r[m].claim_expires_at \in Nat,
           Key(r[m]) <= t2 => Key(r[m]) <= t,
           r[m].state = "WAITING" /\ Key(r[m]) <= t => Before(m, r2, d2) \subseteq Before(m, r, d),
           Free(d2, t2) <= Free(d, t),
           d2.pc # "sleep" => d.pc # "sleep" /\ d2.checked = d.checked,
           d2.m = m <=> d.m = m,
           d2.m = m => d2.until = d.until
    PROVE  WaitInTime(m, r2, d2, t2, k)
<1> DEFINE q == r[m]
<1>1. Reaped(q, k) \in Nat /\ ByDeadline(q, k) \in Nat /\ ByDue(q, k) \in Nat
  BY Limits
<1>2. ASSUME q.state = "WAITING", Key(q) <= t2
      PROVE  InTime(m, r2, d2, t2, ByDue(q, k)) /\ InTime(m, r2, d2, t2, ByDeadline(q, k))
  <2>1. InTime(m, r, d, t, ByDue(q, k)) /\ InTime(m, r, d, t, ByDeadline(q, k))
    BY <1>2 DEF WaitInTime
  <2>2. Before(m, r2, d2) \subseteq Before(m, r, d)
    BY <1>2
  <2>3. QED
    BY <1>1, <2>1, <2>2, Kept
<1>3. ASSUME q.state = "CHECKING", d2.m # m
      PROVE  /\ Fits(q.claim_expires_at + Rest, MaxChecks, Reaped(q, k))
             /\ Free(d2, t2) <= Reaped(q, k)
             /\ d2.pc # "sleep" => Fits(Free(d2, t2) + Rest, MaxChecks - d2.checked, Reaped(q, k))
  <2>1. /\ Fits(q.claim_expires_at + Rest, MaxChecks, Reaped(q, k))
        /\ Free(d, t) <= Reaped(q, k)
        /\ d.pc # "sleep" => Fits(Free(d, t) + Rest, MaxChecks - d.checked, Reaped(q, k))
    BY <1>3 DEF WaitInTime
  <2>2. Free(d, t) \in Nat /\ Free(d2, t2) \in Nat /\ Rest \in Nat /\ MaxChecks - d.checked \in Nat
    BY LoopNumbers, ConstantsTyped
  <2>3. /\ Free(d, t) + Rest \in Nat /\ Free(d2, t2) + Rest \in Nat
        /\ Free(d2, t2) + Rest <= Free(d, t) + Rest
    BY <2>2
  <2>4. ASSUME d2.pc # "sleep"
        PROVE  Fits(Free(d2, t2) + Rest, MaxChecks - d2.checked, Reaped(q, k))
    <3>1. Fits(Free(d, t) + Rest, MaxChecks - d.checked, Reaped(q, k)) /\ d2.checked = d.checked
      BY <2>1, <2>4
    <3>2. MaxChecks - d.checked <= MaxChecks - d.checked /\ Reaped(q, k) <= Reaped(q, k)
      BY <1>1, <2>2
    <3>3. QED
      BY <1>1, <2>2, <2>3, <3>1, <3>2, FitsLess
  <2>5. QED
    BY <1>1, <2>1, <2>2, <2>4
<1>4. /\ Waits(q) => q.interval_seconds > 0
      /\ q.state = "CHECKING" /\ d2.m = m => d2.until <= ByDeadline(q, k) + CheckTimeout
  BY DEF WaitInTime
<1>5. QED
  BY <1>2, <1>3, <1>4 DEF WaitInTime

\* Nobody waits at first.
LEMMA BudgetInit == Init => Budget
<1> SUFFICES ASSUME Init PROVE Budget
  OBVIOUS
<1>1. \A m \in Monitor : row[m].state = "ABSENT"
  BY DEF Init, S!Init, S!NoRow
<1>2. daemon.pc = "sleep" /\ daemon.checked = 0 /\ daemon.until = 0 /\ now = 0
  BY DEF Init, Asleep
<1>3. LoopInTime(row, daemon, now)
  BY <1>2, ConstantsTyped DEF LoopInTime
<1>4. QED
  BY <1>1, <1>3 DEF Budget, WaitInTime, Waits

\* Who becomes due as time passes is due at the time it is.
LEMMA TickBudget == ASSUME Feasible, IInv, IInv', Budget, Tick PROVE Budget'
<1>1. now' = now + 1 /\ now < daemon.until /\ row' = row /\ daemon' = daemon /\ crashes' = crashes
  BY DEF Tick, storeVars
<1>2. now \in Nat /\ now' \in Nat /\ daemon \in Loop /\ daemon.until \in Nat /\ crashes \in Nat
  BY <1>1, Facts, LoopNumbers
<1>3. LoopInTime(row, daemon, now')
  BY <1>1, <1>2, Facts, ConstantsTyped DEF LoopInTime
<1>4. Shape(row, daemon, now')
  BY <1>1, ShapesNext
<1>5. Free(daemon, now') = Free(daemon, now)
  BY <1>1, <1>2, LoopNumbers
<1>6. ASSUME NEW m \in Monitor PROVE WaitInTime(m, row, daemon, now', crashes)
  <2> DEFINE q == row[m]
  <2>1. WaitInTime(m, row, daemon, now, crashes) /\ q \in T!Row
    BY Facts
  <2>2. CASE q.state = "WAITING" /\ Key(q) <= now' /\ ~ Key(q) <= now
    <3>1. now' <= q.next_check_at /\ now' <= q.deadline_at
      BY <1>1, <1>2, <2>1, <2>2, KeyFacts
    <3>2. /\ ByDue(q, crashes) \in Nat /\ q.next_check_at + AllButOne <= ByDue(q, crashes)
          /\ Reaped(q, crashes) \in Nat /\ q.deadline_at <= Reaped(q, crashes)
          /\ ByDeadline(q, crashes) \in Nat
      BY <1>2, <2>1, Limits
    <3>3. q.next_check_at \in Nat /\ q.deadline_at \in Nat /\ AllButOne \in Nat
      BY <1>2, <2>1, KeyFacts, Numbers
    <3>4. /\ now' + AllButOne <= ByDue(q, crashes)
          /\ now' + AllButOne <= ByDeadline(q, crashes)
      BY <1>2, <3>1, <3>2, <3>3 DEF ByDeadline
    <3>5. /\ InTime(m, row, daemon, now', ByDue(q, crashes))
          /\ InTime(m, row, daemon, now', ByDeadline(q, crashes))
      BY <1>3, <1>4, <2>2, <3>2, <3>4, Fresh
    <3>6. QED
      BY <2>1, <2>2, <3>5 DEF WaitInTime
  <2>3. CASE q.state = "WAITING" => (Key(q) <= now' => Key(q) <= now)
    <3>1. CASE Key(q) <= now' => Key(q) <= now
      <4>1. q.state = "CHECKING" => q.claim_expires_at \in Nat
        BY <1>4 DEF Shape
      <4>2. Free(daemon, now') <= Free(daemon, now)
        BY <1>2, <1>5, LoopNumbers
      <4>3. QED
        BY <1>2, <2>1, <3>1, <4>1, <4>2, WaitKept
    <3>2. CASE q.state # "WAITING"
      BY <1>5, <2>1, <3>2 DEF WaitInTime
    <3>3. QED
      BY <2>3, <3>1, <3>2
  <2>4. QED
    BY <2>2, <2>3
<1>7. QED
  BY <1>1, <1>3, <1>6 DEF Budget

\* The daemon reads output: nothing the budget speaks of.
LEMMA PrintsBudget == ASSUME Feasible, IInv, IInv', Budget, CheckPrints PROVE Budget'
<1>1. /\ row' = row /\ now' = now /\ crashes' = crashes
      /\ daemon' = [daemon EXCEPT !.seen = job[daemon.m]]
  BY DEF CheckPrints, storeVars
<1>2. /\ daemon'.pc = daemon.pc /\ daemon'.until = daemon.until /\ daemon'.checked = daemon.checked
      /\ daemon'.m = daemon.m /\ daemon'.tok = daemon.tok
  BY <1>1, Facts DEF Loop
<1>3. LoopInTime(row, daemon', now)
  BY <1>2, Facts DEF LoopInTime
<1>4. ASSUME NEW m \in Monitor PROVE WaitInTime(m, row, daemon', now, crashes)
  BY <1>2, Facts DEF WaitInTime, InTime, Before, Free
<1>5. QED
  BY <1>1, <1>3, <1>4 DEF Budget

\* A call of the table that writes one row, which is not due after it, not under a claim, and
\* not what the daemon works at unless it is cancelled.
LEMMA OneRowBudget ==
    ASSUME Feasible, IInv, IInv', Budget, UNCHANGED <<now, daemon, crashes>>,
           NEW x \in Monitor, \A m \in Monitor \ {x} : row'[m] = row[m],
           row'[x].state # "CHECKING",
           row'[x].state = "WAITING" => row'[x].interval_seconds > 0 /\ ~ Key(row'[x]) <= now,
           daemon.m = x => row'[x].state = "CANCELLED"
    PROVE  Budget'
<1>1. LoopInTime(row', daemon, now)
  <2>1. ASSUME daemon.pc = "check"
        PROVE  /\ row'[daemon.m].state \in {"CHECKING", "CANCELLED"}
               /\ row'[daemon.m].state = "CHECKING" => row'[daemon.m] = row[daemon.m]
    BY <2>1, Facts DEF LoopInTime, Shape
  <2>2. QED
    BY <2>1, Facts DEF LoopInTime
<1>2. Shape(row', daemon, now)
  BY ShapesNext
<1>3. ASSUME NEW m \in Monitor PROVE WaitInTime(m, row', daemon, now, crashes)
  <2>1. CASE m = x
    BY <2>1 DEF WaitInTime, Waits
  <2>2. CASE m # x
    <3>1. row'[m] = row[m] /\ row[m] \in T!Row /\ WaitInTime(m, row, daemon, now, crashes)
      BY <2>2, Facts
    <3>2. row[m].state = "CHECKING" => row[m].claim_expires_at \in Nat
      BY Facts DEF Shape
    <3>3. ASSUME Key(row[m]) <= now
          PROVE  Before(m, row', daemon) \subseteq Before(m, row, daemon)
      <4> SUFFICES ASSUME NEW n \in Before(m, row', daemon) PROVE n \in Before(m, row, daemon)
        OBVIOUS
      <4>1. n \in Monitor \ {m}
        BY DEF Before
      <4>2. n # x
        <5>1. row'[x].state = "WAITING" => ~ Key(row'[x]) <= Key(row[m])
          <6>1. row'[x] \in T!Row
            BY <1>2 DEF Shape
          <6>2. QED
            BY <3>1, <3>3, <6>1, Facts, KeyFacts
        <5>2. QED
          BY <3>1, <5>1 DEF Before
      <4>3. row'[n] = row[n]
        BY <4>1, <4>2
      <4>4. QED
        BY <3>1, <4>1, <4>3 DEF Before
    <3>4. Free(daemon, now) <= Free(daemon, now)
      BY Facts, LoopNumbers
    <3>5. QED
      BY <3>1, <3>2, <3>3, <3>4, Facts, WaitKept
  <2>3. QED
    BY <2>1, <2>2
<1>4. QED
  BY <1>1, <1>3 DEF Budget

\* A new monitor is not due at once, so it comes after all that are.
LEMMA RegisterBudget ==
    ASSUME Feasible, IInv, IInv', Budget, NEW x \in Monitor, Register(x) PROVE Budget'
<1>1. PICK i \in Interval, t \in Timeout : S!Register(x, i, t, now)
  BY DEF Register
<1> DEFINE q == S!Registered(i, t, now)
<1>2. row[x].state = "ABSENT" /\ row' = [row EXCEPT ![x] = q]
  BY <1>1 DEF S!Register
<1>3. i \in Nat /\ i > 0 /\ t \in Nat /\ t > 0 /\ now \in Nat
  BY Facts, DaemonAssumption DEF DaemonAssumption, Feasible
<1>4. /\ q.state = "WAITING" /\ q.interval_seconds = i /\ q.deadline_at = now + t
      /\ q.next_check_at = S!Lesser(now + i, now + t)
  BY DEF S!Registered, S!NoRow
<1> HIDE DEF q
<1>5. q.next_check_at > now /\ q.deadline_at > now /\ Key(q) > now /\ Key(q) \in Nat
  BY <1>3, <1>4 DEF S!Lesser, Key
<1>6. row'[x] = q /\ \A m \in Monitor \ {x} : row'[m] = row[m]
  BY <1>2, Facts
<1>7. daemon.m # x
  BY <1>2, Facts DEF LoopInTime
<1>8. QED
  BY <1>3, <1>4, <1>5, <1>6, <1>7, OneRowBudget DEF Register

\* A cancelled monitor is checked by nobody any more.
LEMMA CancelBudget ==
    ASSUME Feasible, IInv, IInv', Budget, NEW x \in Monitor, UserCancels(x) PROVE Budget'
<1>1. row' = [row EXCEPT ![x] = S!Cancelled(row[x], now)] /\ UNCHANGED <<now, daemon, crashes>>
  BY DEF UserCancels, S!Cancel
<1>2. S!Cancelled(row[x], now).state = "CANCELLED"
  BY Facts DEF S!Cancelled, S!Released, T!Row
<1>3. row'[x].state = "CANCELLED" /\ \A m \in Monitor \ {x} : row'[m] = row[m]
  BY <1>1, <1>2, Facts
<1>4. QED
  BY <1>1, <1>3, OneRowBudget


\* recover_stale takes claims nobody works at, and leaves those that are not expired.
LEMMA Reaping ==
    ASSUME Feasible, IInv, Budget, S!RecoverStale(now), NEW m \in Monitor
    PROVE  \/ /\ row'[m] = row[m]
              /\ row[m].state = "CHECKING" => now < row[m].claim_expires_at
           \/ /\ row[m].state = "CHECKING" /\ daemon.m # m
              /\ row'[m].state = "WAITING" /\ row'[m].next_check_at = now
              /\ row'[m].deadline_at = row[m].deadline_at
              /\ row'[m].interval_seconds = row[m].interval_seconds
           \/ row[m].state = "DELIVERING" /\ row'[m].state = "DELIVERY_PENDING"
<1>1. row'[m] = S!Recovered(row[m], now) /\ row[m] \in T!Row
  BY Facts DEF S!RecoverStale
<1>2. CASE row[m].state = "CHECKING"
  <2>1. row[m].claim_expires_at \in Nat /\ now \in Nat /\ row[m].claim_expires_at # NULL
    BY <1>2, Facts, ConstantsTyped DEF Shape
  <2>2. CASE row[m].claim_expires_at <= now
    <3>1. daemon.m # m
      <4>1. ASSUME daemon.m = m PROVE FALSE
        <5>1. daemon.pc = "check"
          BY <4>1, Facts, ConstantsTyped
        <5>2. /\ now <= daemon.until
              /\ row[m].claim_expires_at = daemon.until - CheckTimeout + CheckLease
          BY <1>2, <4>1, <5>1, Facts DEF LoopInTime
        <5>3. daemon.until \in Nat /\ CheckTimeout < CheckLease
          BY Facts, LoopNumbers DEF Feasible
        <5>4. QED
          BY <2>1, <2>2, <5>2, <5>3, ConstantsTyped
      <4>2. QED
        BY <4>1
    <3>2. row'[m] = [S!Released(row[m]) EXCEPT !.state = "WAITING", !.next_check_at = now]
      BY <1>1, <1>2, <2>2 DEF S!Recovered, S!Expired
    <3>3. /\ row'[m].state = "WAITING" /\ row'[m].next_check_at = now
          /\ row'[m].deadline_at = row[m].deadline_at
          /\ row'[m].interval_seconds = row[m].interval_seconds
      BY <1>1, <3>2 DEF S!Released, T!Row
    <3>4. QED
      BY <1>2, <3>1, <3>3
  <2>3. CASE ~ row[m].claim_expires_at <= now
    BY <1>1, <1>2, <2>1, <2>3 DEF S!Recovered, S!Expired
  <2>4. QED
    BY <2>2, <2>3
<1>3. CASE row[m].state = "DELIVERING"
  <2>1. row'[m] = row[m] \/ row'[m].state = "DELIVERY_PENDING"
    BY <1>1, <1>3 DEF S!Recovered, S!Released, T!Row
  <2>2. QED
    BY <1>3, <2>1
<1>4. CASE row[m].state # "CHECKING" /\ row[m].state # "DELIVERING"
  BY <1>1, <1>4 DEF S!Recovered
<1>5. QED
  BY <1>2, <1>3, <1>4

\* A claim that is reaped came before everybody already.
LEMMA ReapedBefore ==
    ASSUME Feasible, IInv, Budget, S!RecoverStale(now), NEW m \in Monitor, row'[m] = row[m],
           NEW d, d.m = daemon.m
    PROVE  Before(m, row', d) \subseteq Before(m, row, daemon)
<1> SUFFICES ASSUME NEW n \in Before(m, row', d) PROVE n \in Before(m, row, daemon)
  OBVIOUS
<1>1. /\ n \in Monitor \ {m}
      /\ \/ row'[n].state = "CHECKING" /\ daemon.m # n
         \/ row'[n].state = "WAITING" /\ Key(row'[n]) <= Key(row[m])
  BY DEF Before
<1>2. CASE row'[n] = row[n]
  BY <1>1, <1>2 DEF Before
<1>3. CASE row[n].state = "CHECKING" /\ daemon.m # n
  BY <1>1, <1>3 DEF Before
<1>4. QED
  BY <1>1, <1>2, <1>3, Reaping

\* A monitor whose claim was reaped is due at once, and in time.
LEMMA ReapedInTime ==
    ASSUME Feasible, IInv, Budget, NEW m \in Monitor,
           row[m].state = "CHECKING", daemon.m # m,
           row'[m].state = "WAITING", row'[m].next_check_at = now,
           row'[m].deadline_at = row[m].deadline_at,
           row'[m].interval_seconds = row[m].interval_seconds,
           NEW d, Shape(row', d, now), LoopInTime(row', d, now)
    PROVE  WaitInTime(m, row', d, now, crashes)
<1> DEFINE q == row'[m]
<1>1. q \in T!Row /\ row[m] \in T!Row /\ crashes \in Nat /\ now \in Nat /\ AllButOne \in Nat
  BY Facts, Numbers DEF Shape
<1>2. /\ Reaped(q, crashes) \in Nat /\ ByDeadline(q, crashes) \in Nat /\ ByDue(q, crashes) \in Nat
      /\ now + AllButOne <= ByDue(q, crashes)
  BY <1>1, Limits
<1>3. now <= Reaped(q, crashes)
  <2>1. Free(daemon, now) <= Reaped(row[m], crashes)
    BY Facts DEF WaitInTime
  <2>2. Reaped(row[m], crashes) = Reaped(q, crashes)
    BY DEF Reaped
  <2>3. QED
    BY <1>1, <1>2, <2>1, <2>2, Facts, LoopNumbers
<1>4. now + AllButOne <= ByDeadline(q, crashes)
  BY <1>1, <1>2, <1>3 DEF ByDeadline
<1>5. InTime(m, row', d, now, ByDue(q, crashes)) /\ InTime(m, row', d, now, ByDeadline(q, crashes))
  BY <1>2, <1>4, Fresh
<1>6. q.interval_seconds > 0
  BY Facts DEF WaitInTime, Waits
<1>7. QED
  BY <1>5, <1>6 DEF WaitInTime, Waits

\* A dispatcher reaps claims.
LEMMA RecoverBudget == ASSUME Feasible, IInv, IInv', Budget, DispatcherRecovers PROVE Budget'
<1>1. S!RecoverStale(now) /\ now' = now /\ daemon' = daemon /\ crashes' = crashes
  BY DEF DispatcherRecovers
<1>2. LoopInTime(row', daemon, now)
  <2>1. ASSUME daemon.pc = "check" PROVE row'[daemon.m] = row[daemon.m]
    <3>1. daemon.m \in Monitor /\ row[daemon.m].state \in {"CHECKING", "CANCELLED"}
      BY <2>1, Facts DEF Shape, LoopInTime
    <3>2. QED
      BY <1>1, <3>1, Reaping
  <2>2. QED
    BY <2>1, Facts DEF LoopInTime
<1>3. Shape(row', daemon, now)
  BY <1>1, ShapesNext
<1>4. ASSUME NEW m \in Monitor PROVE WaitInTime(m, row', daemon, now, crashes)
  <2>1. CASE row'[m] = row[m]
    <3>1. Before(m, row', daemon) \subseteq Before(m, row, daemon)
      BY <1>1, <2>1, ReapedBefore
    <3>2. row[m].state = "CHECKING" => row[m].claim_expires_at \in Nat
      BY Facts DEF Shape
    <3>3. Free(daemon, now) <= Free(daemon, now)
      BY Facts, LoopNumbers
    <3>4. QED
      BY <2>1, <3>1, <3>2, <3>3, Facts, WaitKept
  <2>2. CASE /\ row[m].state = "CHECKING" /\ daemon.m # m
             /\ row'[m].state = "WAITING" /\ row'[m].next_check_at = now
             /\ row'[m].deadline_at = row[m].deadline_at
             /\ row'[m].interval_seconds = row[m].interval_seconds
    BY <1>2, <1>3, <2>2, ReapedInTime
  <2>3. CASE row'[m].state = "DELIVERY_PENDING"
    BY <2>3 DEF WaitInTime, Waits
  <2>4. QED
    BY <1>1, <2>1, <2>2, <2>3, Reaping
<1>5. QED
  BY <1>1, <1>2, <1>4 DEF Budget

\* A round begins: it has room for every monitor, and what was lost and is not expired has
\* until its lease ends.
LEMMA BeginBudget == ASSUME Feasible, IInv, IInv', Budget, BeginRound PROVE Budget'
<1>1. /\ S!RecoverStale(now) /\ now' = now /\ crashes' = crashes
      /\ daemon.pc = "sleep" /\ daemon.until <= now
      /\ daemon' = [daemon EXCEPT !.pc = "claim", !.until = now]
  BY DEF BeginRound
<1>2. daemon.m = NULL /\ daemon.checked = 0 /\ daemon \in Loop /\ now \in Nat /\ crashes \in Nat
  BY <1>1, Facts DEF Shape, LoopInTime
<1>3. daemon'.pc = "claim" /\ daemon'.until = now /\ daemon'.m = NULL /\ daemon'.checked = 0
  BY <1>1, <1>2 DEF Loop
<1>4. LoopInTime(row', daemon', now)
  BY <1>3 DEF LoopInTime
<1>5. Shape(row', daemon', now)
  BY <1>1, ShapesNext
<1>6. Free(daemon, now) = now /\ Free(daemon', now) = now
  BY <1>1, <1>2, <1>3, <1>5, LoopNumbers DEF Shape
<1>7. ASSUME NEW m \in Monitor PROVE WaitInTime(m, row', daemon', now, crashes)
  <2> DEFINE q == row[m]
  <2>1. /\ WaitInTime(m, row, daemon, now, crashes) /\ q \in T!Row /\ daemon.m # m /\ daemon'.m # m
        /\ Reaped(q, crashes) \in Nat /\ ByDeadline(q, crashes) \in Nat /\ ByDue(q, crashes) \in Nat
    BY <1>2, <1>3, Facts, Limits
  <2>2. CASE row'[m] = q /\ (q.state = "CHECKING" => now < q.claim_expires_at)
    <3>1. ASSUME q.state = "WAITING", Key(q) <= now, NEW b \in Nat, InTime(m, row, daemon, now, b)
          PROVE  InTime(m, row', daemon', now, b)
      <4> DEFINE c == Cardinality(Before(m, row, daemon))
                 c2 == Cardinality(Before(m, row', daemon'))
      <4>1. Before(m, row', daemon') \subseteq Before(m, row, daemon)
        BY <1>1, <1>2, <1>3, <2>2, ReapedBefore
      <4>2. c \in Nat /\ c2 \in Nat /\ c2 <= c /\ c2 + 1 <= Cardinality(Monitor)
        BY <4>1, BeforeFinite, FS_Subset
      <4>3. Fits(now, c, b)
        BY <1>6, <3>1 DEF InTime
      <4>4. InTime(m, row', daemon', now, b) <=>
              Fits(now, c2, b) /\ (0 + c2 < MaxChecks \/ Fits(now + Rest, c2, b))
        BY <1>3, <1>6 DEF InTime
      <4> HIDE DEF c, c2
      <4>5. Fits(now, c2, b)
        BY <1>2, <3>1, <4>2, <4>3, FitsLess
      <4>6. 0 + c2 < MaxChecks
        BY <4>2, Numbers, ConstantsTyped
      <4>7. QED
        BY <4>4, <4>5, <4>6
    <3>2. ASSUME q.state = "CHECKING"
          PROVE  /\ Fits(q.claim_expires_at + Rest, MaxChecks, Reaped(q, crashes))
                 /\ Free(daemon', now) <= Reaped(q, crashes)
                 /\ Fits(Free(daemon', now) + Rest, MaxChecks - daemon'.checked, Reaped(q, crashes))
      <4>1. /\ Fits(q.claim_expires_at + Rest, MaxChecks, Reaped(q, crashes))
            /\ Free(daemon, now) <= Reaped(q, crashes)
        BY <2>1, <3>2 DEF WaitInTime
      <4>2. now < q.claim_expires_at /\ q.claim_expires_at \in Nat
        BY <2>2, <3>2, Facts DEF Shape
      <4>3. /\ now + Rest \in Nat /\ q.claim_expires_at + Rest \in Nat
            /\ now + Rest <= q.claim_expires_at + Rest /\ MaxChecks \in Nat
        BY <1>2, <4>2, ConstantsTyped
      <4>4. Fits(now + Rest, MaxChecks, Reaped(q, crashes))
        <5>1. MaxChecks <= MaxChecks /\ Reaped(q, crashes) <= Reaped(q, crashes)
          BY <2>1, <4>3
        <5>2. QED
          BY <2>1, <4>1, <4>3, <5>1, FitsLess
      <4>5. MaxChecks - daemon'.checked = MaxChecks
        BY <1>3, <4>3
      <4>6. QED
        BY <1>6, <4>1, <4>4, <4>5
    <3>3. Waits(q) => q.interval_seconds > 0
      BY <2>1 DEF WaitInTime
    <3>4. q.state = "WAITING" /\ Key(q) <= now =>
             /\ InTime(m, row', daemon', now, ByDue(q, crashes))
             /\ InTime(m, row', daemon', now, ByDeadline(q, crashes))
      BY <2>1, <3>1 DEF WaitInTime
    <3>5. QED
      BY <2>1, <2>2, <3>2, <3>3, <3>4 DEF WaitInTime
  <2>3. CASE /\ row[m].state = "CHECKING" /\ daemon.m # m
             /\ row'[m].state = "WAITING" /\ row'[m].next_check_at = now
             /\ row'[m].deadline_at = row[m].deadline_at
             /\ row'[m].interval_seconds = row[m].interval_seconds
    BY <1>4, <1>5, <2>3, ReapedInTime
  <2>4. CASE row'[m].state = "DELIVERY_PENDING"
    BY <2>4 DEF WaitInTime, Waits
  <2>5. QED
    BY <1>1, <2>2, <2>3, <2>4, Reaping
<1>8. QED
  BY <1>1, <1>4, <1>7 DEF Budget

\* A check begins: of m, in time; before m, one check less to wait for.
LEMMA StartBudget == ASSUME Feasible, IInv, IInv', Budget, StartCheck PROVE Budget'
<1>1. PICK x \in Monitor, tok \in Token :
         /\ S!ClaimDueCheck(x, tok, now)
         /\ daemon' = [daemon EXCEPT !.pc = "check", !.until = now + CheckTimeout,
                                     !.checked = @ + 1, !.m = x, !.tok = tok]
  BY DEF StartCheck
<1>2. /\ daemon.pc = "claim" /\ daemon.checked < MaxChecks
      /\ now' = now /\ crashes' = crashes
  BY DEF StartCheck
<1>3. daemon.m = NULL /\ daemon.until = now /\ daemon \in Loop /\ now \in Nat /\ crashes \in Nat
  BY <1>2, Facts DEF Shape, LoopInTime
<1>4. /\ daemon'.pc = "check" /\ daemon'.until = now + CheckTimeout
      /\ daemon'.checked = daemon.checked + 1 /\ daemon'.m = x /\ daemon'.tok = tok
  BY <1>1, <1>3 DEF Loop
<1> DEFINE p == S!Claimed(row[x], "CHECKING", tok, now + CheckLease)
<1>5. row' = [row EXCEPT ![x] = p]
  BY <1>1 DEF S!ClaimDueCheck
<1>6. /\ p.state = "CHECKING" /\ p.claim_token = tok /\ p.claim_expires_at = now + CheckLease
      /\ p.deadline_at = row[x].deadline_at /\ p.interval_seconds = row[x].interval_seconds
  BY Facts DEF S!Claimed, T!Row
<1> HIDE DEF p
<1>7. row'[x] = p /\ \A m \in Monitor \ {x} : row'[m] = row[m]
  BY <1>5, Facts
<1>8. /\ row[x].state = "WAITING" /\ Key(row[x]) <= now
      /\ \A m \in Monitor :
           row[m].state = "WAITING" /\ Key(row[m]) <= now => Key(row[x]) <= Key(row[m])
  <2>1. x \in S!DueChecks(now) /\ \A m \in S!DueChecks(now) : ~ S!CheckBefore(m, x)
    BY <1>1 DEF S!ClaimDueCheck, S!FirstDueChecks
  <2>2. \A m \in Monitor :
          m \in S!DueChecks(now) <=> row[m].state = "WAITING" /\ Key(row[m]) <= now
    BY <1>3, Facts, KeyFacts DEF S!DueChecks
  <2>3. \A m \in Monitor : Key(row[m]) < Key(row[x]) => S!CheckBefore(m, x)
    BY DEF S!CheckBefore, Key
  <2>4. \A m \in Monitor : Key(row[m]) \in Nat
    BY <1>3, Facts, KeyFacts
  <2>5. QED
    BY <2>1, <2>2, <2>3, <2>4
<1>9. now + CheckTimeout \in Nat /\ now + CheckLease \in Nat /\ now <= now + CheckTimeout
      /\ (now + CheckTimeout) - CheckTimeout + CheckLease = now + CheckLease
  BY <1>3, ConstantsTyped
<1>10. LoopInTime(row', daemon', now)
  BY <1>4, <1>6, <1>7, <1>9 DEF LoopInTime
<1>11. Shape(row', daemon', now)
  BY <1>2, ShapesNext
<1>12. Free(daemon, now) = now /\ Free(daemon', now) = now + CheckTimeout
  BY <1>3, <1>4, <1>9, <1>11, LoopNumbers DEF Shape
<1>13. WaitInTime(x, row', daemon', now, crashes)
  <2>1. InTime(x, row, daemon, now, ByDeadline(row[x], crashes)) /\ row[x].interval_seconds > 0
    BY <1>8, Facts DEF WaitInTime, Waits
  <2>2. ByDeadline(row[x], crashes) \in Nat /\ ByDeadline(p, crashes) = ByDeadline(row[x], crashes)
    BY <1>3, <1>6, Facts, Limits DEF ByDeadline, Reaped
  <2>3. Fits(now, Cardinality(Before(x, row, daemon)), ByDeadline(row[x], crashes))
    BY <1>12, <2>1 DEF InTime
  <2>4. now <= ByDeadline(row[x], crashes)
    BY <1>3, <2>2, <2>3, BeforeFinite, FitsStart
  <2>5. daemon'.until <= ByDeadline(p, crashes) + CheckTimeout
    BY <1>3, <1>4, <2>2, <2>4, ConstantsTyped
  <2>6. QED
    BY <1>4, <1>6, <1>7, <2>1, <2>5 DEF WaitInTime, Waits
<1>14. ASSUME NEW m \in Monitor, m # x PROVE WaitInTime(m, row', daemon', now, crashes)
  <2> DEFINE q == row[m]
  <2>1. /\ WaitInTime(m, row, daemon, now, crashes) /\ q \in T!Row /\ row'[m] = q
        /\ daemon.m # m /\ daemon'.m # m
        /\ Reaped(q, crashes) \in Nat /\ ByDeadline(q, crashes) \in Nat /\ ByDue(q, crashes) \in Nat
    BY <1>3, <1>4, <1>7, <1>14, Facts, Limits
  <2>2. ASSUME q.state = "WAITING", Key(q) <= now, NEW b \in Nat, InTime(m, row, daemon, now, b)
        PROVE  InTime(m, row', daemon', now, b)
    <3> DEFINE B == Before(m, row, daemon)
               B2 == Before(m, row', daemon')
               c == Cardinality(B)
               c2 == Cardinality(B2)
    <3>1. x \in B
      BY <1>8, <1>14, <2>2 DEF Before
    <3>2. B2 = B \ {x}
      <4>1. x \notin B2
        BY <1>4, <1>6, <1>7 DEF Before
      <4>2. ASSUME NEW n \in Monitor \ {m, x} PROVE n \in B <=> n \in B2
        BY <1>3, <1>4, <1>7, <2>1, <4>2, Facts DEF Before
      <4>3. B \subseteq Monitor \ {m} /\ B2 \subseteq Monitor \ {m}
        BY DEF Before
      <4>4. QED
        BY <4>1, <4>2, <4>3
    <3>3. IsFiniteSet(B) /\ c \in Nat /\ c2 \in Nat
      BY BeforeFinite
    <3>4. /\ Fits(now, c, b)
          /\ daemon.checked + c < MaxChecks \/ Fits(now + Rest, c, b)
      BY <1>2, <1>12, <2>2 DEF InTime
    <3>5. InTime(m, row', daemon', now, b) <=>
            /\ Fits(now + CheckTimeout, c2, b)
            /\ \/ (daemon.checked + 1) + c2 < MaxChecks
               \/ Fits((now + CheckTimeout) + Rest, c2, b)
      BY <1>4, <1>12 DEF InTime
    <3> HIDE DEF B, B2
    <3>6. c = c2 + 1
      <4>1. Cardinality(B \ {x}) = Cardinality(B) - 1
        BY <3>1, <3>3, FS_RemoveElement
      <4>2. c2 = c - 1
        BY <3>2, <4>1
      <4>3. QED
        BY <3>3, <4>2
    <3>7. /\ daemon.checked \in Nat /\ now + Rest \in Nat
          /\ (now + Rest) + CheckTimeout = (now + CheckTimeout) + Rest
      BY <1>3, LoopNumbers, ConstantsTyped
    <3> HIDE DEF c, c2
    <3>8. Fits(now + CheckTimeout, c2, b)
      BY <1>3, <2>2, <3>3, <3>4, <3>6, FitsOneLess
    <3>9. Fits(now + Rest, c, b) => Fits((now + CheckTimeout) + Rest, c2, b)
      BY <2>2, <3>3, <3>6, <3>7, FitsOneLess
    <3>10. (daemon.checked + 1) + c2 = daemon.checked + c
      BY <3>3, <3>6, <3>7
    <3>11. QED
      BY <3>4, <3>5, <3>8, <3>9, <3>10
  <2>3. ASSUME q.state = "CHECKING"
        PROVE  /\ Fits(q.claim_expires_at + Rest, MaxChecks, Reaped(q, crashes))
               /\ Free(daemon', now) <= Reaped(q, crashes)
               /\ Fits(Free(daemon', now) + Rest, MaxChecks - daemon'.checked, Reaped(q, crashes))
    <3> DEFINE n == MaxChecks - (daemon.checked + 1)
    <3>1. /\ Fits(q.claim_expires_at + Rest, MaxChecks, Reaped(q, crashes))
          /\ Fits(now + Rest, MaxChecks - daemon.checked, Reaped(q, crashes))
      BY <1>2, <1>12, <2>1, <2>3 DEF WaitInTime
    <3>2. n \in Nat /\ MaxChecks - daemon.checked = n + 1 /\ MaxChecks - daemon'.checked = n
      BY <1>2, <1>3, <1>4, LoopNumbers, ConstantsTyped
    <3> HIDE DEF n
    <3>3. /\ now + Rest \in Nat /\ (now + Rest) + CheckTimeout = (now + CheckTimeout) + Rest
          /\ (now + CheckTimeout) + Rest \in Nat
      BY <1>3, ConstantsTyped
    <3>4. Fits((now + CheckTimeout) + Rest, n, Reaped(q, crashes))
      BY <2>1, <3>1, <3>2, <3>3, FitsOneLess
    <3>5. (now + CheckTimeout) + Rest <= Reaped(q, crashes)
      BY <2>1, <3>2, <3>3, <3>4, FitsStart
    <3>6. now + CheckTimeout <= Reaped(q, crashes)
      BY <1>9, <2>1, <3>5, ConstantsTyped
    <3>7. QED
      BY <1>12, <3>1, <3>2, <3>4, <3>6
  <2>4. Waits(q) => q.interval_seconds > 0
    BY <2>1 DEF WaitInTime
  <2>5. q.state = "WAITING" /\ Key(q) <= now =>
           /\ InTime(m, row', daemon', now, ByDue(q, crashes))
           /\ InTime(m, row', daemon', now, ByDeadline(q, crashes))
    BY <2>1, <2>2 DEF WaitInTime
  <2>6. QED
    BY <2>1, <2>3, <2>4, <2>5 DEF WaitInTime
<1>15. QED
  BY <1>2, <1>10, <1>13, <1>14 DEF Budget


\* A round ends: nobody is due, or it is full and the rest was allowed for.
LEMMA EndBudget == ASSUME Feasible, IInv, IInv', Budget, EndRound PROVE Budget'
<1>1. /\ daemon.checked = MaxChecks \/ S!DueChecks(now) = {}
      /\ row' = row /\ now' = now /\ crashes' = crashes /\ daemon' = Asleep(TickSeconds)
  BY DEF EndRound, storeVars
<1>2. daemon.pc = "claim" /\ daemon.m = NULL /\ daemon.until = now /\ daemon \in Loop
  BY Facts DEF EndRound, Shape, LoopInTime
<1>3. now \in Nat /\ crashes \in Nat /\ Rest \in Nat /\ TickSeconds \in Nat /\ TickSeconds <= Rest
  BY Facts, ConstantsTyped
<1>4. /\ daemon'.pc = "sleep" /\ daemon'.until = now + TickSeconds /\ daemon'.checked = 0
      /\ daemon'.m = NULL /\ daemon' \in Loop
  BY <1>1, <1>3, AsleepLoop DEF Asleep
<1>5. LoopInTime(row, daemon', now)
  BY <1>3, <1>4 DEF LoopInTime
<1>6. /\ Free(daemon, now) = now /\ Free(daemon', now) = now + TickSeconds
      /\ now + Rest \in Nat /\ now + TickSeconds \in Nat /\ now + TickSeconds <= now + Rest
  BY <1>2, <1>3, <1>4, LoopNumbers
<1>7. ASSUME NEW m \in Monitor PROVE WaitInTime(m, row, daemon', now, crashes)
  <2> DEFINE q == row[m]
  <2>1. /\ WaitInTime(m, row, daemon, now, crashes) /\ q \in T!Row /\ daemon.m # m /\ daemon'.m # m
        /\ Reaped(q, crashes) \in Nat /\ ByDeadline(q, crashes) \in Nat /\ ByDue(q, crashes) \in Nat
    BY <1>2, <1>3, <1>4, Facts, Limits
  <2>2. ASSUME q.state = "WAITING", Key(q) <= now, NEW b \in Nat, InTime(m, row, daemon, now, b)
        PROVE  InTime(m, row, daemon', now, b)
    <3> DEFINE c == Cardinality(Before(m, row, daemon))
    <3>1. m \in S!DueChecks(now)
      BY <1>3, <2>1, <2>2, KeyFacts DEF S!DueChecks
    <3>2. daemon.checked = MaxChecks
      BY <1>1, <3>1
    <3>3. c \in Nat
      BY BeforeFinite
    <3>4. daemon.checked + c < MaxChecks \/ Fits(now + Rest, c, b)
      BY <1>2, <1>6, <2>2 DEF InTime
    <3>5. InTime(m, row, daemon', now, b) <=> Fits(now + TickSeconds, c, b)
      BY <1>2, <1>4, <1>6 DEF InTime, Before
    <3> HIDE DEF c
    <3>6. Fits(now + Rest, c, b)
      BY <3>2, <3>3, <3>4, ConstantsTyped
    <3>7. Fits(now + TickSeconds, c, b)
      BY <1>6, <2>2, <3>3, <3>6, FitsLess
    <3>8. QED
      BY <3>5, <3>7
  <2>3. ASSUME q.state = "CHECKING"
        PROVE  /\ Fits(q.claim_expires_at + Rest, MaxChecks, Reaped(q, crashes))
               /\ Free(daemon', now) <= Reaped(q, crashes)
    <3>1. /\ Fits(q.claim_expires_at + Rest, MaxChecks, Reaped(q, crashes))
          /\ Fits(now + Rest, MaxChecks - daemon.checked, Reaped(q, crashes))
      BY <1>2, <1>6, <2>1, <2>3 DEF WaitInTime
    <3>2. MaxChecks - daemon.checked \in Nat
      BY <1>2, <1>3, LoopNumbers, ConstantsTyped
    <3>3. now + Rest <= Reaped(q, crashes)
      BY <1>6, <2>1, <3>1, <3>2, FitsStart
    <3>4. QED
      BY <1>6, <2>1, <3>1, <3>3
  <2>4. Waits(q) => q.interval_seconds > 0
    BY <2>1 DEF WaitInTime
  <2>5. q.state = "WAITING" /\ Key(q) <= now =>
           /\ InTime(m, row, daemon', now, ByDue(q, crashes))
           /\ InTime(m, row, daemon', now, ByDeadline(q, crashes))
    BY <2>1, <2>2 DEF WaitInTime
  <2>6. QED
    BY <1>4, <2>1, <2>3, <2>4, <2>5 DEF WaitInTime
<1>8. QED
  BY <1>1, <1>5, <1>7 DEF Budget

\* A check ends: its monitor is not due, and the daemon is free early.
LEMMA FinishBudget == ASSUME Feasible, IInv, IInv', Budget, FinishCheck PROVE Budget'
<1> DEFINE x == daemon.m
           decision == Decision(daemon.seen, now >= row[x].deadline_at)
<1>1. /\ daemon.pc = "check" /\ now' = now /\ crashes' = crashes
      /\ daemon' = [daemon EXCEPT !.pc = "claim", !.until = now, !.m = NULL, !.tok = NULL,
                                  !.seen = "running"]
  BY DEF FinishCheck
<1>2. /\ x \in Monitor /\ row[x] \in T!Row /\ daemon \in Loop /\ now \in Nat /\ crashes \in Nat
      /\ now <= daemon.until /\ row[x].state \in {"CHECKING", "CANCELLED"}
      /\ row[x].state = "CHECKING" => row[x].claim_token = daemon.tok
  BY <1>1, Typed, Facts DEF LoopInTime
<1>3. /\ daemon'.pc = "claim" /\ daemon'.until = now /\ daemon'.checked = daemon.checked
      /\ daemon'.m = NULL
  BY <1>1, <1>2 DEF Loop
<1>4. LoopInTime(row', daemon', now)
  BY <1>3 DEF LoopInTime
<1>5. Shape(row', daemon', now)
  BY <1>1, ShapesNext
<1>6. /\ \A m \in Monitor \ {x} : row'[m] = row[m]
      /\ row'[x].state # "CHECKING"
      /\ row'[x].state = "WAITING" => row'[x].interval_seconds > 0 /\ ~ Key(row'[x]) <= now
  <2>1. CASE S!HoldsClaim(x, daemon.tok, "CHECKING")
    <3> DEFINE q == IF decision = NULL THEN S!Rearmed(row[x], now)
                    ELSE S!Woken(row[x], decision, now)
    <3>1. row' = [row EXCEPT ![x] = q]
      BY <2>1 DEF FinishCheck, S!CompleteCheck
    <3>2. decision # NULL => q.state = "DELIVERY_PENDING"
      BY <1>2 DEF S!Woken, S!Released, T!Row
    <3>3. ASSUME decision = NULL
          PROVE  /\ q.state = "WAITING" /\ q.interval_seconds > 0
                 /\ q.next_check_at > now /\ q.deadline_at > now
                 /\ q.next_check_at \in Nat /\ q.deadline_at \in Nat
      <4>1. row[x].deadline_at \in Nat /\ row[x].interval_seconds \in Nat
        BY <1>2 DEF T!Row
      <4>2. row[x].interval_seconds > 0
        BY <1>2, <2>1, Facts DEF WaitInTime, Waits, S!HoldsClaim
      <4>3. now < row[x].deadline_at
        <5>1. ~ now >= row[x].deadline_at
          BY <1>2, <3>3, ConstantsTyped, Typed DEF Decision, Loop, Output
        <5>2. QED
          BY <1>2, <4>1, <5>1
      <4>4. /\ q.state = "WAITING" /\ q.interval_seconds = row[x].interval_seconds
            /\ q.deadline_at = row[x].deadline_at
            /\ q.next_check_at = S!Lesser(now + row[x].interval_seconds, row[x].deadline_at)
        BY <1>2, <3>3 DEF S!Rearmed, S!Released, T!Row
      <4>5. QED
        BY <1>2, <4>1, <4>2, <4>3, <4>4 DEF S!Lesser
    <3> HIDE DEF q, decision
    <3>4. row'[x] = q /\ \A m \in Monitor \ {x} : row'[m] = row[m]
      BY <1>2, <3>1, Facts
    <3>5. decision = NULL => ~ Key(q) <= now
      BY <1>2, <3>3 DEF Key, S!Lesser
    <3>6. QED
      BY <3>2, <3>3, <3>4, <3>5
  <2>2. CASE ~ S!HoldsClaim(x, daemon.tok, "CHECKING")
    BY <1>2, <2>2 DEF FinishCheck, storeVars, S!HoldsClaim
  <2>3. QED
    BY <2>1, <2>2
<1>7. /\ Free(daemon', now) = now /\ Free(daemon, now) \in Nat /\ now <= Free(daemon, now)
      /\ daemon' \in Loop
  BY <1>2, <1>3, <1>5, LoopNumbers DEF Shape
<1> HIDE DEF x
<1>8. ASSUME NEW m \in Monitor PROVE WaitInTime(m, row', daemon', now, crashes)
  <2>1. CASE m = x
    BY <1>6, <2>1 DEF WaitInTime, Waits
  <2>2. CASE m # x
    <3>1. /\ row'[m] = row[m] /\ row[m] \in T!Row /\ WaitInTime(m, row, daemon, now, crashes)
          /\ daemon.m # m /\ daemon'.m # m
      BY <1>3, <1>6, <2>2, Facts, ConstantsTyped DEF x
    <3>2. row[m].state = "CHECKING" => row[m].claim_expires_at \in Nat
      BY Facts DEF Shape
    <3>3. ASSUME Key(row[m]) <= now
          PROVE  Before(m, row', daemon') \subseteq Before(m, row, daemon)
      <4> SUFFICES ASSUME NEW n \in Before(m, row', daemon') PROVE n \in Before(m, row, daemon)
        OBVIOUS
      <4>1. n \in Monitor \ {m}
        BY DEF Before
      <4>2. n # x
        <5>1. row'[x].state = "WAITING" => ~ Key(row'[x]) <= Key(row[m])
          <6>1. row'[x] \in T!Row
            BY <1>2, <1>5 DEF Shape, x
          <6>2. QED
            BY <1>2, <1>6, <3>1, <3>3, <6>1, KeyFacts
        <5>2. QED
          BY <1>6, <3>1, <5>1 DEF Before
      <4>3. row'[n] = row[n] /\ daemon.m # n
        BY <1>6, <4>1, <4>2 DEF x
      <4>4. QED
        BY <3>1, <4>1, <4>3 DEF Before
    <3>4. /\ daemon'.pc # "sleep" => daemon.pc # "sleep" /\ daemon'.checked = daemon.checked
          /\ Free(daemon', now) <= Free(daemon, now)
          /\ daemon'.m = m <=> daemon.m = m
          /\ daemon'.m = m => daemon'.until = daemon.until
      BY <1>1, <1>3, <1>7, <3>1
    <3>5. daemon \in Loop /\ now \in Nat /\ crashes \in Nat /\ daemon' \in Loop
      BY <1>2, <1>7
    <3>6. QED
      BY <3>1, <3>2, <3>3, <3>4, <3>5, WaitKept
  <2>3. QED
    BY <2>1, <2>2
<1>9. QED
  BY <1>1, <1>4, <1>8 DEF Budget

\* A crash: a rest, the check it interrupts, and for the claim it leaves behind its lease and a
\* round.
LEMMA CrashBudget == ASSUME Feasible, IInv, IInv', Budget, Crash PROVE Budget'
<1>1. row' = row /\ now' = now /\ crashes' = crashes + 1 /\ daemon' = Asleep(Throttle)
  BY DEF Crash, storeVars
<1>2. /\ now \in Nat /\ crashes \in Nat /\ Rest \in Nat /\ Throttle \in Nat /\ Throttle <= Rest
      /\ daemon \in Loop
  BY Facts, ConstantsTyped
<1>3. /\ daemon'.pc = "sleep" /\ daemon'.until = now + Throttle /\ daemon'.checked = 0
      /\ daemon'.m = NULL /\ daemon' \in Loop
  BY <1>1, <1>2, AsleepLoop DEF Asleep
<1>4. LoopInTime(row, daemon', now)
  BY <1>2, <1>3 DEF LoopInTime
<1>5. /\ Free(daemon, now) \in Nat /\ now <= Free(daemon, now)
      /\ Free(daemon', now) \in Nat /\ Free(daemon', now) <= Free(daemon, now) + Rest
  <2>1. /\ Free(daemon, now) \in Nat /\ now <= Free(daemon, now)
        /\ Free(daemon', now) = now + Throttle
    BY <1>2, <1>3, LoopNumbers
  <2>2. QED
    BY <1>2, <2>1
<1>6. ASSUME NEW m \in Monitor PROVE WaitInTime(m, row, daemon', now, crashes + 1)
  <2> DEFINE q == row[m]
             k == crashes + 1
  <2>1. /\ WaitInTime(m, row, daemon, now, crashes) /\ q \in T!Row /\ daemon'.m # m
        /\ Reaped(q, crashes) \in Nat /\ ByDeadline(q, crashes) \in Nat /\ ByDue(q, crashes) \in Nat
        /\ Reaped(q, k) = Reaped(q, crashes) + PerCrash
        /\ ByDeadline(q, k) = ByDeadline(q, crashes) + PerCrash
        /\ ByDue(q, k) = ByDue(q, crashes) + Delay(1)
    BY <1>2, <1>3, Facts, Limits, ConstantsTyped
  <2>2. /\ PerCrash \in Nat /\ Delay(1) \in Nat /\ Delay(1) <= PerCrash
        /\ AllButOne \in Nat /\ Delay(MaxChecks) \in Nat /\ Rest <= Delay(MaxChecks)
        /\ CheckLease + Delay(MaxChecks) + AllButOne + CheckTimeout <= PerCrash
        /\ CheckLease \in Nat /\ CheckTimeout \in Nat /\ MaxChecks \in Nat
    BY Numbers, DelaysAdd, ConstantsTyped
  <2>3. ASSUME q.state = "WAITING", NEW b \in Nat, InTime(m, row, daemon, now, b),
               NEW b2 \in Nat, b + Delay(1) <= b2
        PROVE  InTime(m, row, daemon', now, b2)
    <3> DEFINE B == Before(m, row, daemon)
               B2 == Before(m, row, daemon')
               c == Cardinality(B)
               c2 == Cardinality(B2)
               f == Free(daemon, now)
               f2 == Free(daemon', now)
    <3>1. B2 \subseteq B \cup {daemon.m}
      BY DEF Before
    <3>2. IsFiniteSet(B) /\ c \in Nat /\ IsFiniteSet(B2) /\ c2 \in Nat
      BY BeforeFinite
    <3>3. Fits(f, c, b)
      BY <2>3 DEF InTime
    <3>4. InTime(m, row, daemon', now, b2) <=> Fits(f2, c2, b2)
      BY <1>3 DEF InTime
    <3> HIDE DEF B, B2
    <3>5. c2 <= c + 1
      <4> DEFINE D == B \cup {daemon.m}
      <4>1. IsFiniteSet(D) /\ Cardinality(D) <= c + 1 /\ Cardinality(D) \in Nat
        <5>1. /\ IsFiniteSet(D)
              /\ Cardinality(D) = IF daemon.m \in B THEN Cardinality(B) ELSE Cardinality(B) + 1
          BY <3>2, FS_AddElement
        <5>2. QED
          BY <3>2, <5>1
      <4>2. B2 \in SUBSET D
        BY <3>1
      <4> HIDE DEF D
      <4>3. c2 <= Cardinality(D)
        BY <4>1, <4>2, FS_Subset
      <4>4. QED
        BY <3>2, <4>1, <4>3
    <3>6. f \in Nat /\ f2 \in Nat /\ f + Rest \in Nat /\ f2 <= f + Rest
      BY <1>2, <1>5
    <3> HIDE DEF c, c2, f, f2
    <3>7. Fits(f + Rest, c + 1, b + Delay(1))
      BY <2>3, <3>2, <3>3, <3>6, FitsCrash
    <3>8. c + 1 \in Nat /\ b + Delay(1) \in Nat
      BY <2>2, <2>3, <3>2
    <3>9. Fits(f2, c2, b2)
      BY <2>3, <3>2, <3>5, <3>6, <3>7, <3>8, FitsLess
    <3>10. QED
      BY <3>4, <3>9
  <2>4. q.state = "WAITING" /\ Key(q) <= now =>
          /\ InTime(m, row, daemon', now, ByDue(q, k))
          /\ InTime(m, row, daemon', now, ByDeadline(q, k))
    <3>1. /\ ByDue(q, k) \in Nat /\ ByDue(q, crashes) + Delay(1) <= ByDue(q, k)
          /\ ByDeadline(q, k) \in Nat /\ ByDeadline(q, crashes) + Delay(1) <= ByDeadline(q, k)
      BY <2>1, <2>2
    <3>2. q.state = "WAITING" /\ Key(q) <= now =>
            /\ InTime(m, row, daemon, now, ByDue(q, crashes))
            /\ InTime(m, row, daemon, now, ByDeadline(q, crashes))
      BY <2>1 DEF WaitInTime
    <3>3. QED
      BY <2>1, <2>3, <3>1, <3>2
  <2>5. ASSUME q.state = "CHECKING"
        PROVE  /\ Fits(q.claim_expires_at + Rest, MaxChecks, Reaped(q, k))
               /\ Free(daemon', now) <= Reaped(q, k)
    <3>1. q.claim_expires_at \in Nat /\ q.claim_expires_at + Rest \in Nat /\ Reaped(q, k) \in Nat
      BY <1>2, <2>1, <2>2, <2>5, Facts DEF Shape
    <3>2. CASE daemon.m = m
      <4>1. daemon.pc = "check"
        BY <3>2, Facts, ConstantsTyped
      <4>2. /\ daemon.until <= ByDeadline(q, crashes) + CheckTimeout
            /\ now <= daemon.until
            /\ q.claim_expires_at = daemon.until - CheckTimeout + CheckLease
        BY <2>1, <2>5, <3>2, <4>1, Facts DEF WaitInTime, LoopInTime
      <4>3. daemon.until \in Nat /\ Free(daemon, now) = daemon.until
        BY <1>2, <4>2, LoopNumbers
      <4>4. ByDeadline(q, crashes) = Reaped(q, crashes) + AllButOne
        BY DEF ByDeadline
      <4>5. q.claim_expires_at + Delay(MaxChecks) <= Reaped(q, k)
        BY <2>1, <2>2, <4>2, <4>3, <4>4
      <4>6. Fits(q.claim_expires_at + Rest, MaxChecks, Reaped(q, k))
        BY <2>2, <3>1, <4>5, FitsDelay
      <4>7. Free(daemon', now) <= Reaped(q, k)
        <5>1. daemon.until + Rest <= Reaped(q, k)
          BY <1>2, <2>1, <2>2, <4>2, <4>3, <4>4
        <5>2. QED
          BY <1>2, <1>5, <3>1, <4>3, <5>1
      <4>8. QED
        BY <4>6, <4>7
    <3>3. CASE daemon.m # m
      <4>1. /\ Fits(q.claim_expires_at + Rest, MaxChecks, Reaped(q, crashes))
            /\ Free(daemon, now) <= Reaped(q, crashes)
        BY <2>1, <2>5, <3>3 DEF WaitInTime
      <4>2. Reaped(q, crashes) <= Reaped(q, k) /\ Reaped(q, crashes) + Rest <= Reaped(q, k)
        BY <1>2, <2>1, <2>2
      <4>3. q.claim_expires_at + Rest <= q.claim_expires_at + Rest /\ MaxChecks <= MaxChecks
        BY <2>2, <3>1
      <4>4. Fits(q.claim_expires_at + Rest, MaxChecks, Reaped(q, k))
        BY <2>1, <2>2, <3>1, <4>1, <4>2, <4>3, FitsLess
      <4>5. Free(daemon', now) <= Reaped(q, k)
        BY <1>2, <1>5, <2>1, <3>1, <4>1, <4>2
      <4>6. QED
        BY <4>4, <4>5
    <3>4. QED
      BY <3>2, <3>3
  <2>6. Waits(q) => q.interval_seconds > 0
    BY <2>1 DEF WaitInTime
  <2>7. QED
    BY <1>3, <2>1, <2>4, <2>5, <2>6 DEF WaitInTime
<1>7. QED
  BY <1>1, <1>4, <1>6 DEF Budget

LEMMA BudgetNext == ASSUME Feasible, IInv, Budget, [Next]_vars PROVE Budget'
<1>1. IInv'
  BY InvNext DEF Sound
<1>2. CASE BeginRound
  BY <1>1, <1>2, BeginBudget
<1>3. CASE StartCheck
  BY <1>1, <1>3, StartBudget
<1>4. CASE EndRound
  BY <1>1, <1>4, EndBudget
<1>5. CASE CheckPrints
  BY <1>1, <1>5, PrintsBudget
<1>6. CASE FinishCheck
  BY <1>1, <1>6, FinishBudget
<1>7. CASE Crash
  BY <1>1, <1>7, CrashBudget
<1>8. ASSUME NEW m \in Monitor, Register(m) \/ UserCancels(m) PROVE Budget'
  BY <1>1, <1>8, RegisterBudget, CancelBudget
<1>9. ASSUME NEW m \in Monitor, JobEnds(m) PROVE Budget'
  BY <1>9 DEF JobEnds, Budget, storeVars
<1>10. CASE DispatcherRecovers
  BY <1>1, <1>10, RecoverBudget
<1>11. CASE Tick
  BY <1>1, <1>11, TickBudget
<1>12. CASE UNCHANGED vars
  BY <1>12 DEF vars, Budget
<1>13. QED
  BY <1>2, <1>3, <1>4, <1>5, <1>6, <1>7, <1>8, <1>9, <1>10, <1>11, <1>12 DEF Next

\* The budget of every wait is kept, however many monitors there are and whatever dies.
THEOREM DaemonInBudget == ASSUME Feasible PROVE Spec => [](IInv /\ Budget)
<1>1. Init => IInv /\ Budget
  BY InvInit, BudgetInit
<1>2. IInv /\ Budget /\ [Next]_vars => IInv' /\ Budget'
  BY InvNext, BudgetNext DEF Sound
<1>3. QED
  BY <1>1, <1>2, PTL DEF Spec

\* No due check is passed over while the daemon serves others.
THEOREM DueChecksComeFirst == ASSUME Feasible PROVE Spec => []DueChecksServed
<1>1. IInv /\ Budget => DueChecksServed
  <2> SUFFICES ASSUME IInv, Budget, NEW m \in Monitor, row[m].state = "WAITING"
               PROVE  now <= row[m].next_check_at + Delay(Cardinality(Monitor) - 1)
                               + crashes * Delay(1)
    BY DEF DueChecksServed
  <2> DEFINE q == row[m]
  <2>1. q \in T!Row /\ now \in Nat /\ crashes \in Nat /\ daemon \in Loop
    BY Facts
  <2>2. /\ ByDue(q, crashes) \in Nat /\ q.next_check_at + AllButOne <= ByDue(q, crashes)
        /\ AllButOne \in Nat
    BY <2>1, Limits, Numbers
  <2>3. now <= ByDue(q, crashes)
    <3>1. CASE Key(q) <= now
      <4>1. Fits(Free(daemon, now), Cardinality(Before(m, row, daemon)), ByDue(q, crashes))
        BY <3>1, Facts DEF WaitInTime, InTime
      <4>2. Free(daemon, now) <= ByDue(q, crashes)
        BY <2>1, <2>2, <4>1, LoopNumbers, BeforeFinite, FitsStart
      <4>3. QED
        BY <2>1, <2>2, <4>2, LoopNumbers
    <3>2. CASE ~ Key(q) <= now
      BY <2>1, <2>2, <3>2, KeyFacts
    <3>3. QED
      BY <3>1, <3>2
  <2>4. QED
    BY <2>3 DEF ByDue, AllButOne
<1>2. QED
  BY <1>1, DaemonInBudget, PTL

\* README: a wait ends when its job "reaches its hard timeout".
THEOREM HardTimeoutsMet == ASSUME Feasible PROVE Spec => []HardTimeoutMet
<1>1. IInv /\ Budget => HardTimeoutMet
  <2> SUFFICES ASSUME IInv, Budget, NEW m \in Monitor, Waiting(m)
               PROVE  now <= row[m].deadline_at + Delay(Cardinality(Monitor)) + crashes * PerCrash
    BY DEF HardTimeoutMet, PerCrash
  <2> DEFINE q == row[m]
             e == Reaped(q, crashes)
  <2>1. /\ q \in T!Row /\ now \in Nat /\ crashes \in Nat /\ daemon \in Loop
        /\ WaitInTime(m, row, daemon, now, crashes)
    BY Facts
  <2>2. /\ e \in Nat /\ q.deadline_at <= e /\ AllButOne \in Nat /\ CheckTimeout \in Nat
        /\ Delay(Cardinality(Monitor)) = AllButOne + CheckTimeout
        /\ ByDeadline(q, crashes) = e + AllButOne
        /\ q.deadline_at \in Nat
    BY <2>1, Limits, Numbers, ConstantsTyped, KeyFacts DEF ByDeadline
  <2>3. now <= e + AllButOne + CheckTimeout
    <3>1. CASE q.state = "WAITING" /\ Key(q) <= now
      <4>1. Fits(Free(daemon, now), Cardinality(Before(m, row, daemon)), ByDeadline(q, crashes))
        BY <2>1, <3>1 DEF WaitInTime, InTime
      <4>2. Free(daemon, now) <= ByDeadline(q, crashes)
        BY <2>1, <2>2, <4>1, LoopNumbers, BeforeFinite, FitsStart
      <4>3. QED
        BY <2>1, <2>2, <4>2, LoopNumbers
    <3>2. CASE q.state = "WAITING" /\ ~ Key(q) <= now
      BY <2>1, <2>2, <3>2, KeyFacts
    <3>3. CASE q.state = "CHECKING" /\ daemon.m = m
      <4>1. daemon.until <= e + AllButOne + CheckTimeout
        BY <2>1, <2>2, <3>3 DEF WaitInTime
      <4>2. now <= daemon.until
        BY <3>3, Facts, ConstantsTyped DEF LoopInTime
      <4>3. QED
        BY <2>1, <2>2, <4>1, <4>2, LoopNumbers
    <3>4. CASE q.state = "CHECKING" /\ daemon.m # m
      <4>1. Free(daemon, now) <= e
        BY <2>1, <3>4 DEF WaitInTime
      <4>2. QED
        BY <2>1, <2>2, <4>1, LoopNumbers
    <3>5. QED
      BY <3>1, <3>2, <3>3, <3>4 DEF Waiting
  <2> DEFINE x == crashes * PerCrash
  <2>4. x \in Nat /\ e = q.deadline_at + x
    BY <2>1, Numbers, ProductGrows DEF Reaped
  <2> HIDE DEF x, e
  <2>5. now <= q.deadline_at + Delay(Cardinality(Monitor)) + x
    BY <2>1, <2>2, <2>3, <2>4
  <2>6. QED
    BY <2>5 DEF x
<1>2. QED
  BY <1>1, DaemonInBudget, PTL

=============================================================================
