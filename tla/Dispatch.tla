------------------------------ MODULE Dispatch ------------------------------
(***************************************************************************)
(* Delivery of the wake-up: the dispatchers Codex Desktop runs             *)
(* (mcp/dispatcher.mjs), the state commands they spawn (dispatcher_state.py*)
(* behind cli.py), the monitors table those share (module Store), the      *)
(* rollout files used as evidence, and Desktop itself.                     *)
(*                                                                         *)
(* A dispatcher is an asynchronous loop that awaits one child process or   *)
(* one native call at a time; a child is a sequence of transactions and    *)
(* file scans, each a step here.  Dispatchers crash, children outlive      *)
(* them, every await may time out while the awaited work goes on, and      *)
(* users type, archive and cancel in between.                              *)
(*                                                                         *)
(* With Timely, time passes only while every alarm is met: no process is   *)
(* suspended beyond the time its caller grants it, and Desktop shows an    *)
(* accepted message within VisibleDelay.  Without, anything may take for   *)
(* ever, and every timeout may fire at once.                               *)
(***************************************************************************)
EXTENDS Naturals, Sequences, FiniteSets

CONSTANTS
    Monitor,         \* monitors, all woken and not yet delivered
    Thread,          \* Codex tasks
    ThreadOf,        \* the task each monitor wakes
    Dispatcher,      \* MCP servers, one per Desktop window
    Proc,            \* process slots; bounds the state commands alive at once
    Token,           \* claim tokens; bounds the delivery attempts
    DeliveryLease,   \* --claim-seconds
    RetryBase,       \* --retry-seconds
    RetryCap,        \* --max-retry-seconds
    MaxAttempts,     \* --max-delivery-attempts
    CommandTimeout,  \* what the dispatcher grants a state command
    ObserveGrace,    \* what it grants an observation beyond its wait
    ConfirmWait,     \* wait after a send that returned
    ErrorWait,       \* wait after a send that did not
    ListTimeout,     \* native tools/list, connecting included
    CallTimeout,     \* native tools/call
    VisibleDelay,    \* time an accepted message takes to reach the rollout
    Timely,          \* whether alarms are met
    User,            \* the author of continues no monitor sent
    Disturbance,     \* what happens besides: see Disturbances
    MaxRollout,      \* bounds the continues in a rollout
    MaxTime,         \* bounds the clock
    NULL

VARIABLES
    row, issued,     \* the monitors table, module Store
    now,             \* the clock
    rollout,         \* per task, who sent each exact continue its rollout shows
    archived,        \* tasks whose rollout moved to archived_sessions
    calls,           \* messages Desktop was handed and has not shown or dropped
    js,              \* per dispatcher, where dispatchOnce is
    cmd              \* the state commands running

vars == <<row, issued, now, rollout, archived, calls, js, cmd>>
storeVars == <<row, issued>>
desktopVars == <<rollout, archived, calls>>

Disturbances == {"crash", "command fails", "user continues", "archive", "scan limit",
                 "invalid target", "cancel", "recovery"}

Offset == 0..MaxRollout
BlockReason == {"not_retryable", "retry_exhausted"}
Result == {"none", "claim", "observed", "stale", "unconfirmed", "recorded", "unrecorded", "error"}

S == INSTANCE Store WITH
        Time <- 0..MaxTime, Interval <- {}, Timeout <- {}, CheckLease <- 0,
        RetryDelay <- Nat, Anchor <- Offset, Turn <- Offset

ASSUME DispatchAssumption ==
    /\ ThreadOf \in [Monitor -> Thread]
    /\ {DeliveryLease, RetryBase, RetryCap, MaxAttempts, CommandTimeout, ObserveGrace,
        ConfirmWait, ErrorWait, ListTimeout, CallTimeout, VisibleDelay, MaxRollout,
        MaxTime} \subseteq Nat
    /\ Timely \in BOOLEAN
    /\ Token \subseteq Nat \ {0}
    /\ User \notin Monitor
    /\ NULL \notin Nat /\ NULL \notin Monitor /\ NULL \notin Proc
    /\ NULL \notin BlockReason /\ NULL \notin S!WakeReason /\ NULL \notin Result
    /\ Disturbance \subseteq Disturbances

\* Alarms are met, and the timeouts of an attempt add up to less than the lease of its claim,
\* those that follow the claim to less than the first backoff.
Punctual ==
    /\ Timely
    /\ CommandTimeout + ObserveGrace + ListTimeout + VisibleDelay < DeliveryLease
    /\ ObserveGrace + ListTimeout + VisibleDelay < RetryBase

-----------------------------------------------------------------------------
(* Processes. *)

Idle == [op |-> "idle"]

\* A state command: the step it is at, the claim it works on, the anchor and
\* the turn it has read, when its wait ends and when its caller gives up.
Command == [op     : {"claim", "observe", "fail"},
            pc     : {"recover", "lease", "anchor", "record", "find", "scan", "succeed",
                      "fail", "done"},
            m      : Monitor \cup {NULL},
            tok    : Token \cup {NULL},
            anchor : Offset \cup {NULL},
            turn   : Offset \cup {NULL},
            permanent : BOOLEAN,
            result : Result \cup {NULL},
            until  : Nat,
            by     : Nat]

\* dispatchOnce: what it awaits, for which claim, in which child.
Loop == [pc    : {"idle", "claim", "before", "send", "call", "after", "fail", "catch"},
         m     : Monitor \cup {NULL},
         tok   : Token \cup {NULL},
         child : Proc \cup {NULL},
         by    : Nat]

AwaitingChild == {"claim", "before", "after", "fail", "catch"}

Resting == [pc |-> "idle", m |-> NULL, tok |-> NULL, child |-> NULL, by |-> 0]

Alarm(delay) == IF Timely THEN now + delay ELSE 0

NewCommand(op, pc, m, tok, limit) ==
    [op |-> op, pc |-> pc, m |-> m, tok |-> tok, anchor |-> NULL, turn |-> NULL,
     permanent |-> FALSE, result |-> NULL, until |-> 0, by |-> Alarm(limit)]

ClaimCommand == NewCommand("claim", "recover", NULL, NULL, CommandTimeout)
ObserveCommand(m, tok, wait) ==
    [NewCommand("observe", "scan", m, tok, wait + ObserveGrace) EXCEPT !.until = Alarm(wait)]
FailCommand(m, tok) == NewCommand("fail", "fail", m, tok, CommandTimeout)

Running(p) == cmd[p] # Idle
Orphan(p) == Running(p) /\ \A d \in Dispatcher : js[d].child # p

TypeOK ==
    /\ S!TypeOK
    /\ now \in 0..MaxTime
    /\ rollout \in [Thread -> Seq(Monitor \cup {User})]
    /\ archived \subseteq Thread
    /\ calls \subseteq [m : Monitor, tok : Token, by : Nat]
    /\ js \in [Dispatcher -> Loop]
    /\ cmd \in [Proc -> Command \cup {Idle}]
    /\ \A d \in Dispatcher :
         /\ js[d].child # NULL <=> js[d].pc \in AwaitingChild
         /\ js[d].child # NULL => Running(js[d].child)

\* Mutant: off by one, the record that ends at the offset counts.
MutContinuesFrom(t, offset) == {i \in Offset : offset <= i /\ 0 < i /\ i <= Len(rollout[t])}

\* The rollout as the evidence scan sees it: the first exact continue after an
\* offset, whoever sent it.
ContinuesAfter(t, offset) == {i \in Offset : offset < i /\ i <= Len(rollout[t])}
FirstOf(I) == CHOOSE i \in I : \A j \in I : i <= j

-----------------------------------------------------------------------------
(* The steps of a state command.  What it prints or exits with is its      *)
(* result; nobody reads the result of an orphan.                           *)

Goto(p, pc) == cmd' = [cmd EXCEPT ![p].pc = pc]

Finish(p, result) ==
    cmd' = [cmd EXCEPT ![p] = IF Orphan(p) THEN Idle
                              ELSE [@ EXCEPT !.pc = "done", !.result = result]]

\* The last transaction is committed; the command may still fail to log it or to answer.
Ends(p, result) ==
    \/ Finish(p, result)
    \/ "command fails" \in Disturbance /\ Finish(p, "error")

\* DeliveryEvidenceError: on its way to record_dispatch_failure.
Raise(p, permanent) == cmd' = [cmd EXCEPT ![p].pc = "fail", ![p].permanent = permanent]

At(p, op, pc) == Running(p) /\ cmd[p].op = op /\ cmd[p].pc = pc

\* claim_dispatch, first transaction
Recover(p) ==
    /\ At(p, "claim", "recover")
    /\ S!RecoverStale(now)
    /\ Goto(p, "lease")
    /\ UNCHANGED <<now, desktopVars, js>>

\* claim_dispatch, second transaction
Lease(p) ==
    /\ At(p, "claim", "lease")
    /\ \/ \E m \in Monitor, tok \in Token :
            /\ S!ClaimDueDelivery(m, tok, now)
            /\ cmd' = [cmd EXCEPT ![p].pc = "anchor", ![p].m = m, ![p].tok = tok,
                                  ![p].anchor = row[m].delivery_rollout]
       \/ /\ S!Delivering # {} \/ S!DueDeliveries(now) = {}
          /\ Finish(p, "none")
          /\ UNCHANGED storeVars
    /\ UNCHANGED <<now, desktopVars, js>>

\* Validation gives up for good on an archived task, and on a target it finds invalid (no
\* task id, an anchor that resolves to a file that is not the task's); any other failure to
\* read a rollout is worth a retry.
Unreadable(p, t) ==
    \/ Raise(p, FALSE)
    \/ t \in archived /\ Raise(p, TRUE)
    \/ "invalid target" \in Disturbance /\ Raise(p, TRUE)

\* A rollout that has grown beyond what a scan reads is not read again.
BeyondLimit(p) == "scan limit" \in Disturbance /\ Raise(p, TRUE)

\* validate_rollout_anchor of the persisted anchor, or capture_rollout_anchor at
\* the rollout's end.
PrepareAnchor(p) ==
    LET c == cmd[p]
        t == ThreadOf[c.m]
    IN
    /\ At(p, "claim", "anchor")
    /\ \/ Unreadable(p, t)
       \/ /\ t \notin archived
          /\ IF c.anchor # NULL THEN Goto(p, "find")
             ELSE cmd' = [cmd EXCEPT ![p].pc = "record", ![p].anchor = Len(rollout[t])]
    /\ UNCHANGED <<storeVars, now, desktopVars, js>>

\* record_delivery_anchor: whatever anchor is persisted now is validated next.
RecordAnchor(p) ==
    LET c == cmd[p] IN
    /\ At(p, "claim", "record")
    /\ IF S!HoldsClaim(c.m, c.tok, "DELIVERING")
       THEN /\ S!RecordDeliveryAnchor(c.m, c.tok, c.anchor)
            /\ cmd' = [cmd EXCEPT ![p].pc = "anchor",
                                  ![p].anchor = row'[c.m].delivery_rollout]
       ELSE /\ Raise(p, FALSE)
            /\ UNCHANGED storeVars
    /\ UNCHANGED <<now, desktopVars, js>>

\* find_continue_after: adopt a continue that is already there; else, with the
\* context turn, hand out the claim.
FindBeforeSend(p) ==
    LET c == cmd[p]
        found == ContinuesAfter(ThreadOf[c.m], c.anchor)
    IN
    /\ At(p, "claim", "find")
    /\ \/ Raise(p, FALSE)
       \/ BeyondLimit(p)
       \/ /\ ThreadOf[c.m] \notin archived
          /\ IF found = {} THEN Finish(p, "claim")
             ELSE cmd' = [cmd EXCEPT ![p].pc = "succeed", ![p].turn = FirstOf(found)]
    /\ UNCHANGED <<storeVars, now, desktopVars, js>>

\* One round of observe_dispatch; a round that finds nothing before the wait is
\* over changes nothing.
Scan(p) ==
    LET c == cmd[p]
        t == ThreadOf[c.m]
        anchor == row[c.m].delivery_rollout
        found == ContinuesAfter(t, anchor)
    IN
    /\ At(p, "observe", "scan")
    /\ IF ~S!HoldsClaim(c.m, c.tok, "DELIVERING") THEN Finish(p, "stale")
       ELSE \/ Unreadable(p, t)
            \/ BeyondLimit(p)
            \/ /\ t \notin archived /\ found # {}
               /\ cmd' = [cmd EXCEPT ![p].pc = "succeed", ![p].anchor = anchor,
                                     ![p].turn = FirstOf(found)]
            \/ /\ t \notin archived /\ found = {} /\ now >= c.until
               /\ Finish(p, "unconfirmed")
    /\ UNCHANGED <<storeVars, now, desktopVars, js>>

\* delivery_succeeded; claim_dispatch reports no claim either way.
Succeed(p) ==
    LET c == cmd[p]
        held == S!HoldsClaim(c.m, c.tok, "DELIVERING")
    IN
    /\ Running(p) /\ c.pc = "succeed"
    /\ IF held THEN S!DeliverySucceeded(c.m, c.tok, c.anchor, c.turn) ELSE UNCHANGED storeVars
    /\ Ends(p, IF c.op = "claim" THEN "none" ELSE IF held THEN "observed" ELSE "stale")
    /\ UNCHANGED <<now, desktopVars, js>>

\* Mutant: linear, and the first retry at once.
MutBackoffLinear(attempt) == S!Lesser(RetryCap, RetryBase * (attempt - 1))

\* retry_delay
Backoff(attempt) ==
    LET base == IF RetryBase > 1 THEN RetryBase ELSE 1
        cap == IF base > RetryCap THEN base ELSE RetryCap
        exponent == S!Lesser(IF attempt > 1 THEN attempt - 1 ELSE 0, 16)
    IN  S!Lesser(cap, base * 2^exponent)

\* record_dispatch_failure
RecordFailure(m, tok, permanent) ==
    LET attempt == row[m].delivery_attempts
        exhausted == attempt >= (IF MaxAttempts > 1 THEN MaxAttempts ELSE 1)
    IN
    IF permanent THEN S!DeliveryBlocked(m, tok, "not_retryable", now)
    ELSE IF exhausted THEN S!DeliveryBlocked(m, tok, "retry_exhausted", now)
    ELSE S!DeliveryRetry(m, tok, Backoff(attempt), now)

\* The observe command answers "not observed, not stale" after it has recorded
\* the failure; the fail command exits 1 when there was nothing to record.
Fail(p) ==
    LET c == cmd[p]
        held == S!HoldsClaim(c.m, c.tok, "DELIVERING")
    IN
    /\ Running(p) /\ c.pc = "fail"
    /\ IF held THEN RecordFailure(c.m, c.tok, c.permanent) ELSE UNCHANGED storeVars
    /\ Ends(p, CASE c.op = "claim"   -> "none"
                 [] c.op = "observe" -> "unconfirmed"
                 [] c.op = "fail"    -> IF held THEN "recorded" ELSE "unrecorded")
    /\ UNCHANGED <<now, desktopVars, js>>

\* Any exception but DeliveryEvidenceError, before, between or after the transactions (a
\* locked database, a full disk): the command exits non-zero.
CommandFails(p) ==
    /\ "command fails" \in Disturbance
    /\ Running(p) /\ cmd[p].pc # "done"
    /\ Finish(p, "error")
    /\ UNCHANGED <<storeVars, now, desktopVars, js>>

\* A child nobody waits for: it was sent SIGTERM, or dies with the session.
OrphanDies(p) ==
    /\ Orphan(p)
    /\ cmd' = [cmd EXCEPT ![p] = Idle]
    /\ UNCHANGED <<storeVars, now, desktopVars, js>>

CommandStep(p) ==
    \/ Recover(p) \/ Lease(p) \/ PrepareAnchor(p) \/ RecordAnchor(p) \/ FindBeforeSend(p)
    \/ Scan(p) \/ Succeed(p) \/ Fail(p)

-----------------------------------------------------------------------------
(* dispatchOnce.  Awaiting a child ends when its answer is read (Resume) or *)
(* when the timer fires first: the child is sent SIGTERM and left alone.    *)

\* Mutant: `dispatching` is reset, the child is still awaited.
MutRestKeepsChild(d) == js' = [js EXCEPT ![d].pc = "idle"]

Rest(d) == js' = [js EXCEPT ![d] = Resting]

AwaitChild(d, pc, m, tok, p) ==
    js' = [js EXCEPT ![d] = [pc |-> pc, m |-> m, tok |-> tok, child |-> p, by |-> 0]]

AwaitNative(d, pc, limit) ==
    js' = [js EXCEPT ![d].pc = pc, ![d].child = NULL, ![d].by = Alarm(limit)]

\* The 2 s interval timer; `dispatching` keeps it from entering twice.
DispatchOnce(d) ==
    /\ js[d].pc = "idle"
    /\ issued < Cardinality(Token)
    /\ \E p \in Proc :
         /\ ~Running(p)
         /\ cmd' = [cmd EXCEPT ![p] = ClaimCommand]
         /\ AwaitChild(d, "claim", NULL, NULL, p)
    /\ UNCHANGED <<storeVars, now, desktopVars>>

\* The child of d has answered with result.
Answered(d, pc, result) ==
    /\ js[d].pc = pc
    /\ cmd[js[d].child].pc = "done"
    /\ cmd[js[d].child].result = result

Replace(d, command) == cmd' = [cmd EXCEPT ![js[d].child] = command]

\* Nothing to claim or no claim read, delivered or taken over, failure recorded (or not,
\* twice).
EndAttempt(d) ==
    /\ \/ \E result \in {"none", "error"} : Answered(d, "claim", result)
       \/ \E pc \in {"before", "after"}, result \in {"observed", "stale"} : Answered(d, pc, result)
       \/ Answered(d, "fail", "recorded")
       \/ \E result \in {"recorded", "unrecorded", "error"} : Answered(d, "catch", result)
    /\ Replace(d, Idle)
    /\ Rest(d)
    /\ UNCHANGED <<storeVars, now, desktopVars>>

\* A claim: look once more before sending.
ObserveBefore(d) ==
    LET c == cmd[js[d].child] IN
    /\ Answered(d, "claim", "claim")
    /\ Replace(d, ObserveCommand(c.m, c.tok, 0))
    /\ AwaitChild(d, "before", c.m, c.tok, js[d].child)
    /\ UNCHANGED <<storeVars, now, desktopVars>>

\* Neither observed nor stale: sendContinue connects and lists the tools.
BeginSend(d) ==
    /\ Answered(d, "before", "unconfirmed")
    /\ Replace(d, Idle)
    /\ AwaitNative(d, "send", ListTimeout)
    /\ UNCHANGED <<storeVars, now, desktopVars>>

\* The tools/call frame is written to the pipe.
NativeWrite(d) ==
    /\ js[d].pc = "send"
    /\ calls' = calls \cup {[m |-> js[d].m, tok |-> js[d].tok, by |-> Alarm(VisibleDelay)]}
    /\ AwaitNative(d, "call", CallTimeout)
    /\ UNCHANGED <<storeVars, now, rollout, archived, cmd>>

ObserveAfter(d, wait) ==
    /\ \E p \in Proc :
         /\ ~Running(p)
         /\ cmd' = [cmd EXCEPT ![p] = ObserveCommand(js[d].m, js[d].tok, wait)]
         /\ AwaitChild(d, "after", js[d].m, js[d].tok, p)
    /\ UNCHANGED <<storeVars, now, desktopVars>>

\* success: true came back
NativeReturn(d) == js[d].pc = "call" /\ ObserveAfter(d, ConfirmWait)

\* Refused, disconnected or timed out, before the frame was written or after.
NativeError(d) == js[d].pc \in {"send", "call"} /\ ObserveAfter(d, ErrorWait)

\* send_unconfirmed or native_pipe_error
RecordFailed(d) ==
    /\ Answered(d, "after", "unconfirmed")
    /\ Replace(d, FailCommand(js[d].m, js[d].tok))
    /\ AwaitChild(d, "fail", js[d].m, js[d].tok, js[d].child)
    /\ UNCHANGED <<storeVars, now, desktopVars>>

\* A command exited non-zero with a claim in hand; the fail command does so when it has
\* nothing to record.
Rejected(d) ==
    \/ Answered(d, "fail", "unrecorded")
    \/ \E pc \in {"before", "after", "fail"} : Answered(d, pc, "error")

\* Mutant: a failure that cannot be recorded is recorded again.
MutCatchErrorRetries(d) ==
    /\ Rejected(d)
    /\ Replace(d, FailCommand(js[d].m, js[d].tok))
    /\ AwaitChild(d, "fail", js[d].m, js[d].tok, js[d].child)
    /\ UNCHANGED <<storeVars, now, desktopVars>>

\* An exception like any other: dispatcher_error.
CatchError(d) ==
    /\ Rejected(d)
    /\ Replace(d, FailCommand(js[d].m, js[d].tok))
    /\ AwaitChild(d, "catch", js[d].m, js[d].tok, js[d].child)
    /\ UNCHANGED <<storeVars, now, desktopVars>>

TimedOut(d, pc) == js[d].pc = pc /\ cmd[js[d].child].by <= now

\* No claim was read, or the failure could not be recorded: the lease decides.
GiveUp(d) ==
    /\ TimedOut(d, "claim") \/ TimedOut(d, "catch")
    /\ Rest(d)
    /\ UNCHANGED <<storeVars, now, desktopVars, cmd>>

CatchTimeout(d) ==
    /\ \E pc \in {"before", "after", "fail"} : TimedOut(d, pc)
    /\ \E p \in Proc :
         /\ ~Running(p)
         /\ cmd' = [cmd EXCEPT ![p] = FailCommand(js[d].m, js[d].tok)]
         /\ AwaitChild(d, "catch", js[d].m, js[d].tok, p)
    /\ UNCHANGED <<storeVars, now, desktopVars>>

LoopStep(d) ==
    \/ EndAttempt(d) \/ ObserveBefore(d) \/ BeginSend(d) \/ NativeWrite(d) \/ NativeReturn(d)
    \/ NativeError(d) \/ RecordFailed(d) \/ CatchError(d) \/ GiveUp(d) \/ CatchTimeout(d)

\* Desktop or the MCP server goes away and is started again; the child runs on.
Crash(d) ==
    /\ "crash" \in Disturbance
    /\ js[d] # Resting
    /\ Rest(d)
    /\ UNCHANGED <<storeVars, now, desktopVars, cmd>>

-----------------------------------------------------------------------------
(* Desktop, the user, the LaunchAgent and the clock. *)

Appended(t, author) ==
    /\ t \notin archived
    /\ Len(rollout[t]) < MaxRollout
    /\ rollout' = [rollout EXCEPT ![t] = Append(@, author)]

\* An accepted message becomes a turn of the task.
DesktopAppends(c) ==
    /\ Appended(ThreadOf[c.m], c.m)
    /\ calls' = calls \ {c}
    /\ UNCHANGED <<storeVars, now, archived, js, cmd>>

\* Refused, cancelled or lost with the connection.
DesktopDrops(c) ==
    /\ calls' = calls \ {c}
    /\ UNCHANGED <<storeVars, now, rollout, archived, js, cmd>>

UserContinues(t) ==
    /\ "user continues" \in Disturbance
    /\ Appended(t, User)
    /\ UNCHANGED <<storeVars, now, archived, calls, js, cmd>>

Archive(t) ==
    /\ "archive" \in Disturbance
    /\ archived' = archived \cup {t}
    /\ UNCHANGED <<storeVars, now, rollout, calls, js, cmd>>

UserCancels(m) ==
    /\ "cancel" \in Disturbance
    /\ S!Cancel(m, now)
    /\ UNCHANGED <<now, desktopVars, js, cmd>>

\* run_once of the LaunchAgent
DaemonRecovers ==
    /\ "recovery" \in Disturbance
    /\ S!RecoverStale(now)
    /\ UNCHANGED <<now, desktopVars, js, cmd>>

Overdue ==
    \/ \E p \in Proc : Running(p) /\ cmd[p].by <= now
    \/ \E d \in Dispatcher : js[d].pc \in {"send", "call"} /\ js[d].by <= now
    \/ \E c \in calls : c.by <= now

Tick ==
    /\ now < MaxTime
    /\ Timely => ~Overdue
    /\ now' = now + 1
    /\ UNCHANGED <<storeVars, desktopVars, js, cmd>>

-----------------------------------------------------------------------------

Init ==
    /\ row = [m \in Monitor |-> [S!NoRow EXCEPT !.state = "DELIVERY_PENDING",
                                                !.wake_reason = "success",
                                                !.next_delivery_at = 0]]
    /\ issued = 0
    /\ now = 0
    /\ rollout = [t \in Thread |-> <<>>]
    /\ archived = {}
    /\ calls = {}
    /\ js = [d \in Dispatcher |-> Resting]
    /\ cmd = [p \in Proc |-> Idle]

Next ==
    \/ \E d \in Dispatcher : DispatchOnce(d) \/ LoopStep(d) \/ Crash(d)
    \/ \E p \in Proc : CommandStep(p) \/ CommandFails(p) \/ OrphanDies(p)
    \/ \E c \in calls : DesktopAppends(c) \/ DesktopDrops(c)
    \/ \E t \in Thread : UserContinues(t) \/ Archive(t)
    \/ \E m \in Monitor : UserCancels(m)
    \/ DaemonRecovers
    \/ Tick

Spec == Init /\ [][Next]_vars

-----------------------------------------------------------------------------
(* Safety. *)

\* README: "accepts success only after observing an exact new `continue` after
\* that offset".  A delivered row names the first continue its task shows after
\* the anchor on the row, whatever was lost, retried or reordered before.
DeliveredOnEvidence ==
    \A m \in Monitor :
        row[m].state = "DELIVERED" =>
            /\ row[m].delivery_rollout # NULL
            /\ row[m].started_turn_id = row[m].delivery_rollout + 1
            /\ row[m].started_turn_id <= Len(rollout[ThreadOf[m]])

\* A message sent for a monitor, shown or still on its way, lies after the
\* anchor of the row for as long as the row may be retried: the anchor was
\* persisted before the first send and never moves, so no later attempt can
\* overlook what an earlier one sent.
AnchorCoversSends ==
    \A m \in Monitor :
        LET t == ThreadOf[m]
            anchor == row[m].delivery_rollout
        IN
        /\ \A i \in 1..Len(rollout[t]) : rollout[t][i] = m => anchor # NULL /\ anchor < i
        /\ \A c \in calls : c.m = m => anchor # NULL /\ anchor <= Len(rollout[t])

\* While a dispatcher is about to write to the native pipe, no other attempt
\* holds the claim of its monitor: the timeouts of one attempt add up to less
\* than the lease, and to less than the backoff when the claim is already lost.
\* Cancelling does not stop a send under way; being claimed again would.
SendsAlone ==
    \A d \in Dispatcher :
        js[d].pc = "send" => row[js[d].m].claim_token \in {NULL, js[d].tok}

\* README: "the next attempt adopts the already-visible message instead of
\* sending a duplicate".  However attempts crash, time out and are retried, a
\* task never shows two continues sent for one monitor.
NoDuplicateContinue ==
    \A m \in Monitor, i, j \in Offset :
        LET shown == rollout[ThreadOf[m]] IN
        {i, j} \subseteq DOMAIN shown /\ shown[i] = m /\ shown[j] = m => i = j

Budget == IF MaxAttempts > 1 THEN MaxAttempts ELSE 1

\* --retry-seconds (one at least) after the first attempt, twice as long after each further
\* one, sixteen times at most and never beyond --max-retry-seconds.
WaitAfter(attempts) ==
    LET least == IF RetryBase > 1 THEN RetryBase ELSE 1
        most == IF least > RetryCap THEN least ELSE RetryCap
    IN  S!Lesser(most, IF attempts > 16 THEN least * 2^16 ELSE least * 2^(attempts - 1))

\* A row before and after a step.
Spaced(r, q) ==
    /\ q.claim_token \notin {NULL, r.claim_token} =>
         /\ r.state = "DELIVERY_PENDING" /\ r.next_delivery_at <= now
         /\ q.delivery_attempts = r.delivery_attempts + 1
    /\ r.state = "DELIVERY_PENDING" /\ q.state = "DELIVERY_PENDING" =>
         q.next_delivery_at = r.next_delivery_at
    /\ r.state = "DELIVERING" /\ q.state = "DELIVERY_PENDING" =>
         /\ q.delivery_attempts = r.delivery_attempts
         /\ \/ r.claim_expires_at <= now /\ q.next_delivery_at = now
            \/ /\ r.delivery_attempts < Budget
               /\ q.next_delivery_at = now + WaitAfter(r.delivery_attempts)

\* Attempts at a delivery are as far apart as the backoff says, whichever processes crash,
\* answer late or recover leases in between: an attempt whose failure was recorded is followed
\* after WaitAfter, within the budget; one that left no word is followed when its lease has
\* run out, and then at once; and nothing brings a waiting row forward or puts it off.
RetriesSpaced == [][\A m \in Monitor : Spaced(row[m], row'[m])]_vars

-----------------------------------------------------------------------------
(* What the repository says and the code does not do. *)

\* README: "archived or invalid targets open a terminal circuit breaker": once
\* the breaker is open, nothing is sent for the monitor.
BreakerStopsSend ==
    [][\A d \in Dispatcher : NativeWrite(d) => row[js[d].m].delivery_blocked_reason = NULL]_vars

\* test_retry_budget_exhaustion_is_terminal: a monitor is not attempted more
\* than --max-delivery-attempts times.
AttemptsWithinBudget == \A m \in Monitor : row[m].delivery_attempts <= MaxAttempts

-----------------------------------------------------------------------------
(* Liveness. *)

\* Timers fire, children run and exit, pipes answer or fail, the LaunchAgent is kept
\* alive and the clock advances; Desktop need not show or drop anything
\* unless it is Timely, and nothing is assumed of crashes and users.
Fairness ==
    /\ \A d \in Dispatcher : WF_vars(DispatchOnce(d)) /\ WF_vars(LoopStep(d))
    /\ \A p \in Proc : /\ WF_vars(CommandStep(p))
                       /\ WF_vars(Running(p) /\ cmd[p].pc = "done" /\ OrphanDies(p))
    /\ WF_vars(DaemonRecovers)
    /\ WF_vars(Tick)
    /\ WF_vars(\E c \in calls : Timely /\ c.by <= now /\ (DesktopAppends(c) \/ DesktopDrops(c)))

FairSpec == Spec /\ Fairness

\* dispatchOnce always comes to its `finally`: whichever await is refused,
\* answered or timed out, the dispatcher polls again.
AttemptEnds == \A d \in Dispatcher : js[d].pc # "idle" ~> js[d].pc = "idle"

Owed(m) == row[m].state \in {"DELIVERY_PENDING", "DELIVERING"}

\* The next step of a delivery lies outside of the model: it takes another claim, or a time
\* after MaxTime, because the row waits for it or because nobody is left to end the attempt
\* before its lease does.
BeyondBounds ==
    \E m \in Monitor :
        \/ /\ row[m].state = "DELIVERY_PENDING"
           /\ issued = Cardinality(Token) \/ row[m].next_delivery_at > MaxTime
        \/ /\ row[m].state = "DELIVERING" /\ row[m].claim_expires_at > MaxTime
           /\ \A d \in Dispatcher : js[d] = Resting

\* Once dispatchers no longer die and commands no longer fail, every delivery that is owed
\* ends: it is delivered or blocked, whatever Desktop does with the messages, in whichever
\* step attempts before that died, with the claims and orphans they left behind, and with the
\* claims that had to be taken again.  The one claim the table allows is always given back.
DeliveryEnds ==
    /\ <>[][\A d \in Dispatcher : ~Crash(d)]_vars
    /\ <>[][\A p \in Proc : ~CommandFails(p)]_vars
    => \A m \in Monitor : Owed(m) ~> ~Owed(m) \/ BeyondBounds
=============================================================================
