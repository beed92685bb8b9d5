--------------------------- MODULE DispatchProofs ---------------------------
(***************************************************************************)
(* Proofs about module Dispatch, for any number of monitors, tasks,        *)
(* dispatchers, state commands and claims, and any leases and timeouts,    *)
(* met or not.                                                             *)
(*                                                                         *)
(* That a delivery is never reported without evidence, nor evidence        *)
(* overlooked, rests on one fact about the table (an anchor that was       *)
(* recorded never moves) and one about every process: whoever may still    *)
(* send or report works on a row whose anchor was recorded before.  The    *)
(* second is not visible in the properties; GoodCommand and GoodLoop state *)
(* it for children that are alive, orphaned or about to be read.           *)
(*                                                                         *)
(* That an attempt ends in a bounded number of its own steps is a measure, *)
(* and it needs the protocol between dispatcher and commands: each command *)
(* keeps to its stages and answers in words its caller knows.              *)
(***************************************************************************)
EXTENDS Dispatch, FiniteSetTheorems, TLAPS

\* The proofs about the table; the parameters are those of S.
T == INSTANCE StoreProofs WITH
        Time <- 0..MaxTime, Interval <- {}, Timeout <- {}, CheckLease <- 0,
        RetryDelay <- Nat, Anchor <- Offset, Turn <- Offset

-----------------------------------------------------------------------------
(* The inductive invariant.  Tables r and rollouts s are arguments, so that *)
(* a command can be judged by the state a step leads to.                   *)

AnchorIn(r, m) == r[m].delivery_rollout
Shown(s, m) == Len(s[ThreadOf[m]])

GoodCommand(c, r, s) ==
    /\ c.result # NULL => c.pc = "done"
    /\ c.pc \notin {"recover", "lease", "done"} \/ c.result = "claim" \/ c.op = "observe" =>
         c.m # NULL /\ c.tok # NULL
    /\ c.result = "claim" \/ c.op = "observe" => AnchorIn(r, c.m) # NULL
    /\ c.pc = "anchor" /\ c.anchor # NULL => c.anchor = AnchorIn(r, c.m)
    /\ c.pc = "record" => c.anchor # NULL /\ c.anchor <= Shown(s, c.m)
    /\ c.pc \in {"find", "succeed"} => c.anchor # NULL /\ c.anchor = AnchorIn(r, c.m)
    /\ c.pc = "succeed" => c.turn # NULL /\ c.turn = c.anchor + 1 /\ c.turn <= Shown(s, c.m)

\* From the observation before the send on, the dispatcher works on an anchored row.
GoodLoop(j, r) ==
    j.pc \notin {"idle", "claim"} => j.m # NULL /\ j.tok # NULL /\ AnchorIn(r, j.m) # NULL

ProcessesOK ==
    /\ js \in [Dispatcher -> Loop]
    /\ cmd \in [Proc -> Command \cup {Idle}]
    /\ \A d \in Dispatcher :
         /\ js[d].child # NULL <=> js[d].pc \in AwaitingChild
         /\ js[d].child # NULL => Running(js[d].child)
         /\ GoodLoop(js[d], row)
    /\ \A p \in Proc : Running(p) => GoodCommand(cmd[p], row, rollout)
    \* No child has two parents.
    /\ \A d, e \in Dispatcher : d # e /\ js[d].child = js[e].child => js[d].child = NULL

DesktopOK ==
    /\ now \in 0..MaxTime
    /\ rollout \in [Thread -> Seq(Monitor \cup {User})]
    /\ archived \subseteq Thread
    /\ calls \subseteq [m : Monitor, tok : Token, by : Nat]
    /\ \A t \in Thread : Len(rollout[t]) <= MaxRollout
    /\ \A m \in Monitor : AnchorIn(row, m) # NULL => AnchorIn(row, m) <= Shown(rollout, m)
    /\ AnchorCoversSends
    /\ DeliveredOnEvidence

IInv == T!IInv /\ DesktopOK /\ ProcessesOK

-----------------------------------------------------------------------------
(* Constants and helpers. *)

\* The parameters of the table meet its assumption.
LEMMA TableAssumption == T!StoreAssumption
BY DispatchAssumption
   DEF DispatchAssumption, T!StoreAssumption, Offset, T!WakeReason, S!WakeReason

LEMMA ConstantsTyped ==
    /\ ThreadOf \in [Monitor -> Thread]
    /\ DeliveryLease \in Nat /\ RetryBase \in Nat /\ RetryCap \in Nat /\ MaxAttempts \in Nat
    /\ CommandTimeout \in Nat /\ ObserveGrace \in Nat /\ ConfirmWait \in Nat /\ ErrorWait \in Nat
    /\ ListTimeout \in Nat /\ CallTimeout \in Nat /\ VisibleDelay \in Nat
    /\ MaxRollout \in Nat /\ MaxTime \in Nat
    /\ Offset \subseteq Nat
    /\ User \notin Monitor
    /\ NULL \notin Offset /\ NULL \notin Nat /\ NULL \notin Monitor /\ NULL \notin Proc
    /\ NULL \notin Token /\ NULL # "claim"
<1> DEFINE Numbers == {DeliveryLease, RetryBase, RetryCap, MaxAttempts, CommandTimeout, ObserveGrace,
                       ConfirmWait, ErrorWait, ListTimeout, CallTimeout, VisibleDelay, MaxRollout,
                       MaxTime}
<1>1. Numbers \subseteq Nat
  BY DispatchAssumption DEF DispatchAssumption
<1>2. \A n \in Numbers : n \in Nat
  BY <1>1
<1>3. /\ DeliveryLease \in Nat /\ RetryBase \in Nat /\ RetryCap \in Nat /\ MaxAttempts \in Nat
      /\ CommandTimeout \in Nat /\ ObserveGrace \in Nat /\ ConfirmWait \in Nat /\ ErrorWait \in Nat
      /\ ListTimeout \in Nat /\ CallTimeout \in Nat /\ VisibleDelay \in Nat
      /\ MaxRollout \in Nat /\ MaxTime \in Nat
  BY <1>2, Zenon
<1>4. Offset \subseteq Nat
  BY <1>3 DEF Offset
<1>5. QED
  BY <1>3, <1>4, DispatchAssumption DEF DispatchAssumption, Result

\* Powers of two are natural numbers: they count subsets.
LEMMA PowerOfTwo == 2^0 = 1 /\ \A n \in Nat : 2^n \in Nat \ {0}
<1>1. 2^0 = 1
  <2>1. IsFiniteSet({}) /\ Cardinality({}) = 0
    BY FS_EmptySet
  <2>2. Cardinality(SUBSET {}) = 2^0
    BY <2>1, FS_SUBSET
  <2>3. SUBSET {} = {{}}
    OBVIOUS
  <2>4. QED
    BY <2>2, <2>3, FS_Singleton
<1>2. ASSUME NEW n \in Nat PROVE 2^n \in Nat \ {0}
  <2>1. IsFiniteSet(1..n) /\ Cardinality(1..n) = n
    BY FS_Interval
  <2>2. IsFiniteSet(SUBSET (1..n)) /\ Cardinality(SUBSET (1..n)) = 2^n
    BY <2>1, FS_SUBSET
  <2>3. {} \in SUBSET (1..n)
    OBVIOUS
  <2>4. QED
    BY <2>2, <2>3, FS_CardinalityType, FS_EmptySet
<1>3. QED
  BY <1>1, <1>2

\* retry_delay returns a delay, whatever its arguments.
LEMMA BackoffNat == ASSUME NEW attempt \in Nat PROVE Backoff(attempt) \in Nat
<1> DEFINE base == IF RetryBase > 1 THEN RetryBase ELSE 1
           cap == IF base > RetryCap THEN base ELSE RetryCap
           exponent == S!Lesser(IF attempt > 1 THEN attempt - 1 ELSE 0, 16)
<1>1. base \in Nat /\ cap \in Nat
  BY ConstantsTyped
<1>2. exponent \in Nat
  BY DEF S!Lesser
<1>3. 2^exponent \in Nat
  BY <1>2, PowerOfTwo
<1> HIDE DEF base, cap, exponent
<1>4. base * 2^exponent \in Nat
  BY <1>1, <1>3
<1>5. S!Lesser(cap, base * 2^exponent) \in Nat
  BY <1>1, <1>4 DEF S!Lesser
<1>6. QED
  BY <1>5 DEF Backoff, base, cap, exponent

\* The first continue after an anchor is the record right behind it.
LEMMA FirstAfter ==
    ASSUME NEW t, Len(rollout[t]) \in Nat, NEW a \in Offset, ContinuesAfter(t, a) # {}
    PROVE  /\ FirstOf(ContinuesAfter(t, a)) = a + 1
           /\ a + 1 \in Offset
           /\ a + 1 <= Len(rollout[t])
<1> DEFINE I == ContinuesAfter(t, a)
<1>1. I \subseteq Offset /\ \A i \in I : a < i /\ i <= Len(rollout[t])
  BY DEF ContinuesAfter
<1>2. a + 1 \in I /\ \A j \in I : a + 1 <= j
  <2>1. PICK i \in Offset : a < i /\ i <= Len(rollout[t])
    BY DEF ContinuesAfter
  <2>2. a + 1 \in Offset /\ a + 1 <= i /\ a < a + 1
    BY <2>1, ConstantsTyped DEF Offset
  <2>3. a + 1 <= Len(rollout[t])
    BY <2>1, <2>2, ConstantsTyped DEF Offset
  <2>4. a + 1 \in I
    BY <2>2, <2>3 DEF ContinuesAfter
  <2>5. QED
    BY <1>1, <2>4, ConstantsTyped DEF Offset
<1> HIDE DEF I
<1>3. ASSUME NEW i \in I, \A j \in I : i <= j PROVE i = a + 1
  <2>1. i <= a + 1 /\ a + 1 <= i
    BY <1>2, <1>3
  <2>2. i \in Nat /\ a \in Nat
    BY <1>1, ConstantsTyped
  <2>3. QED
    BY <2>1, <2>2
<1>4. FirstOf(I) = a + 1
  BY <1>2, <1>3 DEF FirstOf
<1>5. QED
  BY <1>1, <1>2, <1>4 DEF I

-----------------------------------------------------------------------------
(* The table.  Every call a step makes is one of the table's own steps, and *)
(* what it does to the evidence on the rows.                               *)

\* What no call may undo: an anchor that is recorded, evidence that is.
TableStep ==
    /\ [T!Next]_(T!vars)
    /\ \A m \in Monitor :
         /\ AnchorIn(row, m) # NULL => AnchorIn(row', m) = AnchorIn(row, m)
         /\ AnchorIn(row', m) # NULL => AnchorIn(row', m) <= Shown(rollout, m)
         /\ row'[m].state = "DELIVERED" =>
              /\ AnchorIn(row', m) # NULL
              /\ row'[m].started_turn_id = AnchorIn(row', m) + 1
              /\ row'[m].started_turn_id <= Shown(rollout, m)

\* A row keeps the evidence it has.
SameEvidence(q, r) ==
    /\ q.delivery_rollout = r.delivery_rollout
    /\ q.started_turn_id = r.started_turn_id
    /\ q.state = "DELIVERED" => r.state = "DELIVERED"

LEMMA RowTyped ==
    ASSUME T!IInv, NEW m \in Monitor
    PROVE  /\ row[m] \in T!Row
           /\ row \in [Monitor -> T!Row]
           /\ row[m].delivery_attempts \in Nat
           /\ row[m].delivery_rollout \in Offset \cup {NULL}
           /\ row[m].started_turn_id \in Offset \cup {NULL}
BY DEF T!IInv, T!TypeOK, T!Row, T!Null

\* A call that leaves the evidence alone is a step of the table.
LEMMA QuietCall ==
    ASSUME IInv, [T!Next]_(T!vars), \A m \in Monitor : SameEvidence(row'[m], row[m])
    PROVE  TableStep
BY DEF IInv, DesktopOK, DeliveredOnEvidence, TableStep, SameEvidence, AnchorIn, Shown

\* A call writes the row of one monitor.
LEMMA OneRowCall ==
    ASSUME IInv, [T!Next]_(T!vars), NEW m \in Monitor, NEW q, SameEvidence(q, row[m]),
           row' = [row EXCEPT ![m] = q]
    PROVE  TableStep
<1>1. \A n \in Monitor : SameEvidence(row'[n], row[n])
  <2>1. row \in [Monitor -> T!Row]
    BY RowTyped DEF IInv
  <2>2. QED
    BY <2>1 DEF SameEvidence
<1>2. QED
  BY <1>1, QuietCall

\* recover_stale
LEMMA RecoverCall == ASSUME IInv, S!RecoverStale(now) PROVE TableStep
<1>1. T!Step(now)
  BY DEF S!RecoverStale, T!Step, T!RecoverStale, S!Recovered, T!Recovered, S!Released, T!Released,
         S!Expired, T!Expired
<1>2. [T!Next]_(T!vars)
  BY <1>1 DEF T!Next, IInv, DesktopOK
<1>3. ASSUME NEW m \in Monitor PROVE SameEvidence(row'[m], row[m])
  <2>1. row[m] \in T!Row
    BY RowTyped DEF IInv
  <2>2. row'[m] = S!Recovered(row[m], now)
    BY DEF S!RecoverStale
  <2>3. QED
    BY <2>1, <2>2 DEF S!Recovered, S!Released, SameEvidence, T!Row
<1>4. QED
  BY <1>2, <1>3, QuietCall

\* claim_due_delivery
LEMMA ClaimCall ==
    ASSUME IInv, NEW m \in Monitor, NEW tok \in Token, S!ClaimDueDelivery(m, tok, now)
    PROVE  TableStep
<1>1. T!ClaimDueDelivery(m, tok, now)
  BY DEF S!ClaimDueDelivery, T!ClaimDueDelivery, S!Delivering, T!Delivering,
         S!FirstDueDeliveries, T!FirstDueDeliveries, S!DueDeliveries, T!DueDeliveries,
         S!DeliveryBefore, T!DeliveryBefore, S!FreshToken, T!FreshToken, S!Claimed, T!Claimed
<1>2. [T!Next]_(T!vars)
  BY <1>1 DEF T!Next, T!Step, IInv, DesktopOK
<1> DEFINE q == [S!Claimed(row[m], "DELIVERING", tok, now + DeliveryLease)
                   EXCEPT !.delivery_attempts = @ + 1]
<1>3. row' = [row EXCEPT ![m] = q]
  BY DEF S!ClaimDueDelivery
<1>4. SameEvidence(q, row[m])
  BY RowTyped DEF IInv, S!Claimed, SameEvidence, T!Row
<1> HIDE DEF q
<1>5. QED
  BY <1>2, <1>3, <1>4, OneRowCall

\* delivery_retry
LEMMA RetryCall ==
    ASSUME IInv, NEW m \in Monitor, NEW tok \in Token, NEW delay \in Nat,
           S!DeliveryRetry(m, tok, delay, now)
    PROVE  TableStep
<1>1. T!DeliveryRetry(m, tok, delay, now)
  BY DEF S!DeliveryRetry, T!DeliveryRetry, S!HoldsClaim, T!HoldsClaim, S!Retried, T!Retried,
         S!Released, T!Released
<1>2. [T!Next]_(T!vars)
  BY <1>1 DEF T!Next, T!Step, T!ClaimHolder, IInv, DesktopOK
<1>3. SameEvidence(S!Retried(row[m], delay, now), row[m])
  BY RowTyped DEF IInv, S!Retried, S!Released, SameEvidence, T!Row
<1>4. QED
  BY <1>2, <1>3, OneRowCall DEF S!DeliveryRetry

\* delivery_blocked
LEMMA BlockedCall ==
    ASSUME IInv, NEW m \in Monitor, NEW tok \in Token, NEW reason \in BlockReason,
           S!DeliveryBlocked(m, tok, reason, now)
    PROVE  TableStep
<1>1. T!DeliveryBlocked(m, tok, reason, now)
  BY DEF S!DeliveryBlocked, T!DeliveryBlocked, S!HoldsClaim, T!HoldsClaim, S!Blocked, T!Blocked,
         S!Released, T!Released
<1>2. [T!Next]_(T!vars)
  BY <1>1 DEF T!Next, T!Step, T!ClaimHolder, IInv, DesktopOK
<1>3. SameEvidence(S!Blocked(row[m], reason, now), row[m])
  BY RowTyped DEF IInv, S!Blocked, S!Released, SameEvidence, T!Row
<1>4. QED
  BY <1>2, <1>3, OneRowCall DEF S!DeliveryBlocked

\* cancel
LEMMA CancelCall == ASSUME IInv, NEW m \in Monitor, S!Cancel(m, now) PROVE TableStep
<1>1. T!Cancel(m, now)
  BY DEF S!Cancel, T!Cancel, S!Cancelled, T!Cancelled, S!Released, T!Released,
         S!ActiveStates, T!ActiveStates
<1>2. [T!Next]_(T!vars)
  BY <1>1 DEF T!Next, T!Step, IInv, DesktopOK
<1>3. SameEvidence(S!Cancelled(row[m], now), row[m])
  BY RowTyped DEF IInv, S!Cancelled, S!Released, SameEvidence, T!Row
<1>4. QED
  BY <1>2, <1>3, OneRowCall DEF S!Cancel

\* record_delivery_anchor, of an offset the rollout has reached
LEMMA AnchorCall ==
    ASSUME IInv, NEW m \in Monitor, NEW tok \in Token, NEW a \in Offset,
           S!RecordDeliveryAnchor(m, tok, a), a <= Shown(rollout, m)
    PROVE  TableStep /\ row'[m].delivery_rollout # NULL
<1>1. T!RecordDeliveryAnchor(m, tok, a)
  BY DEF S!RecordDeliveryAnchor, T!RecordDeliveryAnchor, S!HoldsClaim, T!HoldsClaim,
         S!Anchored, T!Anchored
<1>2. [T!Next]_(T!vars)
  BY <1>1 DEF T!Next, T!Step, T!ClaimHolder, IInv, DesktopOK
<1> DEFINE q == S!Anchored(row[m], a)
<1>3. /\ q.delivery_rollout = IF row[m].delivery_rollout = NULL THEN a ELSE row[m].delivery_rollout
      /\ q.started_turn_id = row[m].started_turn_id
      /\ q.state = "DELIVERING"
  BY RowTyped DEF IInv, S!Anchored, T!Row, S!RecordDeliveryAnchor, S!HoldsClaim
<1>4. row' = [row EXCEPT ![m] = q] /\ row \in [Monitor -> T!Row]
  BY RowTyped DEF S!RecordDeliveryAnchor, IInv
<1> HIDE DEF q
<1>5. row'[m] = q /\ \A n \in Monitor : n # m => row'[n] = row[n]
  BY <1>4
<1>6. QED
  BY <1>2, <1>3, <1>5, ConstantsTyped
     DEF IInv, DesktopOK, DeliveredOnEvidence, TableStep, AnchorIn, Shown

\* delivery_succeeded, with the anchor on the row and the record right behind it
LEMMA SucceededCall ==
    ASSUME IInv, NEW m \in Monitor, NEW tok \in Token, NEW a \in Offset, NEW t \in Offset,
           S!DeliverySucceeded(m, tok, a, t),
           a = AnchorIn(row, m), t = a + 1, t <= Shown(rollout, m)
    PROVE  TableStep
<1>1. T!DeliverySucceeded(m, tok, a, t)
  BY DEF S!DeliverySucceeded, T!DeliverySucceeded, S!HoldsClaim, T!HoldsClaim,
         S!Delivered, T!Delivered, S!Released, T!Released
<1>2. [T!Next]_(T!vars)
  BY <1>1 DEF T!Next, T!Step, T!ClaimHolder, IInv, DesktopOK
<1> DEFINE q == S!Delivered(row[m], a, t)
<1>3. q.delivery_rollout = a /\ q.started_turn_id = t
  BY RowTyped DEF IInv, S!Delivered, S!Released, T!Row
<1>4. row' = [row EXCEPT ![m] = q] /\ row \in [Monitor -> T!Row]
  BY RowTyped DEF S!DeliverySucceeded, IInv
<1> HIDE DEF q
<1>5. row'[m] = q /\ \A n \in Monitor : n # m => row'[n] = row[n]
  BY <1>4
<1>6. QED
  BY <1>2, <1>3, <1>5, ConstantsTyped
     DEF IInv, DesktopOK, DeliveredOnEvidence, TableStep, AnchorIn, Shown

-----------------------------------------------------------------------------
(* Processes.  Anchors stay and rollouts grow, so what is known of a command *)
(* or a loop stays true while others run.                                  *)

Grown ==
    /\ \A m \in Monitor : AnchorIn(row, m) # NULL => AnchorIn(row', m) = AnchorIn(row, m)
    /\ \A m \in Monitor : Shown(rollout, m) \in Nat /\ Shown(rollout', m) \in Nat
    /\ \A m \in Monitor : Shown(rollout, m) <= Shown(rollout', m)

LEMMA ShownTyped ==
    ASSUME DesktopOK, NEW m \in Monitor
    PROVE  /\ ThreadOf[m] \in Thread
           /\ rollout[ThreadOf[m]] \in Seq(Monitor \cup {User})
           /\ Shown(rollout, m) \in Nat
           /\ Shown(rollout, m) \in Offset
<1>1. ThreadOf[m] \in Thread
  BY ConstantsTyped
<1>2. rollout[ThreadOf[m]] \in Seq(Monitor \cup {User}) /\ Len(rollout[ThreadOf[m]]) <= MaxRollout
  BY <1>1 DEF DesktopOK
<1>3. QED
  BY <1>1, <1>2, ConstantsTyped DEF Shown, Offset

\* A call on the table lets no process down.
LEMMA CallGrows == ASSUME IInv, TableStep, UNCHANGED rollout PROVE Grown
BY ShownTyped DEF TableStep, Grown, Shown, IInv

LEMMA NothingGrows == ASSUME IInv, UNCHANGED <<row, rollout>> PROVE Grown
BY ShownTyped DEF Grown, Shown, IInv

\* A command stays good while others run.
LEMMA CommandStaysGood ==
    ASSUME Grown, NEW c \in Command, GoodCommand(c, row, rollout)
    PROVE  GoodCommand(c, row', rollout')
<1>1. /\ c.m \in Monitor \cup {NULL}
      /\ c.anchor \in Offset \cup {NULL}
      /\ c.turn \in Offset \cup {NULL}
  BY DEF Command
<1>2. /\ c.result = "claim" \/ c.op = "observe" => c.m # NULL
      /\ c.pc \in {"anchor", "record", "find", "succeed"} => c.m # NULL
  BY DEF GoodCommand, Command
<1>3. c.m # NULL =>
        /\ AnchorIn(row, c.m) # NULL => AnchorIn(row', c.m) = AnchorIn(row, c.m)
        /\ Shown(rollout, c.m) \in Nat /\ Shown(rollout', c.m) \in Nat
        /\ Shown(rollout, c.m) <= Shown(rollout', c.m)
  BY <1>1 DEF Grown
<1>4. /\ c.pc = "record" => c.anchor # NULL /\ c.anchor <= Shown(rollout', c.m)
      /\ c.pc = "succeed" => c.turn # NULL /\ c.turn <= Shown(rollout', c.m)
  <2>1. c.anchor # NULL => c.anchor \in Nat
    BY <1>1, ConstantsTyped
  <2>2. c.turn # NULL => c.turn \in Nat
    BY <1>1, ConstantsTyped
  <2>3. QED
    BY <1>2, <1>3, <2>1, <2>2 DEF GoodCommand
<1>5. QED
  BY <1>2, <1>3, <1>4 DEF GoodCommand

LEMMA LoopStaysGood ==
    ASSUME Grown, NEW j \in Loop, GoodLoop(j, row)
    PROVE  GoodLoop(j, row')
BY DEF Grown, GoodLoop, Loop

\* An idle slot is no command.
LEMMA IdleIsNone == Idle \notin Command
BY DEF Idle, Command

\* The desktop, the clock or the table moves.
LEMMA ProcessesKept ==
    ASSUME ProcessesOK, Grown, UNCHANGED <<js, cmd>>
    PROVE  ProcessesOK'
<1>1. \A d \in Dispatcher : js[d] \in Loop /\ GoodLoop(js[d], row')
  BY LoopStaysGood DEF ProcessesOK
<1>2. \A p \in Proc : Running(p) => GoodCommand(cmd[p], row', rollout')
  BY CommandStaysGood DEF ProcessesOK, Running
<1>3. QED
  BY <1>1, <1>2 DEF ProcessesOK, Running

\* A command moves on, or ends with nobody waiting for it.
LEMMA CommandWrites ==
    ASSUME ProcessesOK, Grown, UNCHANGED js, NEW p \in Proc, Running(p), NEW c,
           cmd' = [cmd EXCEPT ![p] = c],
           \/ c = Idle /\ Orphan(p)
           \/ c \in Command /\ GoodCommand(c, row', rollout')
    PROVE  ProcessesOK'
<1>1. /\ cmd' \in [Proc -> Command \cup {Idle}]
      /\ cmd'[p] = c
      /\ \A q \in Proc : q # p => cmd'[q] = cmd[q]
  BY DEF ProcessesOK
<1>2. \A d \in Dispatcher : js[d] \in Loop /\ GoodLoop(js[d], row')
  BY LoopStaysGood DEF ProcessesOK
<1>3. \A q \in Proc : cmd'[q] # Idle => GoodCommand(cmd'[q], row', rollout')
  BY <1>1, CommandStaysGood DEF ProcessesOK, Running
<1>4. \A d \in Dispatcher : js[d].child # NULL => js[d].child \in Proc /\ cmd'[js[d].child] # Idle
  BY <1>1, IdleIsNone DEF ProcessesOK, Running, Orphan, Loop
<1>5. QED
  BY <1>1, <1>2, <1>3, <1>4 DEF ProcessesOK, Running

\* A dispatcher moves on to j: its child may be replaced or a free slot be taken.
LEMMA LoopWrites ==
    ASSUME ProcessesOK, UNCHANGED <<row, rollout>>, NEW d \in Dispatcher,
           NEW j \in Loop, GoodLoop(j, row), js' = [js EXCEPT ![d] = j],
           j.child # NULL <=> j.pc \in AwaitingChild,
           cmd' \in [Proc -> Command \cup {Idle}],
           \A p \in Proc : cmd'[p] # cmd[p] =>
                /\ p = js[d].child \/ ~Running(p)
                /\ cmd'[p] # Idle => GoodCommand(cmd'[p], row, rollout),
           j.child # NULL => /\ cmd'[j.child] # Idle
                             /\ j.child = js[d].child \/ ~Running(j.child)
    PROVE  ProcessesOK'
<1>1. /\ js' \in [Dispatcher -> Loop]
      /\ js'[d] = j
      /\ \A e \in Dispatcher : e # d => js'[e] = js[e]
  BY DEF ProcessesOK
<1>2. \A p \in Proc : cmd'[p] # Idle => GoodCommand(cmd'[p], row, rollout)
  BY DEF ProcessesOK, Running
<1>3. \A e \in Dispatcher : e # d /\ js[e].child # NULL =>
        /\ js[e].child # js[d].child /\ js[e].child # j.child
        /\ js[e].child \in Proc /\ Running(js[e].child)
  <2>1. \A e \in Dispatcher : js[e] \in Loop /\ js[e].child \in Proc \cup {NULL}
    BY DEF ProcessesOK, Loop
  <2>2. QED
    BY <2>1 DEF ProcessesOK
<1>4. \A e \in Dispatcher : js'[e].child # NULL => cmd'[js'[e].child] # Idle
  BY <1>1, <1>3 DEF Running
<1>5. \A e \in Dispatcher : js'[e].child # NULL <=> js'[e].pc \in AwaitingChild
  BY <1>1 DEF ProcessesOK
<1>6. \A e \in Dispatcher : GoodLoop(js'[e], row)
  BY <1>1 DEF ProcessesOK
<1>7. \A e, f \in Dispatcher : e # f /\ js'[e].child = js'[f].child => js'[e].child = NULL
  BY <1>1, <1>3 DEF ProcessesOK
<1>8. QED
  BY <1>1, <1>2, <1>4, <1>5, <1>6, <1>7 DEF ProcessesOK, Running

-----------------------------------------------------------------------------
(* The table and the desktop. *)

\* What every step is shown to do: it keeps the invariant, and the table sees one of its calls
\* or nothing.
Sound == IInv' /\ [T!Next]_(T!vars)

LEMMA TableKept ==
    ASSUME IInv, [T!Next]_(T!vars)
    PROVE  T!IInv'
BY TableAssumption, T!InvNext DEF IInv

\* A call on the table, nothing else outside of the processes.
LEMMA DesktopKept ==
    ASSUME IInv, TableStep, UNCHANGED <<now, desktopVars>>
    PROVE  DesktopOK'
<1>1. AnchorCoversSends'
  BY DEF IInv, DesktopOK, AnchorCoversSends, TableStep, AnchorIn, desktopVars
<1>2. DeliveredOnEvidence'
  BY DEF TableStep, DeliveredOnEvidence, AnchorIn, Shown, desktopVars
<1>3. QED
  BY <1>1, <1>2 DEF IInv, DesktopOK, TableStep, AnchorIn, Shown, desktopVars

LEMMA NoCall == ASSUME IInv, UNCHANGED storeVars PROVE TableStep
<1>1. [T!Next]_(T!vars)
  BY DEF T!vars, storeVars
<1>2. QED
  BY <1>1, QuietCall DEF SameEvidence, storeVars

\* A command calls the table and moves on.
LEMMA CommandCalls ==
    ASSUME IInv, TableStep, UNCHANGED <<now, desktopVars, js>>, NEW p \in Proc, Running(p), NEW c,
           cmd' = [cmd EXCEPT ![p] = c],
           \/ c = Idle /\ Orphan(p)
           \/ c \in Command /\ GoodCommand(c, row', rollout)
    PROVE  Sound
<1>1. Grown /\ rollout' = rollout
  BY CallGrows DEF desktopVars
<1>2. ProcessesOK'
  BY <1>1, CommandWrites DEF IInv
<1>3. QED
  BY <1>2, DesktopKept, TableKept DEF IInv, TableStep, Sound

\* A dispatcher moves on; it never calls the table itself.
LEMMA LoopMoves ==
    ASSUME IInv, UNCHANGED <<storeVars, now, desktopVars>>, ProcessesOK'
    PROVE  Sound
<1>1. TableStep
  BY NoCall
<1>2. QED
  BY <1>1, DesktopKept, TableKept DEF IInv, TableStep, Sound

-----------------------------------------------------------------------------
(* The steps of a state command. *)

\* What a command that runs is known to be.
LEMMA RunningCommand ==
    ASSUME IInv, NEW p \in Proc, Running(p)
    PROVE  /\ cmd[p] \in Command
           /\ GoodCommand(cmd[p], row, rollout)
           /\ cmd \in [Proc -> Command \cup {Idle}]
BY DEF IInv, ProcessesOK, Running

\* An end, whatever the answer, is a good command or a free slot.
LEMMA FinishStep ==
    ASSUME IInv, TableStep, UNCHANGED <<now, desktopVars, js>>, NEW p \in Proc, Running(p),
           NEW result \in Result, Finish(p, result),
           result = "claim" => /\ cmd[p].m # NULL /\ cmd[p].tok # NULL
                               /\ AnchorIn(row, cmd[p].m) # NULL
    PROVE  Sound
<1> DEFINE c == IF Orphan(p) THEN Idle ELSE [cmd[p] EXCEPT !.pc = "done", !.result = result]
           b == [cmd[p] EXCEPT !.pc = "done", !.result = result]
<1>1. cmd[p] \in Command /\ GoodCommand(cmd[p], row, rollout)
  BY RunningCommand
<1>2. GoodCommand(cmd[p], row', rollout)
  BY <1>1, CommandStaysGood, CallGrows DEF desktopVars
<1>3. b \in Command
  BY <1>1 DEF Command, Result
<1>4. /\ b.pc = "done" /\ b.result = result
      /\ b.m = cmd[p].m /\ b.tok = cmd[p].tok /\ b.op = cmd[p].op
  BY <1>1 DEF Command
<1> HIDE DEF b
<1>5. result = "claim" => AnchorIn(row', cmd[p].m) # NULL
  BY <1>1 DEF TableStep, Command
<1>6. GoodCommand(b, row', rollout)
  BY <1>2, <1>4, <1>5 DEF GoodCommand
<1>7. \/ c = Idle /\ Orphan(p)
      \/ c \in Command /\ GoodCommand(c, row', rollout)
  BY <1>3, <1>6 DEF b
<1>8. cmd' = [cmd EXCEPT ![p] = c]
  BY DEF Finish
<1> HIDE DEF c
<1>9. QED
  BY <1>7, <1>8, CommandCalls

LEMMA EndsStep ==
    ASSUME IInv, TableStep, UNCHANGED <<now, desktopVars, js>>, NEW p \in Proc, Running(p),
           NEW result \in Result \ {"claim"}, Ends(p, result)
    PROVE  Sound
<1>1. CASE Finish(p, result)
  BY <1>1, FinishStep
<1>2. CASE Finish(p, "error")
  BY <1>2, FinishStep DEF Result
<1>3. QED
  BY <1>1, <1>2 DEF Ends

\* A failure to read the rollout leaves the claim in hand.
LEMMA RaiseStep ==
    ASSUME IInv, TableStep, UNCHANGED <<now, desktopVars, js>>, NEW p \in Proc, Running(p),
           NEW permanent \in BOOLEAN, Raise(p, permanent),
           cmd[p].pc \notin {"recover", "lease", "done"}
    PROVE  Sound
<1> DEFINE c == [cmd[p] EXCEPT !.pc = "fail", !.permanent = permanent]
<1>1. cmd[p] \in Command /\ cmd \in [Proc -> Command \cup {Idle}]
  BY RunningCommand
<1>2. GoodCommand(cmd[p], row', rollout)
  BY RunningCommand, CommandStaysGood, CallGrows DEF desktopVars
<1>3. /\ c \in Command
      /\ c.pc = "fail" /\ c.result = cmd[p].result
      /\ c.m = cmd[p].m /\ c.tok = cmd[p].tok /\ c.op = cmd[p].op
  BY <1>1 DEF Command
<1>4. cmd' = [cmd EXCEPT ![p] = c]
  BY <1>1 DEF Raise
<1> HIDE DEF c
<1>5. GoodCommand(c, row', rollout)
  BY <1>2, <1>3 DEF GoodCommand
<1>6. QED
  BY <1>3, <1>4, <1>5, CommandCalls

\* No step of a command works without a claim unless it is about to take one.
LEMMA ClaimInHand ==
    ASSUME IInv, NEW p \in Proc, Running(p), cmd[p].pc \notin {"recover", "lease", "done"}
    PROVE  cmd[p].m \in Monitor /\ cmd[p].tok \in Token
BY RunningCommand DEF GoodCommand, Command

LEMMA RecoverStep == ASSUME IInv, NEW p \in Proc, Recover(p) PROVE Sound
<1> DEFINE c == [cmd[p] EXCEPT !.pc = "lease"]
<1>1. Running(p) /\ TableStep
  BY RecoverCall DEF Recover, At
<1>2. cmd[p] \in Command /\ cmd \in [Proc -> Command \cup {Idle}]
  BY <1>1, RunningCommand
<1>3. GoodCommand(cmd[p], row', rollout)
  BY <1>1, RunningCommand, CommandStaysGood, CallGrows DEF Recover, desktopVars
<1>4. /\ c \in Command
      /\ c.pc = "lease" /\ c.result = cmd[p].result
      /\ c.m = cmd[p].m /\ c.tok = cmd[p].tok /\ c.op = cmd[p].op
  BY <1>2 DEF Command
<1>5. cmd' = [cmd EXCEPT ![p] = c] /\ cmd[p].pc = "recover"
  BY <1>2 DEF Recover, Goto, At
<1> HIDE DEF c
<1>6. GoodCommand(c, row', rollout)
  BY <1>3, <1>4, <1>5 DEF GoodCommand
<1>7. QED
  BY <1>1, <1>4, <1>5, <1>6, CommandCalls DEF Recover

LEMMA LeaseStep == ASSUME IInv, NEW p \in Proc, Lease(p) PROVE Sound
<1>1. Running(p) /\ cmd[p].pc = "lease" /\ cmd[p].op = "claim"
  BY DEF Lease, At
<1>2. cmd[p] \in Command /\ cmd \in [Proc -> Command \cup {Idle}] /\ GoodCommand(cmd[p], row, rollout)
  BY <1>1, RunningCommand
<1>3. ASSUME NEW m \in Monitor, NEW tok \in Token,
             S!ClaimDueDelivery(m, tok, now),
             cmd' = [cmd EXCEPT ![p].pc = "anchor", ![p].m = m, ![p].tok = tok,
                                ![p].anchor = row[m].delivery_rollout]
      PROVE  Sound
  <2> DEFINE c == [cmd[p] EXCEPT !.pc = "anchor", !.m = m, !.tok = tok,
                                 !.anchor = row[m].delivery_rollout]
  <2>1. TableStep
    BY <1>3, ClaimCall
  <2>2. row[m].delivery_rollout \in Offset \cup {NULL}
    BY RowTyped DEF IInv
  <2>3. /\ c \in Command
        /\ c.pc = "anchor" /\ c.m = m /\ c.tok = tok /\ c.anchor = row[m].delivery_rollout
        /\ c.op = "claim" /\ c.result = cmd[p].result
    BY <1>1, <1>2, <2>2 DEF Command
  <2>4. cmd' = [cmd EXCEPT ![p] = c]
    BY <1>2, <1>3
  <2> HIDE DEF c
  <2>5. cmd[p].result = NULL /\ m # NULL /\ tok # NULL
    BY <1>1, <1>2, ConstantsTyped DEF GoodCommand
  <2>6. c.anchor # NULL => c.anchor = AnchorIn(row', c.m)
    BY <2>1, <2>3 DEF TableStep, AnchorIn
  <2>7. GoodCommand(c, row', rollout)
    BY <2>3, <2>5, <2>6, ConstantsTyped DEF GoodCommand
  <2>8. QED
    BY <1>1, <2>1, <2>3, <2>4, <2>7, CommandCalls DEF Lease
<1>4. CASE Finish(p, "none") /\ UNCHANGED storeVars
  BY <1>1, <1>4, NoCall, FinishStep DEF Lease, Result
<1>5. QED
  BY <1>3, <1>4 DEF Lease

LEMMA PrepareAnchorStep == ASSUME IInv, NEW p \in Proc, PrepareAnchor(p) PROVE Sound
<1> DEFINE t == ThreadOf[cmd[p].m]
<1>1. Running(p) /\ cmd[p].pc = "anchor" /\ cmd[p].op = "claim" /\ TableStep
  BY NoCall DEF PrepareAnchor, At
<1>2. cmd[p] \in Command /\ cmd \in [Proc -> Command \cup {Idle}] /\ GoodCommand(cmd[p], row, rollout)
  BY <1>1, RunningCommand
<1>3. cmd[p].m \in Monitor /\ cmd[p].tok \in Token
  BY <1>1, ClaimInHand
<1>4. row' = row
  BY DEF PrepareAnchor, storeVars
<1>5. CASE Unreadable(p, t)
  BY <1>1, <1>5, RaiseStep DEF Unreadable, PrepareAnchor
<1>6. CASE cmd[p].anchor # NULL /\ Goto(p, "find")
  <2> DEFINE c == [cmd[p] EXCEPT !.pc = "find"]
  <2>1. /\ c \in Command
        /\ c.pc = "find" /\ c.result = cmd[p].result /\ c.anchor = cmd[p].anchor
        /\ c.m = cmd[p].m /\ c.tok = cmd[p].tok /\ c.op = cmd[p].op
    BY <1>2 DEF Command
  <2>2. cmd' = [cmd EXCEPT ![p] = c]
    BY <1>2, <1>6 DEF Goto
  <2> HIDE DEF c
  <2>3. GoodCommand(c, row', rollout)
    BY <1>1, <1>2, <1>4, <1>6, <2>1 DEF GoodCommand
  <2>4. QED
    BY <1>1, <2>1, <2>2, <2>3, CommandCalls DEF PrepareAnchor
<1>7. CASE cmd' = [cmd EXCEPT ![p].pc = "record", ![p].anchor = Len(rollout[t])]
  <2> DEFINE c == [cmd[p] EXCEPT !.pc = "record", !.anchor = Len(rollout[t])]
  <2>1. Len(rollout[t]) \in Offset /\ Len(rollout[t]) = Shown(rollout, cmd[p].m)
    BY <1>3, ShownTyped DEF IInv, Shown
  <2>2. /\ c \in Command
        /\ c.pc = "record" /\ c.result = cmd[p].result /\ c.anchor = Len(rollout[t])
        /\ c.m = cmd[p].m /\ c.tok = cmd[p].tok /\ c.op = cmd[p].op
    BY <1>2, <2>1 DEF Command
  <2>3. cmd' = [cmd EXCEPT ![p] = c]
    BY <1>2, <1>7
  <2> HIDE DEF c
  <2>4. c.anchor # NULL /\ c.anchor <= Shown(rollout, c.m)
    BY <2>1, <2>2, ConstantsTyped
  <2>5. c.result = NULL /\ c.m # NULL /\ c.tok # NULL
    BY <1>1, <1>2, <1>3, <2>2, ConstantsTyped DEF GoodCommand
  <2>7. GoodCommand(c, row', rollout)
    BY <1>1, <2>2, <2>4, <2>5, ConstantsTyped DEF GoodCommand
  <2>6. QED
    BY <1>1, <2>2, <2>3, <2>7, CommandCalls DEF PrepareAnchor
<1>8. QED
  BY <1>5, <1>6, <1>7 DEF PrepareAnchor

LEMMA RecordAnchorStep == ASSUME IInv, NEW p \in Proc, RecordAnchor(p) PROVE Sound
<1> DEFINE m == cmd[p].m
           tok == cmd[p].tok
           a == cmd[p].anchor
<1>1. Running(p) /\ cmd[p].pc = "record" /\ cmd[p].op = "claim"
  BY DEF RecordAnchor, At
<1>2. cmd[p] \in Command /\ cmd \in [Proc -> Command \cup {Idle}] /\ GoodCommand(cmd[p], row, rollout)
  BY <1>1, RunningCommand
<1>3. m \in Monitor /\ tok \in Token
  BY <1>1, ClaimInHand
<1>4. CASE Raise(p, FALSE) /\ UNCHANGED storeVars
  BY <1>1, <1>4, NoCall, RaiseStep DEF RecordAnchor
<1>5. CASE /\ S!RecordDeliveryAnchor(m, tok, a)
           /\ cmd' = [cmd EXCEPT ![p].pc = "anchor", ![p].anchor = row'[m].delivery_rollout]
  <2> DEFINE c == [cmd[p] EXCEPT !.pc = "anchor", !.anchor = row'[m].delivery_rollout]
  <2>1. a \in Offset /\ a <= Shown(rollout, m)
    BY <1>1, <1>2 DEF GoodCommand, Command
  <2>2. TableStep /\ row'[m].delivery_rollout # NULL
    BY <1>3, <1>5, <2>1, AnchorCall
  <2>3. row'[m].delivery_rollout \in Offset \cup {NULL}
    <3>1. T!IInv'
      BY <2>2, TableKept DEF TableStep
    <3>2. QED
      BY <1>3, <3>1 DEF T!IInv, T!TypeOK, T!Row, T!Null
  <2>4. /\ c \in Command
        /\ c.pc = "anchor" /\ c.result = cmd[p].result /\ c.anchor = row'[m].delivery_rollout
        /\ c.m = m /\ c.tok = tok /\ c.op = cmd[p].op
    BY <1>2, <2>3 DEF Command
  <2>5. cmd' = [cmd EXCEPT ![p] = c]
    BY <1>2, <1>5
  <2> HIDE DEF c
  <2>6. c.result = NULL /\ c.m # NULL /\ c.tok # NULL
    BY <1>1, <1>2, <1>3, <2>4, ConstantsTyped DEF GoodCommand
  <2>7. GoodCommand(c, row', rollout)
    BY <1>1, <2>4, <2>6, ConstantsTyped DEF GoodCommand, AnchorIn
  <2>8. QED
    BY <1>1, <2>2, <2>4, <2>5, <2>7, CommandCalls DEF RecordAnchor
<1>6. QED
  BY <1>4, <1>5 DEF RecordAnchor

\* A continue is found after an anchor: the command goes on to report it.
LEMMA FoundStep ==
    ASSUME IInv, UNCHANGED <<storeVars, now, desktopVars, js>>, NEW p \in Proc, Running(p),
           cmd[p].pc \notin {"recover", "lease", "done"},
           NEW a \in Offset, a = AnchorIn(row, cmd[p].m),
           ContinuesAfter(ThreadOf[cmd[p].m], a) # {},
           cmd' = [cmd EXCEPT ![p].pc = "succeed", ![p].anchor = a,
                              ![p].turn = FirstOf(ContinuesAfter(ThreadOf[cmd[p].m], a))]
    PROVE  Sound
<1> DEFINE m == cmd[p].m
           turn == FirstOf(ContinuesAfter(ThreadOf[m], a))
           c == [cmd[p] EXCEPT !.pc = "succeed", !.anchor = a, !.turn = turn]
<1>1. cmd[p] \in Command /\ cmd \in [Proc -> Command \cup {Idle}] /\ GoodCommand(cmd[p], row, rollout)
  BY RunningCommand
<1>2. m \in Monitor /\ cmd[p].tok \in Token
  BY ClaimInHand
<1>3. turn = a + 1 /\ turn \in Offset /\ turn <= Shown(rollout, m)
  <2>1. Len(rollout[ThreadOf[m]]) \in Nat
    BY <1>2, ShownTyped DEF IInv, Shown
  <2>2. QED
    BY <2>1, FirstAfter DEF Shown
<1>4. row' = row /\ TableStep
  BY NoCall DEF storeVars
<1>5. cmd' = [cmd EXCEPT ![p] = c]
  BY <1>1
<1> HIDE DEF turn
<1>6. /\ c \in Command
      /\ c.pc = "succeed" /\ c.result = cmd[p].result /\ c.anchor = a /\ c.turn = turn
      /\ c.m = m /\ c.tok = cmd[p].tok /\ c.op = cmd[p].op
  BY <1>1, <1>3 DEF Command
<1> HIDE DEF c
<1>7. a # NULL /\ turn # NULL
  BY <1>3, ConstantsTyped
<1>8. GoodCommand(c, row', rollout)
  BY <1>1, <1>3, <1>4, <1>6, <1>7 DEF GoodCommand
<1>9. QED
  BY <1>4, <1>5, <1>6, <1>8, CommandCalls

LEMMA FindBeforeSendStep == ASSUME IInv, NEW p \in Proc, FindBeforeSend(p) PROVE Sound
<1> DEFINE c == cmd[p]
           found == ContinuesAfter(ThreadOf[c.m], c.anchor)
<1>1. Running(p) /\ c.pc = "find" /\ TableStep
  BY NoCall DEF FindBeforeSend, At
<1>2. c \in Command /\ cmd \in [Proc -> Command \cup {Idle}] /\ GoodCommand(c, row, rollout)
  BY <1>1, RunningCommand
<1>3. c.anchor \in Offset /\ c.anchor = AnchorIn(row, c.m) /\ c.m # NULL /\ c.tok # NULL
  BY <1>1, <1>2 DEF GoodCommand, Command
<1>4. CASE Raise(p, FALSE) \/ BeyondLimit(p)
  BY <1>1, <1>4, RaiseStep DEF BeyondLimit, FindBeforeSend
<1>5. CASE Finish(p, "claim")
  BY <1>1, <1>3, <1>5, ConstantsTyped, FinishStep DEF FindBeforeSend, Result
<1>6. CASE found # {} /\ cmd' = [cmd EXCEPT ![p].pc = "succeed", ![p].turn = FirstOf(found)]
  <2>1. cmd' = [cmd EXCEPT ![p].pc = "succeed", ![p].anchor = c.anchor, ![p].turn = FirstOf(found)]
    <3>1. [c EXCEPT !.pc = "succeed", !.turn = FirstOf(found)]
            = [c EXCEPT !.pc = "succeed", !.anchor = c.anchor, !.turn = FirstOf(found)]
      BY <1>2 DEF Command
    <3>2. QED
      BY <1>2, <1>6, <3>1
  <2>2. QED
    BY <1>1, <1>3, <1>6, <2>1, FoundStep DEF FindBeforeSend
<1>7. QED
  BY <1>4, <1>5, <1>6 DEF FindBeforeSend

LEMMA ScanStep == ASSUME IInv, NEW p \in Proc, Scan(p) PROVE Sound
<1> DEFINE c == cmd[p]
           anchor == row[c.m].delivery_rollout
           found == ContinuesAfter(ThreadOf[c.m], anchor)
<1>1. Running(p) /\ c.pc = "scan" /\ c.op = "observe" /\ TableStep
  BY NoCall DEF Scan, At
<1>2. c \in Command /\ GoodCommand(c, row, rollout) /\ c.m \in Monitor
  BY <1>1, RunningCommand, ClaimInHand
<1>3. anchor \in Offset /\ anchor = AnchorIn(row, c.m)
  BY <1>1, <1>2, RowTyped DEF IInv, GoodCommand, AnchorIn
<1>4. ASSUME NEW result \in {"stale", "unconfirmed"}, Finish(p, result)
      PROVE  Sound
  BY <1>1, <1>4, FinishStep DEF Scan, Result
<1>5. CASE Unreadable(p, ThreadOf[c.m]) \/ BeyondLimit(p)
  BY <1>1, <1>5, RaiseStep DEF Unreadable, BeyondLimit, Scan
<1>6. CASE /\ found # {}
           /\ cmd' = [cmd EXCEPT ![p].pc = "succeed", ![p].anchor = anchor,
                                 ![p].turn = FirstOf(found)]
  BY <1>1, <1>3, <1>6, FoundStep DEF Scan
<1>7. QED
  BY <1>4, <1>5, <1>6 DEF Scan

LEMMA SucceedStep == ASSUME IInv, NEW p \in Proc, Succeed(p) PROVE Sound
<1> DEFINE c == cmd[p]
           held == S!HoldsClaim(c.m, c.tok, "DELIVERING")
<1>1. Running(p) /\ c.pc = "succeed"
  BY DEF Succeed
<1>2. c \in Command /\ GoodCommand(c, row, rollout)
  BY <1>1, RunningCommand
<1>3. /\ c.m \in Monitor /\ c.tok \in Token
      /\ c.anchor \in Offset /\ c.turn \in Offset
      /\ c.anchor = AnchorIn(row, c.m) /\ c.turn = c.anchor + 1 /\ c.turn <= Shown(rollout, c.m)
  BY <1>1, <1>2, ClaimInHand DEF GoodCommand, Command
<1>4. TableStep
  <2>1. CASE S!DeliverySucceeded(c.m, c.tok, c.anchor, c.turn)
    BY <1>3, <2>1, SucceededCall
  <2>2. CASE UNCHANGED storeVars
    BY <2>2, NoCall
  <2>3. QED
    BY <2>1, <2>2 DEF Succeed
<1>5. PICK result \in Result \ {"claim"} : Ends(p, result)
  BY DEF Succeed, Result
<1>6. QED
  BY <1>1, <1>4, <1>5, EndsStep DEF Succeed

LEMMA FailStep == ASSUME IInv, NEW p \in Proc, Fail(p) PROVE Sound
<1> DEFINE c == cmd[p]
           held == S!HoldsClaim(c.m, c.tok, "DELIVERING")
<1>1. Running(p) /\ c.pc = "fail"
  BY DEF Fail
<1>2. c \in Command /\ c.m \in Monitor /\ c.tok \in Token
  BY <1>1, RunningCommand, ClaimInHand
<1>3. TableStep
  <2>1. Backoff(row[c.m].delivery_attempts) \in Nat
    BY <1>2, RowTyped, BackoffNat DEF IInv
  <2>2. CASE RecordFailure(c.m, c.tok, c.permanent)
    <3>1. CASE S!DeliveryBlocked(c.m, c.tok, "not_retryable", now)
      BY <1>2, <3>1, BlockedCall DEF BlockReason
    <3>2. CASE S!DeliveryBlocked(c.m, c.tok, "retry_exhausted", now)
      BY <1>2, <3>2, BlockedCall DEF BlockReason
    <3>3. CASE S!DeliveryRetry(c.m, c.tok, Backoff(row[c.m].delivery_attempts), now)
      BY <1>2, <2>1, <3>3, RetryCall
    <3>4. QED
      BY <2>2, <3>1, <3>2, <3>3 DEF RecordFailure
  <2>3. CASE UNCHANGED storeVars
    BY <2>3, NoCall
  <2>4. QED
    BY <2>2, <2>3 DEF Fail
<1>4. PICK result \in Result \ {"claim"} : Ends(p, result)
  BY <1>2 DEF Fail, Result, Command
<1>5. QED
  BY <1>1, <1>3, <1>4, EndsStep DEF Fail

LEMMA CommandFailsStep == ASSUME IInv, NEW p \in Proc, CommandFails(p) PROVE Sound
BY NoCall, FinishStep DEF CommandFails, Result

LEMMA OrphanDiesStep == ASSUME IInv, NEW p \in Proc, OrphanDies(p) PROVE Sound
BY NoCall, CommandCalls DEF OrphanDies, Orphan

LEMMA CommandSteps ==
    ASSUME IInv, NEW p \in Proc, CommandStep(p) \/ CommandFails(p) \/ OrphanDies(p)
    PROVE  Sound
BY RecoverStep, LeaseStep, PrepareAnchorStep, RecordAnchorStep, FindBeforeSendStep, ScanStep,
   SucceedStep, FailStep, CommandFailsStep, OrphanDiesStep DEF CommandStep

-----------------------------------------------------------------------------
(* The steps of a dispatcher. *)

\* Alarms are set to readings of the clock.
LEMMA AlarmNat == ASSUME DesktopOK, NEW delay \in Nat PROVE Alarm(delay) \in Nat
BY ConstantsTyped DEF Alarm, DesktopOK

\* Every command a dispatcher starts is a good one.
LEMMA ClaimCommandGood ==
    ASSUME DesktopOK
    PROVE  ClaimCommand \in Command /\ GoodCommand(ClaimCommand, row, rollout)
<1>1. Alarm(CommandTimeout) \in Nat
  BY AlarmNat, ConstantsTyped
<1>2. QED
  BY <1>1, ConstantsTyped DEF ClaimCommand, NewCommand, Command, GoodCommand

LEMMA FailCommandGood ==
    ASSUME DesktopOK, NEW m \in Monitor, NEW tok \in Token, AnchorIn(row, m) # NULL
    PROVE  FailCommand(m, tok) \in Command /\ GoodCommand(FailCommand(m, tok), row, rollout)
<1>1. Alarm(CommandTimeout) \in Nat
  BY AlarmNat, ConstantsTyped
<1>2. QED
  BY <1>1, ConstantsTyped DEF FailCommand, NewCommand, Command, GoodCommand

LEMMA ObserveCommandGood ==
    ASSUME DesktopOK, NEW m \in Monitor, NEW tok \in Token, AnchorIn(row, m) # NULL,
           NEW wait \in Nat
    PROVE  /\ ObserveCommand(m, tok, wait) \in Command
           /\ GoodCommand(ObserveCommand(m, tok, wait), row, rollout)
<1>1. Alarm(wait + ObserveGrace) \in Nat /\ Alarm(wait) \in Nat
  BY AlarmNat, ConstantsTyped
<1>2. QED
  BY <1>1, ConstantsTyped DEF ObserveCommand, NewCommand, Command, GoodCommand

\* What a dispatcher is known to be.
LEMMA LoopKnown ==
    ASSUME IInv, NEW d \in Dispatcher
    PROVE  /\ js[d] \in Loop
           /\ js[d].pc \notin {"idle", "claim"} =>
                js[d].m \in Monitor /\ js[d].tok \in Token /\ AnchorIn(row, js[d].m) # NULL
           /\ js[d].pc \in AwaitingChild =>
                js[d].child \in Proc /\ js[d].child # NULL /\ Running(js[d].child)
BY ConstantsTyped DEF IInv, ProcessesOK, GoodLoop, Loop

\* A dispatcher gives up on its child, or reads its last answer.
LEMMA RestStep ==
    ASSUME IInv, NEW d \in Dispatcher, Rest(d), UNCHANGED <<storeVars, now, desktopVars>>,
           \/ UNCHANGED cmd
           \/ Replace(d, Idle) /\ js[d].pc \in AwaitingChild
    PROVE  Sound
<1>1. Resting \in Loop /\ GoodLoop(Resting, row) /\ Resting.child = NULL /\ Resting.pc = "idle"
  BY ConstantsTyped DEF Resting, Loop, GoodLoop
<1>2. cmd' \in [Proc -> Command \cup {Idle}]
  BY DEF Replace, IInv, ProcessesOK
<1>3. \A p \in Proc : cmd'[p] # cmd[p] => p = js[d].child /\ cmd'[p] = Idle
  BY LoopKnown DEF Replace, IInv, ProcessesOK
<1>4. ProcessesOK'
  BY <1>1, <1>2, <1>3, LoopWrites DEF Rest, AwaitingChild, IInv, storeVars, desktopVars
<1>5. QED
  BY <1>4, LoopMoves

\* A dispatcher awaits a new child, in a free slot or in the place of the old one.
LEMMA AwaitChildStep ==
    ASSUME IInv, NEW d \in Dispatcher, NEW pc \in AwaitingChild,
           NEW m \in Monitor \cup {NULL}, NEW tok \in Token \cup {NULL}, NEW p \in Proc,
           NEW c \in Command, GoodCommand(c, row, rollout),
           pc # "claim" => m # NULL /\ tok # NULL /\ AnchorIn(row, m) # NULL,
           p = js[d].child \/ ~Running(p),
           cmd' = [cmd EXCEPT ![p] = c],
           AwaitChild(d, pc, m, tok, p),
           UNCHANGED <<storeVars, now, desktopVars>>
    PROVE  Sound
<1> DEFINE j == [pc |-> pc, m |-> m, tok |-> tok, child |-> p, by |-> 0]
<1>1. j \in Loop /\ GoodLoop(j, row) /\ j.child = p /\ j.pc = pc
  BY DEF Loop, GoodLoop, AwaitingChild
<1>2. p # NULL
  BY ConstantsTyped
<1>3. cmd' \in [Proc -> Command \cup {Idle}] /\ cmd'[p] = c
  BY DEF IInv, ProcessesOK
<1>4. \A q \in Proc : cmd'[q] # cmd[q] => q = p
  BY DEF IInv, ProcessesOK
<1>5. js' = [js EXCEPT ![d] = j]
  BY DEF AwaitChild
<1> HIDE DEF j
<1>6. ProcessesOK'
  BY <1>1, <1>2, <1>3, <1>4, <1>5, IdleIsNone, LoopWrites DEF IInv, storeVars, desktopVars
<1>7. QED
  BY <1>6, LoopMoves

\* A dispatcher turns to the native pipe.
LEMMA AwaitNativeLoop ==
    ASSUME IInv, NEW d \in Dispatcher, NEW pc \in {"send", "call"}, NEW limit \in Nat,
           js[d].pc \notin {"idle", "claim"}, AwaitNative(d, pc, limit),
           UNCHANGED <<row, rollout>>,
           \/ UNCHANGED cmd
           \/ Replace(d, Idle) /\ js[d].pc \in AwaitingChild
    PROVE  ProcessesOK'
<1> DEFINE j == [js[d] EXCEPT !.pc = pc, !.child = NULL, !.by = Alarm(limit)]
<1>1. Alarm(limit) \in Nat
  BY AlarmNat DEF IInv
<1>2. /\ j \in Loop
      /\ j.child = NULL /\ j.pc = pc /\ j.m = js[d].m /\ j.tok = js[d].tok
  BY <1>1, LoopKnown DEF Loop
<1>3. js' = [js EXCEPT ![d] = j]
  BY LoopKnown DEF AwaitNative
<1> HIDE DEF j
<1>4. GoodLoop(j, row)
  BY <1>2, LoopKnown, ConstantsTyped DEF GoodLoop
<1>5. cmd' \in [Proc -> Command \cup {Idle}]
  BY DEF Replace, IInv, ProcessesOK
<1>6. \A p \in Proc : cmd'[p] # cmd[p] => p = js[d].child /\ cmd'[p] = Idle
  BY LoopKnown DEF Replace, IInv, ProcessesOK
<1>7. QED
  BY <1>2, <1>3, <1>4, <1>5, <1>6, LoopWrites DEF AwaitingChild, IInv

LEMMA DispatchOnceStep == ASSUME IInv, NEW d \in Dispatcher, DispatchOnce(d) PROVE Sound
<1>1. PICK p \in Proc : /\ ~Running(p)
                        /\ cmd' = [cmd EXCEPT ![p] = ClaimCommand]
                        /\ AwaitChild(d, "claim", NULL, NULL, p)
  BY DEF DispatchOnce
<1>2. ClaimCommand \in Command /\ GoodCommand(ClaimCommand, row, rollout)
  BY ClaimCommandGood DEF IInv
<1> DEFINE c == ClaimCommand
<1> HIDE DEF c
<1>3. c \in Command /\ GoodCommand(c, row, rollout) /\ cmd' = [cmd EXCEPT ![p] = c]
  BY <1>1, <1>2 DEF c
<1>4. "claim" \in AwaitingChild
  BY DEF AwaitingChild
<1>5. QED
  BY <1>1, <1>3, <1>4, AwaitChildStep DEF DispatchOnce

LEMMA EndAttemptStep == ASSUME IInv, NEW d \in Dispatcher, EndAttempt(d) PROVE Sound
<1>1. js[d].pc \in AwaitingChild
  BY DEF EndAttempt, Answered, AwaitingChild
<1>2. QED
  BY <1>1, RestStep DEF EndAttempt

\* A dispatcher with a claim in hand starts a command about it.
LEMMA NextChildStep ==
    ASSUME IInv, NEW d \in Dispatcher, NEW pc \in AwaitingChild, NEW p \in Proc,
           NEW m \in Monitor, NEW tok \in Token, AnchorIn(row, m) # NULL,
           p = js[d].child \/ ~Running(p),
           \/ cmd' = [cmd EXCEPT ![p] = FailCommand(m, tok)]
           \/ \E wait \in Nat : cmd' = [cmd EXCEPT ![p] = ObserveCommand(m, tok, wait)],
           AwaitChild(d, pc, m, tok, p),
           UNCHANGED <<storeVars, now, desktopVars>>
    PROVE  Sound
<1>1. DesktopOK /\ m # NULL /\ tok # NULL
  BY ConstantsTyped DEF IInv
<1>2. ASSUME NEW c \in Command, GoodCommand(c, row, rollout), cmd' = [cmd EXCEPT ![p] = c]
      PROVE  Sound
  BY <1>1, <1>2, AwaitChildStep
<1>3. CASE cmd' = [cmd EXCEPT ![p] = FailCommand(m, tok)]
  <2>1. FailCommand(m, tok) \in Command /\ GoodCommand(FailCommand(m, tok), row, rollout)
    BY <1>1, FailCommandGood
  <2> DEFINE c == FailCommand(m, tok)
  <2> HIDE DEF c
  <2>2. c \in Command /\ GoodCommand(c, row, rollout) /\ cmd' = [cmd EXCEPT ![p] = c]
    BY <1>3, <2>1 DEF c
  <2>3. QED
    BY <1>2, <2>2
<1>4. ASSUME NEW wait \in Nat, cmd' = [cmd EXCEPT ![p] = ObserveCommand(m, tok, wait)]
      PROVE  Sound
  <2>1. /\ ObserveCommand(m, tok, wait) \in Command
        /\ GoodCommand(ObserveCommand(m, tok, wait), row, rollout)
    BY <1>1, ObserveCommandGood
  <2> DEFINE c == ObserveCommand(m, tok, wait)
  <2> HIDE DEF c
  <2>2. c \in Command /\ GoodCommand(c, row, rollout) /\ cmd' = [cmd EXCEPT ![p] = c]
    BY <1>4, <2>1 DEF c
  <2>3. QED
    BY <1>2, <2>2
<1>5. QED
  BY <1>3, <1>4

\* The claim of the child is the claim the dispatcher goes on with.
LEMMA ObserveBeforeStep == ASSUME IInv, NEW d \in Dispatcher, ObserveBefore(d) PROVE Sound
<1> DEFINE p == js[d].child
           c == cmd[p]
<1>1. js[d].pc = "claim" /\ c.result = "claim"
  BY DEF ObserveBefore, Answered
<1>2. p \in Proc /\ Running(p)
  BY <1>1, LoopKnown DEF AwaitingChild
<1>3. c.m \in Monitor /\ c.tok \in Token /\ AnchorIn(row, c.m) # NULL
  <2>1. c \in Command /\ GoodCommand(c, row, rollout)
    BY <1>2, RunningCommand
  <2>2. AnchorIn(row, c.m) # NULL
    BY <1>1, <2>1 DEF GoodCommand
  <2>3. c.m # NULL /\ c.tok # NULL
    BY <1>1, <2>1 DEF GoodCommand
  <2>4. QED
    BY <2>1, <2>2, <2>3 DEF Command
<1>4. /\ "before" \in AwaitingChild
      /\ \E wait \in Nat : cmd' = [cmd EXCEPT ![p] = ObserveCommand(c.m, c.tok, wait)]
  BY DEF ObserveBefore, Replace, AwaitingChild
<1>5. AwaitChild(d, "before", c.m, c.tok, p) /\ UNCHANGED <<storeVars, now, desktopVars>>
  BY DEF ObserveBefore
<1> HIDE DEF p, c
<1>6. QED
  BY <1>2, <1>3, <1>4, <1>5, NextChildStep DEF p

LEMMA BeginSendStep == ASSUME IInv, NEW d \in Dispatcher, BeginSend(d) PROVE Sound
<1>1. js[d].pc = "before" /\ js[d].pc \in AwaitingChild
  BY DEF BeginSend, Answered, AwaitingChild
<1>2. ProcessesOK'
  BY <1>1, ConstantsTyped, AwaitNativeLoop DEF BeginSend, storeVars, desktopVars
<1>3. QED
  BY <1>2, LoopMoves DEF BeginSend

\* What is sent for a monitor is sent after its anchor.
LEMMA NativeWriteStep == ASSUME IInv, NEW d \in Dispatcher, NativeWrite(d) PROVE Sound
<1> DEFINE c == [m |-> js[d].m, tok |-> js[d].tok, by |-> Alarm(VisibleDelay)]
<1>1. js[d].pc = "send"
  BY DEF NativeWrite
<1>2. js[d].m \in Monitor /\ js[d].tok \in Token /\ AnchorIn(row, js[d].m) # NULL
  BY <1>1, LoopKnown
<1>3. ProcessesOK'
  BY <1>1, ConstantsTyped, AwaitNativeLoop DEF NativeWrite, storeVars
<1>4. c \in [m : Monitor, tok : Token, by : Nat] /\ c.m = js[d].m
  BY <1>2, AlarmNat, ConstantsTyped DEF IInv
<1>5. /\ calls' = calls \cup {c}
      /\ UNCHANGED <<row, issued, now, rollout, archived>>
  BY DEF NativeWrite, storeVars
<1> HIDE DEF c
<1>6. AnchorIn(row, c.m) <= Shown(rollout, c.m)
  BY <1>2, <1>4 DEF IInv, DesktopOK
<1>7. AnchorCoversSends'
  BY <1>2, <1>4, <1>5, <1>6 DEF IInv, DesktopOK, AnchorCoversSends, AnchorIn, Shown
<1>8. DesktopOK'
  BY <1>4, <1>5, <1>7 DEF IInv, DesktopOK, DeliveredOnEvidence, AnchorIn, Shown
<1>9. [T!Next]_(T!vars) /\ T!IInv'
  BY <1>5, TableKept DEF T!vars
<1>10. QED
  BY <1>3, <1>8, <1>9 DEF IInv, Sound

\* The observation after the send, whatever came of it.
LEMMA ObserveAfterStep ==
    ASSUME IInv, NEW d \in Dispatcher, js[d].pc \in {"send", "call"}, NEW wait \in Nat,
           ObserveAfter(d, wait)
    PROVE  Sound
<1>1. PICK p \in Proc : /\ ~Running(p)
                        /\ cmd' = [cmd EXCEPT ![p] = ObserveCommand(js[d].m, js[d].tok, wait)]
                        /\ AwaitChild(d, "after", js[d].m, js[d].tok, p)
  BY DEF ObserveAfter
<1>2. js[d].m \in Monitor /\ js[d].tok \in Token /\ AnchorIn(row, js[d].m) # NULL
  BY LoopKnown
<1>3. "after" \in AwaitingChild
  BY DEF AwaitingChild
<1>4. QED
  BY <1>1, <1>2, <1>3, NextChildStep DEF ObserveAfter

\* The failure is recorded by a new command in the place of the one that answered.
LEMMA FailNextStep ==
    ASSUME IInv, NEW d \in Dispatcher, js[d].pc \in {"before", "after", "fail"},
           NEW pc \in {"fail", "catch"}, NEW p \in Proc,
           p = js[d].child \/ ~Running(p),
           cmd' = [cmd EXCEPT ![p] = FailCommand(js[d].m, js[d].tok)],
           AwaitChild(d, pc, js[d].m, js[d].tok, p),
           UNCHANGED <<storeVars, now, desktopVars>>
    PROVE  Sound
<1>1. js[d].m \in Monitor /\ js[d].tok \in Token /\ AnchorIn(row, js[d].m) # NULL
  BY LoopKnown
<1>2. pc \in AwaitingChild
  BY DEF AwaitingChild
<1>3. QED
  BY <1>1, <1>2, NextChildStep

LEMMA LoopSteps == ASSUME IInv, NEW d \in Dispatcher, LoopStep(d) PROVE Sound
<1>1. js[d].pc \in AwaitingChild => js[d].child \in Proc
  BY LoopKnown
<1>2. CASE NativeReturn(d) \/ NativeError(d)
  BY <1>2, ConstantsTyped, ObserveAfterStep DEF NativeReturn, NativeError
<1>3. CASE RecordFailed(d)
  BY <1>1, <1>3, FailNextStep DEF RecordFailed, Replace, Answered, AwaitingChild
<1>4. CASE CatchError(d)
  BY <1>1, <1>4, FailNextStep DEF CatchError, Rejected, Replace, Answered, AwaitingChild
<1>5. CASE CatchTimeout(d)
  <2>1. PICK p \in Proc : /\ ~Running(p)
                          /\ cmd' = [cmd EXCEPT ![p] = FailCommand(js[d].m, js[d].tok)]
                          /\ AwaitChild(d, "catch", js[d].m, js[d].tok, p)
    BY <1>5 DEF CatchTimeout
  <2>2. js[d].pc \in {"before", "after", "fail"}
    BY <1>5 DEF CatchTimeout, TimedOut
  <2>3. QED
    BY <1>5, <2>1, <2>2, FailNextStep DEF CatchTimeout
<1>6. CASE GiveUp(d)
  BY <1>6, RestStep DEF GiveUp
<1>7. QED
  BY <1>2, <1>3, <1>4, <1>5, <1>6, EndAttemptStep, ObserveBeforeStep, BeginSendStep,
     NativeWriteStep DEF LoopStep

LEMMA CrashStep == ASSUME IInv, NEW d \in Dispatcher, Crash(d) PROVE Sound
BY RestStep DEF Crash

-----------------------------------------------------------------------------
(* Desktop, the user, the LaunchAgent and the clock. *)

\* A rollout grows by one continue: one that was on its way, or the user's.
LEMMA AppendStep ==
    ASSUME IInv, NEW t \in Thread, NEW author \in Monitor \cup {User}, Appended(t, author),
           author \in Monitor => \E c \in calls : c.m = author /\ ThreadOf[c.m] = t,
           calls' \subseteq calls, UNCHANGED <<storeVars, now, archived, js, cmd>>
    PROVE  Sound
<1>1. rollout[t] \in Seq(Monitor \cup {User}) /\ Len(rollout[t]) \in Nat
  BY DEF IInv, DesktopOK
<1>2. /\ rollout' \in [Thread -> Seq(Monitor \cup {User})]
      /\ rollout'[t] = Append(rollout[t], author)
      /\ \A u \in Thread : u # t => rollout'[u] = rollout[u]
  BY DEF IInv, DesktopOK, Appended
<1>3. /\ Len(rollout'[t]) = Len(rollout[t]) + 1
      /\ rollout'[t][Len(rollout[t]) + 1] = author
      /\ \A i \in 1..Len(rollout[t]) : rollout'[t][i] = rollout[t][i]
  BY <1>1, <1>2
<1>4. \A u \in Thread : /\ Len(rollout[u]) \in Nat /\ Len(rollout'[u]) \in Nat
                        /\ Len(rollout[u]) <= Len(rollout'[u])
                        /\ Len(rollout'[u]) <= MaxRollout
  BY <1>1, <1>2, <1>3, ConstantsTyped DEF IInv, DesktopOK, Appended
<1>5. UNCHANGED <<row, issued>>
  BY DEF storeVars
<1>6. Grown
  BY <1>4, <1>5, ConstantsTyped DEF Grown, Shown
<1>7. ProcessesOK'
  BY <1>6, ProcessesKept DEF IInv
<1>8. \A m \in Monitor : /\ AnchorIn(row, m) \in Offset \cup {NULL}
                         /\ AnchorIn(row, m) # NULL => AnchorIn(row, m) \in Nat
  BY RowTyped, ConstantsTyped DEF IInv, AnchorIn
<1>9. AnchorCoversSends'
  <2> SUFFICES ASSUME NEW m \in Monitor
               PROVE  /\ \A i \in 1..Len(rollout'[ThreadOf[m]]) :
                           rollout'[ThreadOf[m]][i] = m =>
                             AnchorIn(row, m) # NULL /\ AnchorIn(row, m) < i
                      /\ \A c \in calls : c.m = m =>
                           AnchorIn(row, m) # NULL /\ AnchorIn(row, m) <= Len(rollout'[ThreadOf[m]])
    BY <1>5 DEF AnchorCoversSends, AnchorIn
  <2>1. ThreadOf[m] \in Thread
    BY ConstantsTyped
  <2>2. /\ \A i \in 1..Len(rollout[ThreadOf[m]]) :
             rollout[ThreadOf[m]][i] = m => AnchorIn(row, m) # NULL /\ AnchorIn(row, m) < i
        /\ \A c \in calls : c.m = m =>
             AnchorIn(row, m) # NULL /\ AnchorIn(row, m) <= Len(rollout[ThreadOf[m]])
    BY DEF IInv, DesktopOK, AnchorCoversSends, AnchorIn
  <2>3. \A c \in calls : c.m = m =>
          AnchorIn(row, m) # NULL /\ AnchorIn(row, m) <= Len(rollout'[ThreadOf[m]])
    BY <1>4, <1>8, <2>1, <2>2
  <2>4. ASSUME NEW i \in 1..Len(rollout'[ThreadOf[m]]), rollout'[ThreadOf[m]][i] = m
        PROVE  AnchorIn(row, m) # NULL /\ AnchorIn(row, m) < i
    <3>1. CASE ThreadOf[m] # t \/ i # Len(rollout[t]) + 1
      <4>1. i \in 1..Len(rollout[ThreadOf[m]])
            /\ rollout'[ThreadOf[m]][i] = rollout[ThreadOf[m]][i]
        <5>1. CASE ThreadOf[m] = t
          BY <1>3, <1>4, <2>1, <2>4, <3>1, <5>1
        <5>2. CASE ThreadOf[m] # t
          BY <1>2, <2>1, <2>4, <5>2
        <5>3. QED
          BY <5>1, <5>2
      <4>2. QED
        BY <2>2, <2>4, <4>1
    <3>2. CASE ThreadOf[m] = t /\ i = Len(rollout[t]) + 1
      <4>1. author = m
        BY <1>3, <2>4, <3>2
      <4>2. AnchorIn(row, m) # NULL /\ AnchorIn(row, m) <= Len(rollout[t])
        BY <2>2, <3>2, <4>1
      <4>3. QED
        BY <1>1, <1>8, <3>2, <4>2
    <3>3. QED
      BY <3>1, <3>2
  <2>5. QED
    BY <2>3, <2>4
<1>10. DeliveredOnEvidence'
  <2>1. \A m \in Monitor : row[m].started_turn_id \in Offset \cup {NULL}
    BY RowTyped DEF IInv
  <2>2. \A m \in Monitor : row[m].state = "DELIVERED" => row[m].started_turn_id \in Nat
    BY <1>8 DEF IInv, DesktopOK, DeliveredOnEvidence, AnchorIn
  <2>3. QED
    BY <1>4, <1>5, <2>2, ConstantsTyped DEF IInv, DesktopOK, DeliveredOnEvidence
<1>11. \A m \in Monitor : AnchorIn(row, m) # NULL => AnchorIn(row, m) <= Shown(rollout', m)
  BY <1>4, <1>8, ConstantsTyped DEF IInv, DesktopOK, Shown
<1>12. DesktopOK'
  BY <1>2, <1>4, <1>5, <1>9, <1>10, <1>11 DEF IInv, DesktopOK, AnchorIn, Shown
<1>13. [T!Next]_(T!vars) /\ T!IInv'
  BY <1>5, TableKept DEF T!vars
<1>14. QED
  BY <1>7, <1>12, <1>13 DEF IInv, Sound

\* Neither the table nor a rollout moves, and no call is added.
LEMMA QuietStep ==
    ASSUME IInv, UNCHANGED <<storeVars, rollout, js, cmd>>,
           now' \in 0..MaxTime, archived' \subseteq Thread, calls' \subseteq calls
    PROVE  Sound
<1>1. UNCHANGED <<row, issued>>
  BY DEF storeVars
<1>2. DesktopOK'
  BY <1>1 DEF IInv, DesktopOK, AnchorCoversSends, DeliveredOnEvidence, AnchorIn, Shown
<1>3. ProcessesOK'
  BY <1>1, NothingGrows, ProcessesKept DEF IInv
<1>4. [T!Next]_(T!vars) /\ T!IInv'
  BY <1>1, TableKept DEF T!vars
<1>5. QED
  BY <1>2, <1>3, <1>4 DEF IInv, Sound

\* A call on the table from outside: a cancellation, the LaunchAgent.
LEMMA OutsideCall ==
    ASSUME IInv, TableStep, UNCHANGED <<now, desktopVars, js, cmd>>
    PROVE  Sound
<1>1. ProcessesOK'
  BY CallGrows, ProcessesKept DEF IInv, desktopVars
<1>2. QED
  BY <1>1, DesktopKept, TableKept DEF IInv, TableStep, Sound

LEMMA CallSteps ==
    ASSUME IInv, NEW c \in calls, DesktopAppends(c) \/ DesktopDrops(c)
    PROVE  Sound
<1>1. c.m \in Monitor /\ ThreadOf[c.m] \in Thread
  BY ConstantsTyped DEF IInv, DesktopOK
<1>2. CASE DesktopAppends(c)
  BY <1>1, <1>2, AppendStep DEF DesktopAppends
<1>3. CASE DesktopDrops(c)
  BY <1>3, QuietStep DEF DesktopDrops, IInv, DesktopOK
<1>4. QED
  BY <1>2, <1>3

LEMMA ThreadSteps ==
    ASSUME IInv, NEW t \in Thread, UserContinues(t) \/ Archive(t)
    PROVE  Sound
<1>1. CASE UserContinues(t)
  BY <1>1, ConstantsTyped, AppendStep DEF UserContinues
<1>2. CASE Archive(t)
  BY <1>2, QuietStep DEF Archive, IInv, DesktopOK
<1>3. QED
  BY <1>1, <1>2

LEMMA TickStep == ASSUME IInv, Tick PROVE Sound
BY ConstantsTyped, QuietStep DEF Tick, desktopVars, IInv, DesktopOK

-----------------------------------------------------------------------------
(* The invariant. *)

LEMMA InvInit == Init => IInv
<1> SUFFICES ASSUME Init PROVE IInv
  OBVIOUS
<1> DEFINE r == [S!NoRow EXCEPT !.state = "DELIVERY_PENDING", !.wake_reason = "success",
                                !.next_delivery_at = 0]
<1>1. /\ row = [m \in Monitor |-> r]
      /\ issued = 0
  BY DEF Init
<1>2. /\ r \in T!Row
      /\ r.state = "DELIVERY_PENDING" /\ r.wake_reason = "success" /\ r.next_delivery_at = 0
      /\ r.claim_token = NULL /\ r.claim_expires_at = NULL /\ r.delivery_rollout = NULL
      /\ r.started_turn_id = NULL /\ r.cancelled_at = NULL /\ r.delivery_blocked_reason = NULL
  BY ConstantsTyped DEF S!NoRow, T!Row, T!Null, T!AllStates, T!ActiveStates, T!WakeReason
<1> HIDE DEF r
<1>3. T!IInv
  <2>1. NULL # "success" /\ 0 # NULL
    BY TableAssumption DEF T!StoreAssumption, T!WakeReason
  <2>2. T!TypeOK
    BY <1>1, <1>2 DEF T!TypeOK
  <2>3. T!OneDelivering
    BY <1>1, <1>2 DEF T!OneDelivering, T!Delivering
  <2>4. T!ClaimsExclusive
    BY <1>1, <1>2 DEF T!ClaimsExclusive, T!ClaimColumns, T!ClaimedStates
  <2>5. T!DeliveryScheduled
    BY <1>1, <1>2, <2>1 DEF T!DeliveryScheduled, T!DeliveryColumns
  <2>6. T!OutcomeExclusive
    BY <1>1, <1>2 DEF T!OutcomeExclusive, T!OutcomeColumns
  <2>7. QED
    BY <2>2, <2>3, <2>4, <2>5, <2>6 DEF T!IInv
<1>4. DesktopOK
  <2>1. \A t \in Thread : rollout[t] = <<>> /\ Len(rollout[t]) = 0
    BY DEF Init
  <2>2. rollout \in [Thread -> Seq(Monitor \cup {User})]
    BY DEF Init
  <2>3. /\ now = 0 /\ archived = {} /\ calls = {}
        /\ \A m \in Monitor : row[m] = r /\ ThreadOf[m] \in Thread
    BY <1>1, ConstantsTyped DEF Init
  <2>4. AnchorCoversSends
    BY <2>1, <2>3 DEF AnchorCoversSends
  <2>5. DeliveredOnEvidence
    BY <1>2, <2>3 DEF DeliveredOnEvidence
  <2>6. QED
    BY <1>2, <2>1, <2>2, <2>3, <2>4, <2>5, ConstantsTyped DEF DesktopOK, AnchorIn
<1>5. ProcessesOK
  BY ConstantsTyped DEF Init, ProcessesOK, Resting, Loop, AwaitingChild, GoodLoop, Running
<1>6. QED
  BY <1>3, <1>4, <1>5 DEF IInv

LEMMA InvNext == IInv /\ [Next]_vars => Sound
<1> SUFFICES ASSUME IInv, [Next]_vars PROVE Sound
  OBVIOUS
<1>1. CASE UNCHANGED vars
  BY <1>1, QuietStep DEF vars, storeVars, IInv, DesktopOK
<1>2. ASSUME NEW d \in Dispatcher, DispatchOnce(d) \/ LoopStep(d) \/ Crash(d)
      PROVE  Sound
  BY <1>2, DispatchOnceStep, LoopSteps, CrashStep
<1>3. ASSUME NEW p \in Proc, CommandStep(p) \/ CommandFails(p) \/ OrphanDies(p)
      PROVE  Sound
  BY <1>3, CommandSteps
<1>4. ASSUME NEW c \in calls, DesktopAppends(c) \/ DesktopDrops(c)
      PROVE  Sound
  BY <1>4, CallSteps
<1>5. ASSUME NEW t \in Thread, UserContinues(t) \/ Archive(t)
      PROVE  Sound
  BY <1>5, ThreadSteps
<1>6. ASSUME NEW m \in Monitor, UserCancels(m)
      PROVE  Sound
  BY <1>6, CancelCall, OutsideCall DEF UserCancels
<1>7. CASE DaemonRecovers
  BY <1>7, RecoverCall, OutsideCall DEF DaemonRecovers
<1>8. CASE Tick
  BY <1>8, TickStep
<1>9. QED
  BY <1>1, <1>2, <1>3, <1>4, <1>5, <1>6, <1>7, <1>8 DEF Next

-----------------------------------------------------------------------------
(* The theorems. *)

THEOREM DispatchInvariant == Spec => []IInv
<1>1. IInv /\ [Next]_vars => IInv'
  BY InvNext DEF Sound
<1>2. QED
  BY InvInit, <1>1, PTL DEF Spec

\* The state keeps its types, and a dispatcher that awaits a child awaits one that runs.
THEOREM DispatchTyped == Spec => []TypeOK
<1>1. IInv => TypeOK
  <2> SUFFICES ASSUME IInv PROVE TypeOK
    OBVIOUS
  <2>1. S!TypeOK
    BY DEF IInv, T!IInv, T!TypeOK, S!TypeOK, T!Row, S!Row, T!AllStates, S!AllStates,
           T!ActiveStates, S!ActiveStates, T!Null, S!Null, T!WakeReason, S!WakeReason
  <2>2. QED
    BY <2>1 DEF TypeOK, IInv, DesktopOK, ProcessesOK
<1>2. QED
  BY <1>1, DispatchInvariant, PTL

\* README "accepts success only after observing an exact new `continue` after that offset": a
\* delivered row names the record right behind its anchor, and the rollout has it.
THEOREM SuccessOnEvidence == Spec => []DeliveredOnEvidence
<1>1. IInv => DeliveredOnEvidence
  BY DEF IInv, DesktopOK
<1>2. QED
  BY <1>1, DispatchInvariant, PTL

\* However attempts crash, time out and are retried, whatever was sent for a monitor lies after
\* the anchor the next attempt looks behind.
THEOREM AnchorsPrecedeSends == Spec => []AnchorCoversSends
<1>1. IInv => AnchorCoversSends
  BY DEF IInv, DesktopOK
<1>2. QED
  BY <1>1, DispatchInvariant, PTL

\* Dispatchers, their children, orphans among them, the LaunchAgent and the user change the
\* table by its calls only, with tokens, anchors and delays it accepts.
THEOREM DispatchCallsTable == Spec => [][S!Next]_(S!vars)
<1>1. T!Next => S!Next
  BY DEF T!Next, S!Next, T!Step, S!Step, T!ClaimHolder, S!ClaimHolder,
         T!Register, S!Register, T!Registered, S!Registered, T!NoRow, S!NoRow, T!Lesser, S!Lesser,
         T!Cancel, S!Cancel, T!Cancelled, S!Cancelled, T!Released, S!Released,
         T!ActiveStates, S!ActiveStates, T!RecoverStale, S!RecoverStale, T!Recovered, S!Recovered,
         T!Expired, S!Expired, T!ClaimDueCheck, S!ClaimDueCheck, T!FirstDueChecks, S!FirstDueChecks,
         T!DueChecks, S!DueChecks, T!CheckBefore, S!CheckBefore, T!FreshToken, S!FreshToken,
         T!Claimed, S!Claimed, T!ClaimDueDelivery, S!ClaimDueDelivery, T!Delivering, S!Delivering,
         T!FirstDueDeliveries, S!FirstDueDeliveries, T!DueDeliveries, S!DueDeliveries,
         T!DeliveryBefore, S!DeliveryBefore, T!CompleteCheck, S!CompleteCheck,
         T!HoldsClaim, S!HoldsClaim, T!Rearmed, S!Rearmed, T!Woken, S!Woken,
         T!RecordDeliveryAnchor, S!RecordDeliveryAnchor, T!Anchored, S!Anchored,
         T!DeliverySucceeded, S!DeliverySucceeded, T!Delivered, S!Delivered,
         T!DeliveryRetry, S!DeliveryRetry, T!Retried, S!Retried,
         T!DeliveryBlocked, S!DeliveryBlocked, T!Blocked, S!Blocked,
         T!Null, S!Null, T!WakeReason, S!WakeReason
<1>2. IInv /\ [Next]_vars => [S!Next]_(S!vars)
  BY <1>1, InvNext DEF Sound, T!vars, S!vars
<1>3. QED
  BY <1>2, DispatchInvariant, PTL DEF Spec

\* So what is proved of the table holds while dispatchers use it: one delivery is in flight, a
\* token names one claim, owed deliveries are scheduled, outcomes exclude each other.
THEOREM TableStaysConsistent ==
    Spec => [](S!OneDelivering /\ S!ClaimsExclusive /\ S!DeliveryScheduled /\ S!OutcomeExclusive)
<1>1. IInv => S!OneDelivering /\ S!ClaimsExclusive /\ S!DeliveryScheduled /\ S!OutcomeExclusive
  BY DEF IInv, T!IInv, T!OneDelivering, S!OneDelivering, T!Delivering, S!Delivering,
         T!ClaimsExclusive, S!ClaimsExclusive, T!ClaimColumns, S!ClaimColumns,
         T!ClaimedStates, S!ClaimedStates, T!DeliveryScheduled, S!DeliveryScheduled,
         T!DeliveryColumns, S!DeliveryColumns, T!OutcomeExclusive, S!OutcomeExclusive,
         T!OutcomeColumns, S!OutcomeColumns
<1>2. QED
  BY <1>1, DispatchInvariant, PTL

\* No late answer of an orphan, no retry and no recovery touches a finished row.
THEOREM FinishedRowsFrozen == Spec => S!TerminalFrozen
<1>1. IInv /\ [Next]_vars => [\A m \in Monitor : S!Terminal(row[m]) => row'[m] = row[m]]_(S!vars)
  <2> SUFFICES ASSUME IInv, [Next]_vars, ~ UNCHANGED S!vars, NEW m \in Monitor, S!Terminal(row[m])
               PROVE  row'[m] = row[m]
    OBVIOUS
  <2>1. T!Next /\ T!Terminal(row[m])
    BY InvNext DEF Sound, T!vars, S!vars, T!Terminal, S!Terminal
  <2>2. QED
    BY <2>1, TableAssumption, T!TerminalStep DEF IInv
<1>2. QED
  BY <1>1, DispatchInvariant, PTL DEF Spec, S!TerminalFrozen

\* What status shows of a delivery never goes back while it is attempted.
THEOREM ShownPhaseAdvances == Spec => S!PhaseAdvances
<1>1. IInv /\ [Next]_vars =>
        [\A m \in Monitor :
            LET before == S!Delivery_phase(row[m])
                after == S!Delivery_phase(row'[m])
            IN  after # before => after \in S!LaterPhases(before)]_(S!vars)
  <2> SUFFICES ASSUME IInv, [Next]_vars, ~ UNCHANGED S!vars, NEW m \in Monitor
               PROVE  S!Delivery_phase(row'[m]) # S!Delivery_phase(row[m]) =>
                        S!Delivery_phase(row'[m]) \in S!LaterPhases(S!Delivery_phase(row[m]))
    OBVIOUS
  <2>1. T!Next
    BY InvNext DEF Sound, T!vars, S!vars
  <2>2. T!Ahead(row[m], row'[m])
    BY <2>1, TableAssumption, T!PhaseStep DEF IInv
  <2>3. QED
    BY <2>2 DEF T!Ahead, T!Delivery_phase, S!Delivery_phase, T!LaterPhases, S!LaterPhases
<1>2. QED
  BY <1>1, DispatchInvariant, PTL DEF Spec, S!PhaseAdvances

\* What dispatchers and the user do to a wait are the steps of module Wait: it is delivered
\* once, to one turn, or cancelled, and what it was woken for stays.
THEOREM DispatchKeepsWaits == Spec => [][S!W!Next]_(S!W!vars)
<1>1. IInv /\ [Next]_vars => [T!W!Next]_(T!W!vars)
  BY InvNext, TableAssumption, T!RefineNext DEF Sound, IInv
<1>2. [T!W!Next]_(T!W!vars) => [S!W!Next]_(S!W!vars)
  BY DEF T!W!Next, S!W!Next, T!W!vars, S!W!vars, T!W!Register, S!W!Register, T!W!Wake, S!W!Wake,
         T!W!Deliver, S!W!Deliver, T!W!Cancel, S!W!Cancel, T!PhaseOf, S!PhaseOf,
         T!WakeReason, S!WakeReason
<1>3. QED
  BY <1>1, <1>2, DispatchInvariant, PTL DEF Spec

-----------------------------------------------------------------------------
(***************************************************************************)
(* What the timeouts of module Dispatch are for, for any number of         *)
(* monitors, dispatchers and claims, whatever crashes, fails or is         *)
(* cancelled, if they are Punctual: a dispatcher writes to the native pipe *)
(* while no other attempt holds the claim, and a task never shows two      *)
(* continues sent for one monitor.                                         *)
(*                                                                         *)
(* The argument is a budget.  Whoever may still send for a monitor has     *)
(* until some time to do so, the sum of the alarms that remain, and until  *)
(* then the row cannot be claimed again (Safe): its claim has not expired, *)
(* or was given back with a longer backoff, or the delivery is over.       *)
(* Hence one at most may send for a monitor, and the next attempt starts   *)
(* after the message is shown or lost.                                     *)
(***************************************************************************)

\* Nobody can claim row r before the clock has passed by, except for the holder of tok.
Safe(r, tok, by) ==
    \/ r.state = "DELIVERING" /\ r.claim_token = tok /\ by < r.claim_expires_at
    \/ r.state = "DELIVERY_PENDING" /\ by < r.next_delivery_at
    \/ r.state \in {"DELIVERED", "CANCELLED"}

\* A command whose claim may yet be sent, and a dispatcher that has not sent it.
MaySend(c) == c.pc \in {"anchor", "record", "find"} \/ c.result = "claim"
Sending(j) == j.pc \in {"before", "send"}

\* What follows an observation: the tools are listed, the message is shown.
Margin == ListTimeout + VisibleDelay

\* At time n, with k tokens issued.
TimedCommand(c, r, n, k) ==
    /\ n <= c.by
    /\ c.op = "claim" => c.by <= n + CommandTimeout
    /\ c.tok # NULL => c.tok <= k
    /\ MaySend(c) => Safe(r[c.m], c.tok, c.by + ObserveGrace + Margin)

TimedLoop(j, cm, r, n, k) ==
    /\ j.tok # NULL => j.tok <= k
    /\ j.pc = "before" => /\ cm[j.child].by <= n + ObserveGrace
                          /\ Safe(r[j.m], j.tok, cm[j.child].by + Margin)
    /\ j.pc = "send" => /\ n <= j.by /\ j.by <= n + ListTimeout
                        /\ Safe(r[j.m], j.tok, j.by + VisibleDelay)

TimedCall(c, r, n) ==
    n <= c.by /\ c.by <= n + VisibleDelay /\ Safe(r[c.m], c.tok, c.by)

Timed ==
    /\ \A p \in Proc : Running(p) => TimedCommand(cmd[p], row, now, issued)
    /\ \A d \in Dispatcher : TimedLoop(js[d], cmd, row, now, issued)
    /\ \A c \in calls : TimedCall(c, row, now)

\* The token of a claim that was not handed out is known to its command alone, so nobody can
\* give the claim back behind its back with a backoff counted from earlier than its alarms.
OwnToken ==
    \A p \in Proc : Running(p) /\ MaySend(cmd[p]) =>
        /\ \A q \in Proc : Running(q) /\ q # p => cmd[q].tok # cmd[p].tok
        /\ \A d \in Dispatcher : js[d].tok # cmd[p].tok

IsShown(s, m) == \E i \in 1..Len(s[ThreadOf[m]]) : s[ThreadOf[m]][i] = m
IsSent(C, m) == \E c \in C : c.m = m

\* At most one process may send for a monitor.
OneProspect ==
    /\ \A p, q \in Proc : p # q /\ Running(p) /\ Running(q) /\ MaySend(cmd[p]) /\ MaySend(cmd[q]) =>
         cmd[p].m # cmd[q].m
    /\ \A p \in Proc, d \in Dispatcher : Running(p) /\ MaySend(cmd[p]) /\ Sending(js[d]) =>
         cmd[p].m # js[d].m
    /\ \A d, e \in Dispatcher : d # e /\ Sending(js[d]) /\ Sending(js[e]) => js[d].m # js[e].m

\* And while it may, nothing is on its way; once it has looked, nothing is shown.
Fresh ==
    /\ \A p \in Proc : Running(p) /\ MaySend(cmd[p]) => ~IsSent(calls, cmd[p].m)
    /\ \A p \in Proc : Running(p) /\ cmd[p].result = "claim" => ~IsShown(rollout, cmd[p].m)
    /\ \A d \in Dispatcher : Sending(js[d]) =>
         ~IsSent(calls, js[d].m) /\ ~IsShown(rollout, js[d].m)

\* A message on its way is the first and the only one for its monitor.
Once ==
    /\ \A c \in calls : ~IsShown(rollout, c.m)
    /\ \A c, e \in calls : c.m = e.m => c = e
    /\ NoDuplicateContinue

Prospects == Timed /\ OwnToken /\ OneProspect /\ Fresh /\ Once

TimelyInv == IInv /\ Prospects

-----------------------------------------------------------------------------
(* The table.  No call lets a row be claimed before its time, but for a     *)
(* retry, whose backoff counts from now.                                   *)

\* X holds the tokens with which the step may give back a claim for a retry.
SafeKept(X) ==
    \A m \in Monitor, tok \in Token, by \in Nat :
        now <= by /\ Safe(row[m], tok, by) /\ (tok \in X => by < now + RetryBase) =>
            Safe(row'[m], tok, by)

\* The times of a row are there when they count.
LEMMA RowTimes ==
    ASSUME IInv, NEW m \in Monitor
    PROVE  /\ row[m].state = "DELIVERING" => row[m].claim_expires_at \in Nat
           /\ row[m].state = "DELIVERY_PENDING" => row[m].next_delivery_at \in Nat
           /\ row[m].state # "DELIVERING" /\ row[m].state # "CHECKING" => row[m].claim_token = NULL
BY DEF IInv, T!IInv, T!TypeOK, T!Row, T!Null, T!ClaimsExclusive, T!ClaimColumns, T!ClaimedStates,
       T!DeliveryScheduled, T!DeliveryColumns

LEMMA NoCallSafe == ASSUME UNCHANGED row PROVE SafeKept({})
BY DEF SafeKept

LEMMA SafeWeaker == ASSUME SafeKept({}), NEW X PROVE SafeKept(X)
BY DEF SafeKept

\* Who may send until some time may send until an earlier one.
LEMMA SafeSooner ==
    ASSUME IInv, NEW m \in Monitor, NEW tok, NEW by \in Nat, NEW sooner \in Nat, sooner <= by,
           Safe(row[m], tok, by)
    PROVE  Safe(row[m], tok, sooner)
BY RowTimes DEF Safe

\* A call that writes one row.
LEMMA OneRowSafe ==
    ASSUME IInv, NEW n \in Monitor, NEW q, row' = [row EXCEPT ![n] = q], NEW X,
           \A tok \in Token, by \in Nat :
             now <= by /\ Safe(row[n], tok, by) /\ (tok \in X => by < now + RetryBase) =>
               Safe(q, tok, by)
    PROVE  SafeKept(X)
<1>1. row'[n] = q /\ \A m \in Monitor : m # n => row'[m] = row[m]
  BY RowTyped DEF IInv
<1>2. QED
  BY <1>1 DEF SafeKept

LEMMA RecoverSafe == ASSUME IInv, S!RecoverStale(now) PROVE SafeKept({})
<1> SUFFICES ASSUME NEW m \in Monitor, NEW tok \in Token, NEW by \in Nat,
                    now <= by, Safe(row[m], tok, by)
             PROVE  Safe(row'[m], tok, by)
  BY DEF SafeKept
<1>1. row'[m] = S!Recovered(row[m], now)
  BY DEF S!RecoverStale
<1>2. row[m].state = "DELIVERING" => ~S!Expired(row[m], now)
  BY RowTimes, ConstantsTyped DEF Safe, S!Expired, IInv, DesktopOK
<1>3. row[m].state # "CHECKING"
  BY DEF Safe
<1>4. row'[m] = row[m]
  BY <1>1, <1>2, <1>3 DEF S!Recovered
<1>5. QED
  BY <1>4

LEMMA CancelSafe == ASSUME IInv, NEW m \in Monitor, S!Cancel(m, now) PROVE SafeKept({})
<1>1. S!Cancelled(row[m], now).state = "CANCELLED"
  BY RowTyped DEF IInv, S!Cancelled, S!Released, T!Row
<1>2. QED
  BY <1>1, OneRowSafe DEF S!Cancel, Safe

LEMMA BlockedSafe ==
    ASSUME IInv, NEW m \in Monitor, NEW tok, NEW reason, S!DeliveryBlocked(m, tok, reason, now)
    PROVE  SafeKept({})
<1>1. S!Blocked(row[m], reason, now).state = "CANCELLED"
  BY RowTyped DEF IInv, S!Blocked, S!Released, T!Row
<1>2. QED
  BY <1>1, OneRowSafe DEF S!DeliveryBlocked, Safe

LEMMA SucceededSafe ==
    ASSUME IInv, NEW m \in Monitor, NEW tok, NEW a, NEW t, S!DeliverySucceeded(m, tok, a, t)
    PROVE  SafeKept({})
<1>1. S!Delivered(row[m], a, t).state = "DELIVERED"
  BY RowTyped DEF IInv, S!Delivered, S!Released, T!Row
<1>2. QED
  BY <1>1, OneRowSafe DEF S!DeliverySucceeded, Safe

LEMMA AnchorSafe ==
    ASSUME IInv, NEW m \in Monitor, NEW tok, NEW a, S!RecordDeliveryAnchor(m, tok, a)
    PROVE  SafeKept({})
<1> DEFINE q == S!Anchored(row[m], a)
<1>1. /\ q.state = row[m].state
      /\ q.claim_token = row[m].claim_token
      /\ q.claim_expires_at = row[m].claim_expires_at
      /\ q.next_delivery_at = row[m].next_delivery_at
  BY RowTyped DEF IInv, S!Anchored, T!Row
<1>2. row' = [row EXCEPT ![m] = q]
  BY DEF S!RecordDeliveryAnchor
<1> HIDE DEF q
<1>3. \A at, by : Safe(row[m], at, by) => Safe(q, at, by)
  BY <1>1 DEF Safe
<1>4. QED
  BY <1>2, <1>3, OneRowSafe

LEMMA RetrySafe ==
    ASSUME IInv, NEW m \in Monitor, NEW tok \in Token, NEW delay \in Nat, RetryBase <= delay,
           S!DeliveryRetry(m, tok, delay, now)
    PROVE  SafeKept({tok})
<1> DEFINE q == S!Retried(row[m], delay, now)
<1>1. q.state = "DELIVERY_PENDING" /\ q.next_delivery_at = now + delay
  BY RowTyped DEF IInv, S!Retried, S!Released, T!Row
<1>2. row' = [row EXCEPT ![m] = q] /\ row[m].state = "DELIVERING" /\ row[m].claim_token = tok
  BY DEF S!DeliveryRetry, S!HoldsClaim
<1> HIDE DEF q
<1>3. now \in Nat /\ RetryBase \in Nat
  BY ConstantsTyped DEF IInv, DesktopOK
<1>4. ASSUME NEW t \in Token, NEW by \in Nat,
             Safe(row[m], t, by), t \in {tok} => by < now + RetryBase
      PROVE  Safe(q, t, by)
  <2>1. t = tok
    BY <1>2, <1>4 DEF Safe
  <2>2. by < now + delay
    BY <1>3, <1>4, <2>1
  <2>3. QED
    BY <1>1, <2>2 DEF Safe
<1>5. QED
  BY <1>2, <1>4, OneRowSafe

\* A claim is taken for a row nobody may send for any more.
LEMMA ClaimSafe ==
    ASSUME IInv, NEW m \in Monitor, NEW tok \in Token, S!ClaimDueDelivery(m, tok, now)
    PROVE  /\ \A t \in Token, by \in Nat : now <= by => ~Safe(row[m], t, by)
           /\ row'[m].state = "DELIVERING" /\ row'[m].claim_token = tok
           /\ row'[m].claim_expires_at = now + DeliveryLease
           /\ tok = issued + 1 /\ issued' = tok
           /\ SafeKept({})
<1> DEFINE q == [S!Claimed(row[m], "DELIVERING", tok, now + DeliveryLease)
                   EXCEPT !.delivery_attempts = @ + 1]
<1>1. row' = [row EXCEPT ![m] = q] /\ tok = issued + 1 /\ issued' = tok
  BY DEF S!ClaimDueDelivery, S!FreshToken
<1>2. q.state = "DELIVERING" /\ q.claim_token = tok /\ q.claim_expires_at = now + DeliveryLease
  BY RowTyped DEF IInv, S!Claimed, T!Row
<1> HIDE DEF q
<1>3. row'[m] = q
  BY <1>1, RowTyped DEF IInv
<1>4. row[m].state = "DELIVERY_PENDING" /\ row[m].next_delivery_at <= now
  BY RowTimes, ConstantsTyped DEF S!ClaimDueDelivery, S!FirstDueDeliveries, S!DueDeliveries
<1>5. \A t \in Token, by \in Nat : now <= by => ~Safe(row[m], t, by)
  BY <1>4, RowTimes, ConstantsTyped DEF Safe, IInv, DesktopOK
<1>6. SafeKept({})
  BY <1>1, <1>5, OneRowSafe
<1>7. QED
  BY <1>1, <1>2, <1>3, <1>5, <1>6

\* retry_delay never returns less than --retry-seconds.
LEMMA BackoffLong == ASSUME NEW attempt \in Nat PROVE RetryBase <= Backoff(attempt)
<1> DEFINE base == IF RetryBase > 1 THEN RetryBase ELSE 1
           cap == IF base > RetryCap THEN base ELSE RetryCap
           exponent == S!Lesser(IF attempt > 1 THEN attempt - 1 ELSE 0, 16)
           power == 2^exponent
<1>1. base \in Nat /\ cap \in Nat /\ RetryBase <= base /\ base <= cap
  BY ConstantsTyped
<1>2. exponent \in Nat
  BY DEF S!Lesser
<1>3. power \in Nat
  BY <1>2, PowerOfTwo
<1>4. power # 0
  BY <1>2, PowerOfTwo
<1> HIDE DEF base, cap, exponent, power
<1>5. base <= base * power
  <2>1. PICK k \in Nat : power = k + 1
    <3>1. power - 1 \in Nat /\ power = (power - 1) + 1
      BY <1>3, <1>4
    <3>2. QED
      BY <3>1
  <2>2. base * power = base * k + base /\ base * k \in Nat
    BY <1>1, <2>1
  <2>3. QED
    BY <1>1, <2>2
<1>6. RetryBase <= S!Lesser(cap, base * power)
  BY <1>1, <1>3, <1>5, ConstantsTyped DEF S!Lesser
<1>7. QED
  BY <1>6 DEF Backoff, base, cap, exponent, power

-----------------------------------------------------------------------------
(* Time.  What is granted to a process, a dispatcher or a message stays     *)
(* granted while others run.                                               *)

LEMMA ClockTyped == ASSUME IInv PROVE now \in Nat /\ issued \in Nat
BY ConstantsTyped DEF IInv, DesktopOK, T!IInv, T!TypeOK

LEMMA TokensNat == Token \subseteq Nat \ {0}
BY DispatchAssumption DEF DispatchAssumption

\* What is known of those who may send.
LEMMA MaySendKnown ==
    ASSUME IInv, NEW p \in Proc, Running(p)
    PROVE  /\ cmd[p].by \in Nat /\ cmd[p].tok \in Token \cup {NULL}
           /\ MaySend(cmd[p]) => cmd[p].m \in Monitor /\ cmd[p].tok \in Token /\ cmd[p].tok # NULL
BY RunningCommand, ConstantsTyped DEF MaySend, GoodCommand, Command

LEMMA SendingKnown ==
    ASSUME IInv, NEW d \in Dispatcher
    PROVE  /\ js[d].by \in Nat /\ js[d].tok \in Token \cup {NULL}
           /\ Sending(js[d]) => js[d].m \in Monitor /\ js[d].tok \in Token
           /\ js[d].pc = "before" => /\ js[d].child \in Proc /\ Running(js[d].child)
                                     /\ cmd[js[d].child].by \in Nat
<1>1. js[d] \in Loop
  BY LoopKnown
<1>2. js[d].pc = "before" => js[d].child \in Proc /\ Running(js[d].child)
  BY LoopKnown DEF AwaitingChild
<1>3. QED
  BY <1>1, <1>2, LoopKnown, MaySendKnown DEF Loop, Sending

LEMMA CallKnown ==
    ASSUME IInv, NEW c \in calls
    PROVE  c.m \in Monitor /\ c.tok \in Token /\ c.by \in Nat
BY DEF IInv, DesktopOK

LEMMA TimedCommandKept ==
    ASSUME IInv, NEW p \in Proc, Running(p), TimedCommand(cmd[p], row, now, issued),
           NEW X, SafeKept(X), MaySend(cmd[p]) => cmd[p].tok \notin X,
           NEW k \in Nat, issued <= k
    PROVE  TimedCommand(cmd[p], row', now, k)
<1> DEFINE c == cmd[p]
           by == c.by + ObserveGrace + Margin
<1>1. c.by \in Nat /\ c.tok \in Token \cup {NULL} /\ (MaySend(c) => c.m \in Monitor /\ c.tok \in Token)
  BY MaySendKnown
<1>2. by \in Nat /\ (now <= c.by => now <= by)
  BY <1>1, ClockTyped, ConstantsTyped DEF Margin
<1>3. c.tok # NULL => c.tok <= k
  <2>1. c.tok # NULL => c.tok \in Nat /\ c.tok <= issued
    BY <1>1, TokensNat DEF TimedCommand
  <2>2. issued \in Nat
    BY ClockTyped
  <2> HIDE DEF c
  <2>3. QED
    BY <2>1, <2>2
<1> HIDE DEF c
<1>4. ASSUME MaySend(c) PROVE Safe(row'[c.m], c.tok, by)
  <2>1. c.m \in Monitor /\ c.tok \in Token /\ c.tok \notin X
    BY <1>1, <1>4 DEF c
  <2>2. now <= c.by /\ Safe(row[c.m], c.tok, by)
    BY <1>4 DEF TimedCommand, c
  <2> HIDE DEF by
  <2>3. QED
    BY <1>2, <2>1, <2>2 DEF SafeKept
<1>5. QED
  BY <1>3, <1>4 DEF TimedCommand, c

LEMMA TimedLoopKept ==
    ASSUME Punctual, IInv, Timed, NEW d \in Dispatcher,
           NEW X, SafeKept(X), NEW k \in Nat, issued <= k, NEW cm,
           js[d].pc = "before" => cm[js[d].child].by = cmd[js[d].child].by
    PROVE  TimedLoop(js[d], cm, row', now, k)
<1> DEFINE j == js[d]
           b == cmd[j.child].by
<1>1. now \in Nat /\ RetryBase \in Nat /\ Margin \in Nat /\ ObserveGrace \in Nat
      /\ VisibleDelay \in Nat /\ ListTimeout \in Nat
  BY ClockTyped, ConstantsTyped DEF Margin
<1>2. /\ ObserveGrace + Margin < RetryBase
      /\ ListTimeout + VisibleDelay < RetryBase
  BY ConstantsTyped DEF Punctual, Margin
<1>3. /\ j.by \in Nat /\ j.tok \in Token \cup {NULL}
      /\ Sending(j) => j.m \in Monitor /\ j.tok \in Token
      /\ j.pc = "before" => j.child \in Proc /\ Running(j.child) /\ b \in Nat
  BY SendingKnown
<1>4. TimedLoop(j, cmd, row, now, issued)
  BY DEF Timed
<1>5. j.tok # NULL => j.tok <= k
  <2>1. j.tok # NULL => j.tok \in Nat /\ j.tok <= issued
    BY <1>3, <1>4, TokensNat DEF TimedLoop
  <2> HIDE DEF j
  <2>2. QED
    BY <2>1, ClockTyped
<1>6. ASSUME j.pc = "before" PROVE b <= now + ObserveGrace /\ Safe(row'[j.m], j.tok, b + Margin)
  <2>1. now <= b /\ b <= now + ObserveGrace /\ Safe(row[j.m], j.tok, b + Margin)
    BY <1>3, <1>4, <1>6 DEF Timed, TimedCommand, TimedLoop
  <2>2. b + Margin \in Nat /\ now <= b + Margin /\ b + Margin < now + RetryBase
    BY <1>1, <1>2, <1>3, <1>6, <2>1
  <2>3. j.m \in Monitor /\ j.tok \in Token
    BY <1>3, <1>6 DEF Sending
  <2> HIDE DEF b, j
  <2>4. QED
    BY <2>1, <2>2, <2>3 DEF SafeKept
<1>7. ASSUME j.pc = "send" PROVE Safe(row'[j.m], j.tok, j.by + VisibleDelay)
  <2>1. now <= j.by /\ j.by <= now + ListTimeout /\ Safe(row[j.m], j.tok, j.by + VisibleDelay)
    BY <1>4, <1>7 DEF TimedLoop
  <2>2. j.by + VisibleDelay \in Nat /\ now <= j.by + VisibleDelay /\ j.by + VisibleDelay < now + RetryBase
    BY <1>1, <1>2, <1>3, <2>1
  <2>3. j.m \in Monitor /\ j.tok \in Token
    BY <1>3, <1>7 DEF Sending
  <2> HIDE DEF j
  <2>4. QED
    BY <2>1, <2>2, <2>3 DEF SafeKept
<1>8. QED
  BY <1>4, <1>5, <1>6, <1>7 DEF TimedLoop

LEMMA TimedCallKept ==
    ASSUME Punctual, IInv, Timed, NEW c \in calls, NEW X, SafeKept(X)
    PROVE  TimedCall(c, row', now)
<1>1. c.m \in Monitor /\ c.tok \in Token /\ c.by \in Nat
  BY CallKnown
<1>2. now <= c.by /\ c.by <= now + VisibleDelay /\ Safe(row[c.m], c.tok, c.by)
  BY DEF Timed, TimedCall
<1>3. c.by < now + RetryBase
  BY <1>1, <1>2, ClockTyped, ConstantsTyped DEF Punctual
<1>4. QED
  BY <1>1, <1>2, <1>3 DEF SafeKept, TimedCall

-----------------------------------------------------------------------------
(* The steps of a state command. *)

\* A command moves on with the claim it has, or ends; it may send only if it might before.
LEMMA CommandMoves ==
    ASSUME Punctual, TimelyInv, NEW p \in Proc, Running(p), NEW c,
           cmd' = [cmd EXCEPT ![p] = c], UNCHANGED <<issued, now, desktopVars, js>>,
           SafeKept({cmd[p].tok}),
           \/ c = Idle /\ Orphan(p)
           \/ /\ c \in Command
              /\ c.by = cmd[p].by /\ c.op = cmd[p].op /\ c.m = cmd[p].m /\ c.tok = cmd[p].tok
              /\ MaySend(c) => MaySend(cmd[p]) /\ SafeKept({})
              /\ c.result = "claim" => ~IsShown(rollout, c.m)
    PROVE  Prospects'
<1> USE DEF TimelyInv
<1>1. /\ cmd'[p] = c
      /\ \A q \in Proc : q # p => cmd'[q] = cmd[q]
  BY RunningCommand
<1>2. /\ issued \in Nat /\ issued' = issued /\ now' = now /\ js' = js
      /\ rollout' = rollout /\ calls' = calls
  BY ClockTyped DEF desktopVars
<1>3. \A q \in Proc : cmd'[q] # Idle /\ MaySend(cmd'[q]) =>
         /\ Running(q) /\ MaySend(cmd[q])
         /\ cmd'[q].m = cmd[q].m /\ cmd'[q].tok = cmd[q].tok
  BY <1>1, IdleIsNone DEF Running
<1>4. \A q \in Proc : cmd'[q] # Idle => Running(q) /\ cmd'[q].tok = cmd[q].tok
  BY <1>1, IdleIsNone DEF Running
<1>5. \A q \in Proc : cmd'[q] # Idle => TimedCommand(cmd'[q], row', now, issued)
  <2> SUFFICES ASSUME NEW q \in Proc, cmd'[q] # Idle
               PROVE  TimedCommand(cmd'[q], row', now, issued)
    OBVIOUS
  <2>0. Running(q) /\ TimedCommand(cmd[q], row, now, issued)
    BY <1>4 DEF Prospects, Timed
  <2>1. CASE q # p
    <3>1. MaySend(cmd[q]) => cmd[q].tok \notin {cmd[p].tok}
      BY <2>0, <2>1 DEF Prospects, OwnToken
    <3>2. TimedCommand(cmd[q], row', now, issued)
      BY <1>2, <2>0, <3>1, TimedCommandKept
    <3>3. QED
      BY <1>1, <2>1, <3>2
  <2>2. CASE q = p /\ c \in Command /\ MaySend(c)
    <3>1. TimedCommand(cmd[p], row', now, issued)
      BY <1>1, <1>2, <2>0, <2>2, TimedCommandKept, IdleIsNone
    <3>2. QED
      BY <1>1, <2>2, <3>1, IdleIsNone DEF TimedCommand
  <2>3. CASE q = p /\ c \in Command /\ ~MaySend(c)
    BY <1>1, <2>0, <2>3, IdleIsNone DEF TimedCommand
  <2>4. QED
    BY <1>1, <2>1, <2>2, <2>3
<1>6. \A d \in Dispatcher : TimedLoop(js[d], cmd', row', now, issued)
  <2> SUFFICES ASSUME NEW d \in Dispatcher PROVE TimedLoop(js[d], cmd', row', now, issued)
    OBVIOUS
  <2>1. js[d].pc = "before" => cmd'[js[d].child].by = cmd[js[d].child].by
    BY <1>1, SendingKnown, IdleIsNone DEF Orphan
  <2>2. IInv /\ Timed /\ issued \in Nat /\ issued <= issued
    BY <1>2 DEF Prospects
  <2>3. QED
    BY <2>1, <2>2, TimedLoopKept
<1>7. \A e \in calls : TimedCall(e, row', now)
  BY TimedCallKept DEF Prospects
<1>8. Timed'
  BY <1>2, <1>5, <1>6, <1>7 DEF Timed, Running
<1>9. OwnToken'
  BY <1>2, <1>3, <1>4 DEF Prospects, OwnToken, Running
<1>10. OneProspect'
  BY <1>2, <1>3 DEF Prospects, OneProspect, Running
<1>11. \A q \in Proc : cmd'[q] # Idle /\ cmd'[q].result = "claim" => ~IsShown(rollout, cmd'[q].m)
  BY <1>1, IdleIsNone DEF Prospects, Fresh, Running
<1>12. Fresh'
  BY <1>2, <1>3, <1>11 DEF Prospects, Fresh, Running
<1>13. Once'
  BY <1>2 DEF Prospects, Once, NoDuplicateContinue
<1>14. QED
  BY <1>8, <1>9, <1>10, <1>12, <1>13 DEF Prospects

\* Before an answer there is no result; only the claim command answers with a claim.
LEMMA FinishMoves ==
    ASSUME Punctual, TimelyInv, NEW p \in Proc, Running(p), NEW result \in Result,
           Finish(p, result), UNCHANGED <<issued, now, desktopVars, js>>,
           SafeKept({cmd[p].tok}),
           result = "claim" => MaySend(cmd[p]) /\ SafeKept({}) /\ ~IsShown(rollout, cmd[p].m)
    PROVE  Prospects'
<1> DEFINE b == [cmd[p] EXCEPT !.pc = "done", !.result = result]
           c == IF Orphan(p) THEN Idle ELSE b
<1>1. cmd[p] \in Command
  BY RunningCommand DEF TimelyInv
<1>2. b \in Command
  BY <1>1 DEF Command, Result
<1>3. /\ b.pc = "done" /\ b.result = result /\ b.by = cmd[p].by
      /\ b.m = cmd[p].m /\ b.tok = cmd[p].tok /\ b.op = cmd[p].op
  BY <1>1 DEF Command
<1> HIDE DEF b
<1>4. MaySend(b) => result = "claim"
  BY <1>3 DEF MaySend
<1>5. \/ c = Idle /\ Orphan(p)
      \/ c = b
  OBVIOUS
<1>6. cmd' = [cmd EXCEPT ![p] = c]
  BY DEF Finish, b
<1> HIDE DEF c
<1>7. QED
  BY <1>2, <1>3, <1>4, <1>5, <1>6, CommandMoves

LEMMA EndsMoves ==
    ASSUME Punctual, TimelyInv, NEW p \in Proc, Running(p), NEW result \in Result \ {"claim"},
           Ends(p, result), UNCHANGED <<issued, now, desktopVars, js>>, SafeKept({cmd[p].tok})
    PROVE  Prospects'
<1>1. CASE Finish(p, result)
  BY <1>1, FinishMoves
<1>2. CASE Finish(p, "error")
  BY <1>2, FinishMoves DEF Result
<1>3. QED
  BY <1>1, <1>2 DEF Ends

\* A command at pc, with what it has read.
Moved(b, pc, a, t, permanent) ==
    [b EXCEPT !.pc = pc, !.anchor = a, !.turn = t, !.permanent = permanent]

\* A command goes to pc; those that may not send stay that way.
LEMMA GotoMoves ==
    ASSUME Punctual, TimelyInv, NEW p \in Proc, Running(p), cmd[p].pc # "done",
           UNCHANGED <<issued, now, desktopVars, js>>, SafeKept({}),
           NEW pc \in {"lease", "anchor", "record", "find", "succeed", "fail"},
           NEW a \in Offset \cup {NULL}, NEW t \in Offset \cup {NULL}, NEW permanent \in BOOLEAN,
           cmd' = [cmd EXCEPT ![p] = Moved(cmd[p], pc, a, t, permanent)],
           pc \in {"anchor", "record", "find"} => cmd[p].pc \in {"anchor", "record", "find"}
    PROVE  Prospects'
<1> DEFINE c == Moved(cmd[p], pc, a, t, permanent)
<1>1. cmd[p] \in Command /\ GoodCommand(cmd[p], row, rollout)
  BY RunningCommand DEF TimelyInv
<1>2. cmd' = [cmd EXCEPT ![p] = c] /\ c = Moved(cmd[p], pc, a, t, permanent)
  OBVIOUS
<1> HIDE DEF c
<1>3. /\ c \in Command
      /\ c.pc = pc /\ c.result = cmd[p].result /\ c.by = cmd[p].by
      /\ c.m = cmd[p].m /\ c.tok = cmd[p].tok /\ c.op = cmd[p].op
  <2>1. c \in Command
    BY <1>1, <1>2 DEF Command, Moved
  <2>2. c.pc = pc
    BY <1>1, <1>2 DEF Command, Moved
  <2>3. c.result = cmd[p].result /\ c.by = cmd[p].by
    BY <1>1, <1>2 DEF Command, Moved
  <2>4. c.m = cmd[p].m /\ c.tok = cmd[p].tok /\ c.op = cmd[p].op
    BY <1>1, <1>2 DEF Command, Moved
  <2>5. QED
    BY <2>1, <2>2, <2>3, <2>4
<1>4. cmd[p].result # "claim"
  BY <1>1, ConstantsTyped DEF GoodCommand
<1>5. MaySend(c) => MaySend(cmd[p])
  BY <1>3, <1>4 DEF MaySend
<1>6. SafeKept({cmd[p].tok})
  BY SafeWeaker
<1>7. QED
  BY <1>2, <1>3, <1>4, <1>5, <1>6, CommandMoves

LEMMA RaiseMoves ==
    ASSUME Punctual, TimelyInv, NEW p \in Proc, Running(p), cmd[p].pc # "done",
           UNCHANGED <<storeVars, now, desktopVars, js>>, NEW permanent \in BOOLEAN,
           Raise(p, permanent)
    PROVE  Prospects'
<1> DEFINE c == cmd[p]
<1>1. c \in Command /\ cmd \in [Proc -> Command \cup {Idle}] /\ SafeKept({})
  BY RunningCommand, NoCallSafe DEF TimelyInv, storeVars
<1>2. c.anchor \in Offset \cup {NULL} /\ c.turn \in Offset \cup {NULL}
  BY <1>1 DEF Command
<1>3. cmd' = [cmd EXCEPT ![p] = Moved(c, "fail", c.anchor, c.turn, permanent)]
  <2>1. [c EXCEPT !.pc = "fail", !.permanent = permanent]
          = Moved(c, "fail", c.anchor, c.turn, permanent)
    BY <1>1 DEF Command, Moved
  <2>2. cmd' = [cmd EXCEPT ![p] = [c EXCEPT !.pc = "fail", !.permanent = permanent]]
    BY <1>1 DEF Raise
  <2>3. QED
    BY <2>1, <2>2
<1>4. QED
  BY <1>1, <1>2, <1>3, GotoMoves DEF storeVars

LEMMA RecoverTimely == ASSUME Punctual, TimelyInv, NEW p \in Proc, Recover(p) PROVE Prospects'
<1> DEFINE c == cmd[p]
<1>1. Running(p) /\ c.pc = "recover"
  BY DEF Recover, At
<1>2. c \in Command /\ cmd \in [Proc -> Command \cup {Idle}] /\ SafeKept({})
  BY <1>1, RunningCommand, RecoverSafe DEF TimelyInv, Recover
<1>3. c.anchor \in Offset \cup {NULL} /\ c.turn \in Offset \cup {NULL} /\ c.permanent \in BOOLEAN
  BY <1>2 DEF Command
<1>4. cmd' = [cmd EXCEPT ![p] = Moved(c, "lease", c.anchor, c.turn, c.permanent)]
  <2>1. [c EXCEPT !.pc = "lease"]
          = Moved(c, "lease", c.anchor, c.turn, c.permanent)
    BY <1>2 DEF Command, Moved
  <2>2. cmd' = [cmd EXCEPT ![p] = [c EXCEPT !.pc = "lease"]]
    BY <1>2 DEF Recover, Goto
  <2>3. QED
    BY <2>1, <2>2
<1>5. issued' = issued
  BY DEF Recover, S!RecoverStale
<1>6. QED
  BY <1>1, <1>2, <1>3, <1>4, <1>5, GotoMoves DEF Recover

LEMMA PrepareAnchorTimely ==
    ASSUME Punctual, TimelyInv, NEW p \in Proc, PrepareAnchor(p)
    PROVE  Prospects'
<1> DEFINE c == cmd[p]
           t == ThreadOf[c.m]
<1>1. Running(p) /\ c.pc = "anchor" /\ IInv
  BY DEF PrepareAnchor, At, TimelyInv
<1>2. c \in Command /\ cmd \in [Proc -> Command \cup {Idle}] /\ SafeKept({})
  BY <1>1, RunningCommand, NoCallSafe DEF PrepareAnchor, storeVars
<1>3. /\ c.anchor \in Offset \cup {NULL} /\ c.turn \in Offset \cup {NULL} /\ c.permanent \in BOOLEAN
      /\ Len(rollout[t]) \in Offset
  BY <1>1, <1>2, ClaimInHand, ShownTyped DEF IInv, Command, Shown
<1>4. CASE Unreadable(p, t)
  BY <1>1, <1>4, RaiseMoves DEF Unreadable, PrepareAnchor
<1>5. CASE Goto(p, "find")
  <2>1. cmd' = [cmd EXCEPT ![p] = Moved(c, "find", c.anchor, c.turn, c.permanent)]
    <3>1. [c EXCEPT !.pc = "find"]
            = Moved(c, "find", c.anchor, c.turn, c.permanent)
      BY <1>2 DEF Command, Moved
    <3>2. cmd' = [cmd EXCEPT ![p] = [c EXCEPT !.pc = "find"]]
      BY <1>2, <1>5 DEF Goto
    <3>3. QED
      BY <3>1, <3>2
  <2>2. QED
    BY <1>1, <1>2, <1>3, <2>1, GotoMoves DEF PrepareAnchor, storeVars
<1>6. CASE cmd' = [cmd EXCEPT ![p].pc = "record", ![p].anchor = Len(rollout[t])]
  <2>1. cmd' = [cmd EXCEPT ![p] = Moved(c, "record", Len(rollout[t]), c.turn, c.permanent)]
    <3>1. [c EXCEPT !.pc = "record", !.anchor = Len(rollout[t])]
            = Moved(c, "record", Len(rollout[t]), c.turn, c.permanent)
      BY <1>2 DEF Command, Moved
    <3>2. cmd' = [cmd EXCEPT ![p] = [c EXCEPT !.pc = "record", !.anchor = Len(rollout[t])]]
      BY <1>2, <1>6
    <3>3. QED
      BY <3>1, <3>2
  <2>2. Len(rollout[t]) \in Offset \cup {NULL}
    BY <1>3
  <2> DEFINE a == Len(rollout[t])
  <2> HIDE DEF a
  <2>3. QED
    BY <1>1, <1>2, <1>3, <2>1, <2>2, GotoMoves DEF PrepareAnchor, storeVars, a
<1>7. QED
  BY <1>4, <1>5, <1>6 DEF PrepareAnchor

LEMMA RecordAnchorTimely ==
    ASSUME Punctual, TimelyInv, NEW p \in Proc, RecordAnchor(p)
    PROVE  Prospects'
<1> DEFINE c == cmd[p]
           a == row'[c.m].delivery_rollout
<1>1. Running(p) /\ c.pc = "record" /\ IInv
  BY DEF RecordAnchor, At, TimelyInv
<1>2. c \in Command /\ cmd \in [Proc -> Command \cup {Idle}] /\ c.m \in Monitor
  BY <1>1, RunningCommand, ClaimInHand
<1>3. CASE Raise(p, FALSE) /\ UNCHANGED storeVars
  BY <1>1, <1>3, RaiseMoves DEF RecordAnchor
<1>4. CASE /\ S!RecordDeliveryAnchor(c.m, c.tok, c.anchor)
           /\ cmd' = [cmd EXCEPT ![p].pc = "anchor", ![p].anchor = a]
  <2>1. SafeKept({}) /\ issued' = issued
    BY <1>1, <1>2, <1>4, AnchorSafe DEF S!RecordDeliveryAnchor
  <2>2. a \in Offset \cup {NULL}
    <3>1. T!IInv'
      BY <1>1, RecordAnchorStep DEF Sound, IInv
    <3>2. QED
      BY <1>2, <3>1 DEF T!IInv, T!TypeOK, T!Row, T!Null
  <2>3. c.turn \in Offset \cup {NULL} /\ c.permanent \in BOOLEAN
    BY <1>2 DEF Command
  <2> HIDE DEF a
  <2>4. cmd' = [cmd EXCEPT ![p] = Moved(c, "anchor", a, c.turn, c.permanent)]
    <3>1. [c EXCEPT !.pc = "anchor", !.anchor = a]
            = Moved(c, "anchor", a, c.turn, c.permanent)
      BY <1>2 DEF Command, Moved
    <3>2. cmd' = [cmd EXCEPT ![p] = [c EXCEPT !.pc = "anchor", !.anchor = a]]
      BY <1>2, <1>4
    <3>3. QED
      BY <3>1, <3>2
  <2>5. QED
    BY <1>1, <2>1, <2>2, <2>3, <2>4, GotoMoves DEF RecordAnchor
<1>5. QED
  BY <1>3, <1>4 DEF RecordAnchor

\* A claim is handed out after the rollout was read to its end: nothing sent for the monitor is
\* there.
LEMMA FindBeforeSendTimely ==
    ASSUME Punctual, TimelyInv, NEW p \in Proc, FindBeforeSend(p)
    PROVE  Prospects'
<1> DEFINE c == cmd[p]
           found == ContinuesAfter(ThreadOf[c.m], c.anchor)
<1>1. Running(p) /\ c.pc = "find" /\ IInv
  BY DEF FindBeforeSend, At, TimelyInv
<1>2. /\ c \in Command /\ cmd \in [Proc -> Command \cup {Idle}]
      /\ c.m \in Monitor /\ c.anchor = AnchorIn(row, c.m)
      /\ SafeKept({}) /\ MaySend(c)
  BY <1>1, RunningCommand, ClaimInHand, NoCallSafe
     DEF FindBeforeSend, storeVars, GoodCommand, MaySend
<1>3. CASE Raise(p, FALSE) \/ BeyondLimit(p)
  BY <1>1, <1>3, RaiseMoves DEF BeyondLimit, FindBeforeSend
<1>4. CASE found = {} /\ Finish(p, "claim")
  <2>1. ~IsShown(rollout, c.m)
    <3>1. SUFFICES ASSUME NEW i \in 1..Len(rollout[ThreadOf[c.m]]), rollout[ThreadOf[c.m]][i] = c.m
                   PROVE  FALSE
      BY DEF IsShown
    <3>2. AnchorIn(row, c.m) < i
      BY <1>1, <1>2, <3>1 DEF IInv, DesktopOK, AnchorCoversSends, AnchorIn
    <3>3. Len(rollout[ThreadOf[c.m]]) \in Offset
      BY <1>1, <1>2, ShownTyped DEF IInv, Shown
    <3>4. i \in Offset /\ i <= Len(rollout[ThreadOf[c.m]])
      BY <3>3, ConstantsTyped DEF Offset
    <3>5. QED
      BY <1>2, <1>4, <3>2, <3>4 DEF ContinuesAfter
  <2>2. "claim" \in Result /\ SafeKept({c.tok})
    BY <1>2, SafeWeaker DEF Result
  <2>3. QED
    BY <1>1, <1>2, <1>4, <2>1, <2>2, FinishMoves DEF FindBeforeSend, storeVars
<1>5. CASE found # {} /\ cmd' = [cmd EXCEPT ![p].pc = "succeed", ![p].turn = FirstOf(found)]
  <2>1. FirstOf(found) \in Offset \cup {NULL}
    <3>1. c.anchor \in Offset /\ Len(rollout[ThreadOf[c.m]]) \in Nat
      BY <1>1, <1>2, RunningCommand, ShownTyped, ConstantsTyped DEF GoodCommand, Command, IInv, Shown
    <3>2. FirstOf(found) = c.anchor + 1 /\ c.anchor + 1 \in Offset
      BY <1>5, <3>1, FirstAfter
    <3>3. QED
      BY <3>2
  <2>2. c.anchor \in Offset \cup {NULL} /\ c.permanent \in BOOLEAN
    BY <1>2 DEF Command
  <2> DEFINE t == FirstOf(found)
  <2> HIDE DEF t
  <2>3. cmd' = [cmd EXCEPT ![p] = Moved(c, "succeed", c.anchor, t, c.permanent)]
    <3>1. [c EXCEPT !.pc = "succeed", !.turn = t]
            = Moved(c, "succeed", c.anchor, t, c.permanent)
      BY <1>2 DEF Command, Moved
    <3>2. cmd' = [cmd EXCEPT ![p] = [c EXCEPT !.pc = "succeed", !.turn = t]]
      BY <1>2, <1>5 DEF t
    <3>3. QED
      BY <3>1, <3>2
  <2>4. QED
    BY <1>1, <1>2, <2>1, <2>2, <2>3, GotoMoves DEF FindBeforeSend, storeVars, t
<1>6. QED
  BY <1>3, <1>4, <1>5 DEF FindBeforeSend

LEMMA ScanTimely == ASSUME Punctual, TimelyInv, NEW p \in Proc, Scan(p) PROVE Prospects'
<1> DEFINE c == cmd[p]
           anchor == row[c.m].delivery_rollout
           found == ContinuesAfter(ThreadOf[c.m], anchor)
<1>1. Running(p) /\ c.pc = "scan" /\ c.op = "observe" /\ IInv
  BY DEF Scan, At, TimelyInv
<1>2. /\ c \in Command /\ cmd \in [Proc -> Command \cup {Idle}] /\ GoodCommand(c, row, rollout)
      /\ c.m \in Monitor /\ SafeKept({}) /\ SafeKept({c.tok})
  BY <1>1, RunningCommand, ClaimInHand, NoCallSafe, SafeWeaker DEF Scan, storeVars
<1>3. CASE Unreadable(p, ThreadOf[c.m]) \/ BeyondLimit(p)
  BY <1>1, <1>3, RaiseMoves DEF Unreadable, BeyondLimit, Scan
<1>4. ASSUME NEW result \in {"stale", "unconfirmed"}, Finish(p, result)
      PROVE  Prospects'
  BY <1>1, <1>2, <1>4, FinishMoves DEF Scan, Result, storeVars
<1>5. CASE /\ found # {}
           /\ cmd' = [cmd EXCEPT ![p].pc = "succeed", ![p].anchor = anchor,
                                 ![p].turn = FirstOf(found)]
  <2>1. anchor \in Offset
    BY <1>1, <1>2, RowTyped DEF IInv, GoodCommand, AnchorIn
  <2>2. FirstOf(found) \in Offset \cup {NULL}
    <3>1. Len(rollout[ThreadOf[c.m]]) \in Nat
      BY <1>1, <1>2, ShownTyped DEF IInv, Shown
    <3>2. FirstOf(found) = anchor + 1 /\ anchor + 1 \in Offset
      BY <1>5, <2>1, <3>1, FirstAfter
    <3>3. QED
      BY <3>2
  <2>3. anchor \in Offset \cup {NULL} /\ c.permanent \in BOOLEAN
    BY <1>2, <2>1 DEF Command
  <2> DEFINE t == FirstOf(found)
  <2> HIDE DEF t, anchor
  <2>4. cmd' = [cmd EXCEPT ![p] = Moved(c, "succeed", anchor, t, c.permanent)]
    <3>1. [c EXCEPT !.pc = "succeed", !.anchor = anchor, !.turn = t]
            = Moved(c, "succeed", anchor, t, c.permanent)
      BY <1>2 DEF Command, Moved
    <3>2. cmd' = [cmd EXCEPT ![p] = [c EXCEPT !.pc = "succeed", !.anchor = anchor, !.turn = t]]
      BY <1>2, <1>5 DEF t
    <3>3. QED
      BY <3>1, <3>2
  <2>5. QED
    BY <1>1, <1>2, <2>2, <2>3, <2>4, GotoMoves DEF Scan, storeVars, t
<1>6. QED
  BY <1>3, <1>4, <1>5 DEF Scan

LEMMA SucceedTimely == ASSUME Punctual, TimelyInv, NEW p \in Proc, Succeed(p) PROVE Prospects'
<1> DEFINE c == cmd[p]
           held == S!HoldsClaim(c.m, c.tok, "DELIVERING")
<1>1. Running(p) /\ c.pc = "succeed" /\ IInv
  BY DEF Succeed, TimelyInv
<1>2. c.m \in Monitor
  BY <1>1, ClaimInHand
<1>3. SafeKept({c.tok}) /\ issued' = issued
  <2>1. CASE S!DeliverySucceeded(c.m, c.tok, c.anchor, c.turn)
    BY <1>1, <1>2, <2>1, SucceededSafe, SafeWeaker DEF S!DeliverySucceeded
  <2>2. CASE UNCHANGED storeVars
    BY <2>2, NoCallSafe, SafeWeaker DEF storeVars
  <2>3. QED
    BY <2>1, <2>2 DEF Succeed
<1>4. PICK result \in Result \ {"claim"} : Ends(p, result)
  BY DEF Succeed, Result
<1>5. QED
  BY <1>1, <1>3, <1>4, EndsMoves DEF Succeed

LEMMA FailTimely == ASSUME Punctual, TimelyInv, NEW p \in Proc, Fail(p) PROVE Prospects'
<1> DEFINE c == cmd[p]
           attempts == row[c.m].delivery_attempts
<1>1. Running(p) /\ c.pc = "fail" /\ IInv
  BY DEF Fail, TimelyInv
<1>2. c \in Command /\ c.m \in Monitor /\ c.tok \in Token
  BY <1>1, RunningCommand, ClaimInHand
<1>3. SafeKept({c.tok}) /\ issued' = issued
  <2>1. Backoff(attempts) \in Nat /\ RetryBase <= Backoff(attempts)
    BY <1>1, <1>2, RowTyped, BackoffNat, BackoffLong DEF IInv
  <2>2. CASE UNCHANGED storeVars
    BY <2>2, NoCallSafe, SafeWeaker DEF storeVars
  <2>3. ASSUME NEW reason, S!DeliveryBlocked(c.m, c.tok, reason, now)
        PROVE  SafeKept({c.tok}) /\ issued' = issued
    BY <1>1, <1>2, <2>3, BlockedSafe, SafeWeaker DEF S!DeliveryBlocked
  <2>4. CASE S!DeliveryRetry(c.m, c.tok, Backoff(attempts), now)
    BY <1>1, <1>2, <2>1, <2>4, RetrySafe DEF S!DeliveryRetry
  <2>5. CASE RecordFailure(c.m, c.tok, c.permanent)
    BY <2>3, <2>4, <2>5 DEF RecordFailure
  <2>6. QED
    BY <2>2, <2>5 DEF Fail
<1>4. PICK result \in Result \ {"claim"} : Ends(p, result)
  BY <1>2 DEF Fail, Result, Command
<1>5. QED
  BY <1>1, <1>3, <1>4, EndsMoves DEF Fail

LEMMA CommandFailsTimely ==
    ASSUME Punctual, TimelyInv, NEW p \in Proc, CommandFails(p)
    PROVE  Prospects'
<1>1. SafeKept({cmd[p].tok})
  BY NoCallSafe, SafeWeaker DEF CommandFails, storeVars
<1>2. QED
  BY <1>1, FinishMoves DEF CommandFails, Result, storeVars

LEMMA OrphanDiesTimely ==
    ASSUME Punctual, TimelyInv, NEW p \in Proc, OrphanDies(p)
    PROVE  Prospects'
<1>1. SafeKept({cmd[p].tok})
  BY NoCallSafe, SafeWeaker DEF OrphanDies, storeVars
<1>2. QED
  BY <1>1, CommandMoves DEF OrphanDies, Orphan, storeVars

\* A claim that was free to be taken leaves nobody who may still send for its monitor.
LEMMA NobodyElse ==
    ASSUME Punctual, TimelyInv, NEW m \in Monitor,
           \A t \in Token, by \in Nat : now <= by => ~Safe(row[m], t, by)
    PROVE  /\ \A q \in Proc : Running(q) /\ MaySend(cmd[q]) => cmd[q].m # m
           /\ \A d \in Dispatcher : Sending(js[d]) => js[d].m # m
           /\ ~IsSent(calls, m)
<1>1. IInv /\ Timed /\ now \in Nat /\ Margin \in Nat /\ ObserveGrace \in Nat /\ VisibleDelay \in Nat
  BY ClockTyped, ConstantsTyped DEF TimelyInv, Prospects, Margin
<1>2. ASSUME NEW q \in Proc, Running(q), MaySend(cmd[q]), cmd[q].m = m
      PROVE  FALSE
  <2>1. cmd[q].by \in Nat /\ cmd[q].tok \in Token
    BY <1>1, <1>2, MaySendKnown
  <2>2. now <= cmd[q].by /\ Safe(row[m], cmd[q].tok, cmd[q].by + ObserveGrace + Margin)
    BY <1>1, <1>2 DEF Timed, TimedCommand
  <2>3. cmd[q].by + ObserveGrace + Margin \in Nat /\ now <= cmd[q].by + ObserveGrace + Margin
    BY <1>1, <2>1, <2>2
  <2>4. QED
    BY <2>1, <2>2, <2>3
<1>3. ASSUME NEW d \in Dispatcher, Sending(js[d]), js[d].m = m
      PROVE  FALSE
  <2>1. js[d].tok \in Token /\ js[d].by \in Nat
    BY <1>1, <1>3, SendingKnown
  <2>2. CASE js[d].pc = "before"
    <3> DEFINE b == cmd[js[d].child].by
    <3>1. b \in Nat /\ now <= b
      BY <1>1, <2>2, SendingKnown DEF Timed, TimedCommand
    <3>2. Safe(row[m], js[d].tok, b + Margin)
      BY <1>1, <1>3, <2>2 DEF Timed, TimedLoop
    <3> HIDE DEF b
    <3>3. b + Margin \in Nat /\ now <= b + Margin
      BY <1>1, <3>1
    <3>4. QED
      BY <2>1, <3>2, <3>3
  <2>3. CASE js[d].pc = "send"
    <3>1. now <= js[d].by /\ Safe(row[m], js[d].tok, js[d].by + VisibleDelay)
      BY <1>1, <1>3, <2>3 DEF Timed, TimedLoop
    <3>2. js[d].by + VisibleDelay \in Nat /\ now <= js[d].by + VisibleDelay
      BY <1>1, <2>1, <3>1
    <3>3. QED
      BY <2>1, <3>1, <3>2
  <2>4. QED
    BY <1>3, <2>2, <2>3 DEF Sending
<1>4. ASSUME NEW c \in calls, c.m = m
      PROVE  FALSE
  BY <1>1, <1>4, CallKnown DEF Timed, TimedCall
<1>5. QED
  BY <1>2, <1>3, <1>4 DEF IsSent

LEMMA LeaseTimely == ASSUME Punctual, TimelyInv, NEW p \in Proc, Lease(p) PROVE Prospects'
<1>1. Running(p) /\ cmd[p].pc = "lease" /\ cmd[p].op = "claim" /\ IInv
  BY DEF Lease, At, TimelyInv
<1>2. cmd[p] \in Command /\ cmd \in [Proc -> Command \cup {Idle}] /\ GoodCommand(cmd[p], row, rollout)
  BY <1>1, RunningCommand
<1>3. CASE Finish(p, "none") /\ UNCHANGED storeVars
  <2>1. SafeKept({cmd[p].tok})
    BY <1>3, NoCallSafe, SafeWeaker DEF storeVars
  <2>2. QED
    BY <1>1, <1>3, <2>1, FinishMoves DEF Lease, Result, storeVars
<1>4. ASSUME NEW m \in Monitor, NEW tok \in Token,
             S!ClaimDueDelivery(m, tok, now),
             cmd' = [cmd EXCEPT ![p].pc = "anchor", ![p].m = m, ![p].tok = tok,
                                ![p].anchor = row[m].delivery_rollout]
      PROVE  Prospects'
  <2> DEFINE c == [cmd[p] EXCEPT !.pc = "anchor", !.m = m, !.tok = tok,
                                 !.anchor = row[m].delivery_rollout]
  <2>1. /\ \A t \in Token, by \in Nat : now <= by => ~Safe(row[m], t, by)
        /\ row'[m].state = "DELIVERING" /\ row'[m].claim_token = tok
        /\ row'[m].claim_expires_at = now + DeliveryLease
        /\ tok = issued + 1 /\ issued' = tok
        /\ SafeKept({})
    BY <1>1, <1>4, ClaimSafe
  <2>2. /\ now \in Nat /\ issued \in Nat /\ tok \in Nat /\ Token \subseteq Nat
        /\ now' = now /\ js' = js /\ rollout' = rollout /\ calls' = calls
    BY <1>1, ClockTyped, TokensNat DEF Lease, desktopVars
  <2>3. row[m].delivery_rollout \in Offset \cup {NULL}
    BY <1>1, RowTyped DEF IInv
  <2>4. /\ c.pc = "anchor" /\ c.m = m /\ c.tok = tok
        /\ c.op = "claim" /\ c.result = cmd[p].result /\ c.by = cmd[p].by /\ c \in Command
    BY <1>1, <1>2, <2>3 DEF Command
  <2>5. cmd'[p] = c /\ \A q \in Proc : q # p => cmd'[q] = cmd[q]
    BY <1>2, <1>4
  <2> HIDE DEF c
  <2>6. c # Idle /\ c.result # "claim"
    BY <1>1, <1>2, <2>4, IdleIsNone, ConstantsTyped DEF GoodCommand
  <2>7. /\ \A q \in Proc : Running(q) /\ MaySend(cmd[q]) => cmd[q].m # m
        /\ \A d \in Dispatcher : Sending(js[d]) => js[d].m # m
        /\ ~IsSent(calls, m)
    BY <2>1, NobodyElse
  <2>8. /\ \A q \in Proc : Running(q) => cmd[q].tok # tok
        /\ \A d \in Dispatcher : js[d].tok # tok
    <3>1. tok # NULL
      BY ConstantsTyped
    <3>2. ASSUME NEW q \in Proc, Running(q) PROVE cmd[q].tok # tok
      <4>1. cmd[q].tok # NULL => cmd[q].tok \in Nat /\ cmd[q].tok <= issued
        BY <1>1, <2>2, <3>2, MaySendKnown DEF TimelyInv, Prospects, Timed, TimedCommand
      <4>2. QED
        BY <2>1, <2>2, <3>1, <4>1
    <3>3. ASSUME NEW d \in Dispatcher PROVE js[d].tok # tok
      <4>1. js[d].tok # NULL => js[d].tok \in Nat /\ js[d].tok <= issued
        BY <1>1, <2>2, SendingKnown DEF TimelyInv, Prospects, Timed, TimedLoop
      <4>2. QED
        BY <2>1, <2>2, <3>1, <4>1
    <3>4. QED
      BY <3>2, <3>3
  <2>9. TimedCommand(c, row', now, tok)
    <3>1. now <= c.by /\ c.by <= now + CommandTimeout /\ c.by \in Nat
      BY <1>1, <2>4, MaySendKnown DEF TimelyInv, Prospects, Timed, TimedCommand
    <3>2. c.by + ObserveGrace + Margin < now + DeliveryLease
      BY <2>2, <3>1, ConstantsTyped DEF Punctual, Margin
    <3>3. QED
      BY <2>1, <2>2, <2>4, <3>1, <3>2 DEF TimedCommand, Safe
  <2>10. ASSUME NEW q \in Proc, cmd'[q] # Idle PROVE TimedCommand(cmd'[q], row', now, tok)
    <3>1. CASE q = p
      BY <2>5, <2>9, <3>1
    <3>2. CASE q # p
      <4>1. Running(q) /\ TimedCommand(cmd[q], row, now, issued)
        BY <2>5, <2>10, <3>2 DEF TimelyInv, Prospects, Timed, Running
      <4>2. issued <= tok
        BY <2>1, <2>2
      <4>3. TimedCommand(cmd[q], row', now, tok)
        BY <1>1, <2>1, <2>2, <4>1, <4>2, TimedCommandKept
      <4>4. QED
        BY <2>5, <3>2, <4>3
    <3>3. QED
      BY <3>1, <3>2
  <2>11. ASSUME NEW d \in Dispatcher PROVE TimedLoop(js[d], cmd', row', now, tok)
    <3>1. js[d].pc = "before" => cmd'[js[d].child].by = cmd[js[d].child].by
      BY <1>1, <2>4, <2>5, SendingKnown
    <3>2. issued <= tok
      BY <2>1, <2>2
    <3>3. QED
      BY <1>1, <2>1, <2>2, <3>1, <3>2, TimedLoopKept DEF TimelyInv, Prospects
  <2>12. Timed'
    BY <1>1, <2>1, <2>2, <2>10, <2>11, TimedCallKept DEF TimelyInv, Prospects, Timed, Running
  <2>13. OwnToken'
    BY <2>2, <2>4, <2>5, <2>8 DEF TimelyInv, Prospects, OwnToken, Running
  <2>14. OneProspect'
    BY <2>2, <2>4, <2>5, <2>7 DEF TimelyInv, Prospects, OneProspect, Running
  <2>15. Fresh'
    BY <2>2, <2>4, <2>5, <2>6, <2>7 DEF TimelyInv, Prospects, Fresh, Running
  <2>16. Once'
    BY <2>2 DEF TimelyInv, Prospects, Once, NoDuplicateContinue
  <2>17. QED
    BY <2>12, <2>13, <2>14, <2>15, <2>16 DEF Prospects
<1>5. QED
  BY <1>3, <1>4 DEF Lease

LEMMA CommandsTimely ==
    ASSUME Punctual, TimelyInv, NEW p \in Proc, CommandStep(p) \/ CommandFails(p) \/ OrphanDies(p)
    PROVE  Prospects'
BY RecoverTimely, LeaseTimely, PrepareAnchorTimely, RecordAnchorTimely, FindBeforeSendTimely,
   ScanTimely, SucceedTimely, FailTimely, CommandFailsTimely, OrphanDiesTimely DEF CommandStep

-----------------------------------------------------------------------------
(* The steps of a dispatcher. *)

\* A claim that a dispatcher has, or reads from the answer of the child it lets go.
Held(d, tok) ==
    \/ tok \in {NULL, js[d].tok}
    \/ /\ js[d].child # NULL /\ cmd'[js[d].child] # cmd[js[d].child]
       /\ tok = cmd[js[d].child].tok

\* A dispatcher moves on to j.  It may send if it might before or its child answered with the
\* claim; then it writes at most one message, and may send no more.
LEMMA LoopProspects ==
    ASSUME TimelyInv, NEW d \in Dispatcher, NEW j, js' = [js EXCEPT ![d] = j],
           UNCHANGED <<storeVars, now, rollout>>,
           \A q \in Proc : cmd'[q] # cmd[q] =>
                /\ q = js[d].child \/ ~Running(q)
                /\ cmd'[q] # Idle => /\ ~MaySend(cmd'[q])
                                     /\ TimedCommand(cmd'[q], row, now, issued)
                                     /\ Held(d, cmd'[q].tok),
           Held(d, j.tok),
           TimedLoop(j, cmd', row, now, issued),
           Sending(j) =>
             \/ Sending(js[d]) /\ j.m = js[d].m
             \/ /\ js[d].child # NULL /\ cmd'[js[d].child] # cmd[js[d].child]
                /\ cmd[js[d].child].result = "claim" /\ j.m = cmd[js[d].child].m,
           \/ calls' = calls
           \/ \E c : /\ calls' = calls \cup {c} /\ c.m = js[d].m /\ TimedCall(c, row, now)
                     /\ Sending(js[d]) /\ ~Sending(j)
    PROVE  Prospects'
<1> DEFINE p == js[d].child
<1>1. IInv /\ Timed /\ OwnToken /\ OneProspect /\ Fresh /\ Once
  BY DEF TimelyInv, Prospects
<1>2. /\ js'[d] = j
      /\ \A e \in Dispatcher : e # d => js'[e] = js[e]
  BY <1>1 DEF IInv, ProcessesOK
<1>3. row' = row /\ issued' = issued /\ now' = now /\ rollout' = rollout
  BY DEF storeVars
<1>4. p # NULL => p \in Proc /\ Running(p)
  BY <1>1, LoopKnown DEF IInv, ProcessesOK
<1>5. \A q \in Proc : cmd'[q] # Idle /\ MaySend(cmd'[q]) =>
        cmd'[q] = cmd[q] /\ Running(q) /\ MaySend(cmd[q])
  BY DEF Running
<1>6. \A q \in Proc : Running(q) /\ MaySend(cmd[q]) => cmd[q].tok # NULL
  BY <1>1, MaySendKnown
<1>7. p # NULL /\ cmd[p].result = "claim" => MaySend(cmd[p])
  BY DEF MaySend
<1>8. \A e \in Dispatcher : e # d => TimedLoop(js[e], cmd', row, now, issued)
  <2> SUFFICES ASSUME NEW e \in Dispatcher, e # d PROVE TimedLoop(js[e], cmd', row, now, issued)
    OBVIOUS
  <2>1. ASSUME js[e].pc = "before" PROVE cmd'[js[e].child] = cmd[js[e].child]
    <3>1. js[e].child \in Proc /\ js[e].child # NULL /\ Running(js[e].child)
      BY <1>1, <2>1, LoopKnown DEF AwaitingChild
    <3>2. js[e].child # p
      BY <1>1, <3>1 DEF IInv, ProcessesOK
    <3>3. QED
      BY <3>1, <3>2
  <2>2. TimedLoop(js[e], cmd, row, now, issued)
    BY <1>1 DEF Timed
  <2>3. QED
    BY <2>1, <2>2 DEF TimedLoop
<1>9. Timed'
  <2>1. \A q \in Proc : cmd'[q] # Idle => TimedCommand(cmd'[q], row, now, issued)
    BY <1>1 DEF Timed, Running
  <2>2. \A e \in Dispatcher : TimedLoop(js'[e], cmd', row, now, issued)
    BY <1>2, <1>8
  <2>3. \A c \in calls' : TimedCall(c, row, now)
    BY <1>1 DEF Timed
  <2>4. QED
    BY <1>3, <2>1, <2>2, <2>3 DEF Timed, Running
<1>10. OwnToken'
  <2> SUFFICES ASSUME NEW q \in Proc, cmd'[q] # Idle, MaySend(cmd'[q])
               PROVE  /\ \A r \in Proc : cmd'[r] # Idle /\ r # q => cmd'[r].tok # cmd'[q].tok
                      /\ \A e \in Dispatcher : js'[e].tok # cmd'[q].tok
    BY DEF OwnToken, Running
  <2>1. cmd'[q] = cmd[q] /\ Running(q) /\ MaySend(cmd[q]) /\ cmd[q].tok # NULL
    BY <1>5, <1>6
  <2>2. /\ \A r \in Proc : Running(r) /\ r # q => cmd[r].tok # cmd[q].tok
        /\ \A e \in Dispatcher : js[e].tok # cmd[q].tok
    BY <1>1, <2>1 DEF OwnToken
  <2>3. ~Held(d, cmd[q].tok)
    BY <1>4, <2>1, <2>2 DEF Held
  <2>4. QED
    BY <1>2, <2>1, <2>2, <2>3 DEF Running
<1>11. Sending(j) => /\ \A q \in Proc : cmd'[q] # Idle /\ MaySend(cmd'[q]) => cmd[q].m # j.m
                     /\ \A e \in Dispatcher : e # d /\ Sending(js[e]) => js[e].m # j.m
                     /\ ~IsSent(calls, j.m) /\ ~IsShown(rollout, j.m)
  BY <1>1, <1>4, <1>5, <1>7 DEF OneProspect, Fresh
<1>12. OneProspect'
  BY <1>1, <1>2, <1>5, <1>11 DEF OneProspect, Running
<1>13. Fresh'
  <2>1. \A q \in Proc : cmd'[q] # Idle /\ MaySend(cmd'[q]) => ~IsSent(calls', cmd'[q].m)
    BY <1>1, <1>5 DEF Fresh, OneProspect, IsSent
  <2>2. \A q \in Proc : cmd'[q] # Idle /\ cmd'[q].result = "claim" => ~IsShown(rollout, cmd'[q].m)
    BY <1>1, <1>5 DEF Fresh, MaySend
  <2>3. \A e \in Dispatcher : Sending(js'[e]) =>
          ~IsSent(calls', js'[e].m) /\ ~IsShown(rollout, js'[e].m)
    BY <1>1, <1>2, <1>11 DEF Fresh, OneProspect, IsSent
  <2>4. QED
    BY <1>3, <2>1, <2>2, <2>3 DEF Fresh, Running
<1>14. Once'
  BY <1>1, <1>3 DEF Once, Fresh, IsSent, NoDuplicateContinue
<1>15. QED
  BY <1>9, <1>10, <1>12, <1>13, <1>14 DEF Prospects

LEMMA AlarmAhead == ASSUME Punctual, NEW delay PROVE Alarm(delay) = now + delay
BY DEF Punctual, Alarm

\* A command that is started has its time before it, and nothing to send.
LEMMA NewCommandTimely ==
    ASSUME Punctual, IInv, NEW tok, tok # NULL => tok <= issued, NEW m, NEW wait \in Nat, NEW c,
           \/ c = ClaimCommand
           \/ c = FailCommand(m, tok)
           \/ c = ObserveCommand(m, tok, wait)
    PROVE  TimedCommand(c, row, now, issued) /\ ~MaySend(c) /\ c.tok \in {NULL, tok} /\ c # Idle
<1>1. now \in Nat /\ CommandTimeout \in Nat /\ ObserveGrace \in Nat
  BY ClockTyped, ConstantsTyped
<1>2. CASE c = ClaimCommand
  <2>1. /\ c.op = "claim" /\ c.pc = "recover" /\ c.tok = NULL /\ c.result = NULL
        /\ c.by = now + CommandTimeout
    BY <1>2, AlarmAhead DEF ClaimCommand, NewCommand
  <2>2. c # Idle
    BY <1>2 DEF ClaimCommand, NewCommand, Idle
  <2>3. QED
    BY <1>1, <2>1, <2>2, ConstantsTyped DEF MaySend, TimedCommand
<1>3. CASE c = FailCommand(m, tok)
  <2>1. /\ c.op = "fail" /\ c.pc = "fail" /\ c.tok = tok /\ c.result = NULL
        /\ c.by = now + CommandTimeout
    BY <1>3, AlarmAhead DEF FailCommand, NewCommand
  <2>2. c # Idle
    BY <1>3 DEF FailCommand, NewCommand, Idle
  <2>3. QED
    BY <1>1, <2>1, <2>2, ConstantsTyped DEF MaySend, TimedCommand
<1>4. CASE c = ObserveCommand(m, tok, wait)
  <2>1. /\ c.op = "observe" /\ c.pc = "scan" /\ c.tok = tok /\ c.result = NULL
        /\ c.by = now + (wait + ObserveGrace)
    BY <1>4, AlarmAhead DEF ObserveCommand, NewCommand
  <2>2. c # Idle
    BY <1>4 DEF ObserveCommand, NewCommand, Idle
  <2>3. QED
    BY <1>1, <2>1, <2>2, ConstantsTyped DEF MaySend, TimedCommand
<1>5. QED
  BY <1>2, <1>3, <1>4

\* A dispatcher that awaits a child it may not send after.
LEMMA ChildTimely ==
    ASSUME Punctual, TimelyInv, NEW d \in Dispatcher, NEW p \in Proc,
           p = js[d].child \/ ~Running(p), NEW c, cmd' = [cmd EXCEPT ![p] = c],
           \/ c = ClaimCommand
           \/ c = FailCommand(js[d].m, js[d].tok)
           \/ \E wait \in Nat : c = ObserveCommand(js[d].m, js[d].tok, wait),
           NEW pc, pc \notin {"before", "send"}, NEW m, NEW tok \in {NULL, js[d].tok},
           AwaitChild(d, pc, m, tok, p), UNCHANGED <<storeVars, now, desktopVars>>
    PROVE  Prospects'
<1> DEFINE j == [pc |-> pc, m |-> m, tok |-> tok, child |-> p, by |-> 0]
<1>1. IInv /\ (js[d].tok # NULL => js[d].tok <= issued)
  BY DEF TimelyInv, Prospects, Timed, TimedLoop
<1>2. TimedCommand(c, row, now, issued) /\ ~MaySend(c) /\ c.tok \in {NULL, js[d].tok}
  BY <1>1, NewCommandTimely
<1>3. \A q \in Proc : cmd'[q] # cmd[q] => q = p /\ cmd'[q] = c
  BY <1>1 DEF IInv, ProcessesOK
<1>4. js' = [js EXCEPT ![d] = j]
  BY DEF AwaitChild
<1>5. j.pc = pc /\ j.tok = tok
  OBVIOUS
<1> HIDE DEF j
<1>6. TimedLoop(j, cmd', row, now, issued) /\ ~Sending(j)
  BY <1>1, <1>5 DEF TimedLoop, Sending
<1>7. Held(d, j.tok) /\ Held(d, c.tok)
  BY <1>2, <1>5 DEF Held
<1>8. \A q \in Proc : cmd'[q] # cmd[q] =>
        /\ q = js[d].child \/ ~Running(q)
        /\ cmd'[q] # Idle => /\ ~MaySend(cmd'[q])
                             /\ TimedCommand(cmd'[q], row, now, issued)
                             /\ Held(d, cmd'[q].tok)
  BY <1>2, <1>3, <1>7
<1>9. UNCHANGED <<storeVars, now, rollout>> /\ calls' = calls
  BY DEF desktopVars
<1>10. QED
  BY <1>4, <1>6, <1>7, <1>8, <1>9, LoopProspects

\* A dispatcher gives up on its child, or reads its last answer.
LEMMA RestTimely ==
    ASSUME Punctual, TimelyInv, NEW d \in Dispatcher, Rest(d),
           UNCHANGED <<storeVars, now, desktopVars>>,
           \/ UNCHANGED cmd
           \/ Replace(d, Idle) /\ js[d].pc \in AwaitingChild
    PROVE  Prospects'
<1> DEFINE j == Resting
<1>1. j.pc = "idle" /\ j.tok = NULL /\ js' = [js EXCEPT ![d] = j]
  BY DEF Resting, Rest
<1> HIDE DEF j
<1>2. TimedLoop(j, cmd', row, now, issued) /\ ~Sending(j) /\ Held(d, j.tok)
  BY <1>1 DEF TimedLoop, Sending, Held
<1>3. \A q \in Proc : cmd'[q] # cmd[q] => q = js[d].child /\ cmd'[q] = Idle
  BY LoopKnown DEF TimelyInv, IInv, ProcessesOK, Replace
<1>4. UNCHANGED <<storeVars, now, rollout>> /\ calls' = calls
  BY DEF desktopVars
<1>5. QED
  BY <1>1, <1>2, <1>3, <1>4, LoopProspects

\* The claim command answers: its dispatcher observes within what is left of the lease.
LEMMA ObserveBeforeTimely ==
    ASSUME Punctual, TimelyInv, NEW d \in Dispatcher, ObserveBefore(d)
    PROVE  Prospects'
<1> DEFINE p == js[d].child
           c == cmd[p]
           o == ObserveCommand(c.m, c.tok, 0)
           j == [pc |-> "before", m |-> c.m, tok |-> c.tok, child |-> p, by |-> 0]
<1>1. js[d].pc = "claim" /\ c.result = "claim" /\ c.pc = "done" /\ IInv
  BY DEF ObserveBefore, Answered, TimelyInv
<1>2. p \in Proc /\ Running(p) /\ p # NULL
  BY <1>1, LoopKnown, ConstantsTyped DEF AwaitingChild
<1>3. c \in Command /\ MaySend(c) /\ c.m \in Monitor /\ c.tok \in Token /\ c.by \in Nat
  BY <1>1, <1>2, RunningCommand, MaySendKnown DEF MaySend
<1>4. /\ now <= c.by /\ (c.tok # NULL => c.tok <= issued)
      /\ Safe(row[c.m], c.tok, c.by + ObserveGrace + Margin)
  BY <1>2, <1>3 DEF TimelyInv, Prospects, Timed, TimedCommand
<1>5. TimedCommand(o, row, now, issued) /\ ~MaySend(o) /\ o # Idle
  BY <1>1, <1>4, NewCommandTimely
<1>6. o.by = now + ObserveGrace /\ o.tok = c.tok /\ o.op = "observe"
  BY AlarmAhead, ClockTyped, ConstantsTyped, <1>1 DEF ObserveCommand, NewCommand
<1>7. Safe(row[c.m], c.tok, o.by + Margin)
  <2>1. Margin \in Nat /\ ObserveGrace \in Nat /\ now \in Nat
    BY <1>1, ClockTyped, ConstantsTyped DEF Margin
  <2>2. IInv /\ c.m \in Monitor /\ Safe(row[c.m], c.tok, c.by + ObserveGrace + Margin)
    BY <1>1, <1>3, <1>4
  <2> DEFINE sooner == o.by + Margin
             later == c.by + ObserveGrace + Margin
  <2> HIDE DEF c, o, sooner, later
  <2>3. sooner \in Nat /\ later \in Nat /\ sooner <= later
    BY <1>3, <1>4, <1>6, <2>1 DEF sooner, later
  <2>4. Safe(row[c.m], c.tok, sooner)
    BY <2>2, <2>3, SafeSooner DEF later
  <2>5. QED
    BY <2>4 DEF sooner
<1>8. cmd'[p] = o /\ \A q \in Proc : q # p => cmd'[q] = cmd[q]
  BY <1>1, <1>2 DEF ObserveBefore, Replace, IInv, ProcessesOK
<1>9. cmd'[p] # cmd[p]
  BY <1>3, <1>5, <1>8
<1>10. js' = [js EXCEPT ![d] = j]
  BY DEF ObserveBefore, AwaitChild
<1>11. j.pc = "before" /\ j.m = c.m /\ j.tok = c.tok /\ j.child = p
  OBVIOUS
<1> HIDE DEF j, o
<1>12. Held(d, j.tok) /\ Held(d, o.tok)
  BY <1>2, <1>6, <1>9, <1>11 DEF Held
<1>13. TimedLoop(j, cmd', row, now, issued)
  <2>1. j.tok # NULL => j.tok <= issued
    BY <1>4, <1>11
  <2>2. cmd'[j.child].by = now + ObserveGrace /\ Safe(row[j.m], j.tok, cmd'[j.child].by + Margin)
    BY <1>6, <1>7, <1>8, <1>11
  <2>3. cmd'[j.child].by <= now + ObserveGrace
    BY <1>1, <2>2, ClockTyped, ConstantsTyped
  <2>4. QED
    BY <1>11, <2>1, <2>2, <2>3 DEF TimedLoop
<1>14. UNCHANGED <<storeVars, now, rollout>> /\ calls' = calls
  BY DEF desktopVars, ObserveBefore
<1>15. Sending(j) => /\ js[d].child # NULL /\ cmd'[js[d].child] # cmd[js[d].child]
                     /\ cmd[js[d].child].result = "claim" /\ j.m = cmd[js[d].child].m
  BY <1>1, <1>2, <1>9, <1>11
<1>16. \A q \in Proc : cmd'[q] # cmd[q] =>
        /\ q = js[d].child \/ ~Running(q)
        /\ cmd'[q] # Idle => /\ ~MaySend(cmd'[q])
                             /\ TimedCommand(cmd'[q], row, now, issued)
                             /\ Held(d, cmd'[q].tok)
  BY <1>5, <1>8, <1>12
<1>17. QED
  BY <1>10, <1>12, <1>13, <1>14, <1>15, <1>16, LoopProspects

\* The dispatcher turns to the native pipe within what the observation had left.
LEMMA BeginSendTimely ==
    ASSUME Punctual, TimelyInv, NEW d \in Dispatcher, BeginSend(d)
    PROVE  Prospects'
<1> DEFINE b == cmd[js[d].child].by
           j == [js[d] EXCEPT !.pc = "send", !.child = NULL, !.by = Alarm(ListTimeout)]
<1>1. js[d].pc = "before" /\ IInv /\ js[d] \in Loop
  BY LoopKnown DEF BeginSend, Answered, TimelyInv
<1>2. js[d].child \in Proc /\ Running(js[d].child) /\ b \in Nat
      /\ js[d].m \in Monitor /\ js[d].tok \in Token
  BY <1>1, SendingKnown DEF Sending
<1>3. /\ now <= b /\ js[d].tok <= issued
      /\ Safe(row[js[d].m], js[d].tok, b + Margin)
  BY <1>1, <1>2, ConstantsTyped DEF TimelyInv, Prospects, Timed, TimedCommand, TimedLoop
<1>4. /\ j.pc = "send" /\ j.m = js[d].m /\ j.tok = js[d].tok /\ j.by = now + ListTimeout
      /\ js' = [js EXCEPT ![d] = j]
  BY <1>1, AlarmAhead DEF BeginSend, AwaitNative, Loop, TimelyInv, IInv, ProcessesOK
<1> HIDE DEF j
<1>5. Safe(row[j.m], j.tok, j.by + VisibleDelay)
  <2>1. /\ j.by + VisibleDelay \in Nat /\ b + Margin \in Nat
        /\ j.by + VisibleDelay <= b + Margin
    BY <1>1, <1>2, <1>3, <1>4, ClockTyped, ConstantsTyped DEF Margin
  <2> HIDE DEF b
  <2>2. QED
    BY <1>1, <1>2, <1>3, <1>4, <2>1, SafeSooner
<1>6. TimedLoop(j, cmd', row, now, issued)
  BY <1>1, <1>3, <1>4, <1>5, ClockTyped, ConstantsTyped DEF TimedLoop
<1>7. \A q \in Proc : cmd'[q] # cmd[q] => q = js[d].child /\ cmd'[q] = Idle
  BY <1>1, <1>2 DEF BeginSend, Replace, IInv, ProcessesOK
<1>8. Held(d, j.tok) /\ Sending(js[d]) /\ j.m = js[d].m
  BY <1>1, <1>4 DEF Held, Sending
<1>9. UNCHANGED <<storeVars, now, rollout>> /\ calls' = calls
  BY DEF BeginSend, desktopVars
<1>10. QED
  BY <1>4, <1>6, <1>7, <1>8, <1>9, LoopProspects

\* The frame is written before the tools are due, and shown before the claim is free.
LEMMA NativeWriteTimely ==
    ASSUME Punctual, TimelyInv, NEW d \in Dispatcher, NativeWrite(d)
    PROVE  Prospects'
<1> DEFINE c == [m |-> js[d].m, tok |-> js[d].tok, by |-> Alarm(VisibleDelay)]
           j == [js[d] EXCEPT !.pc = "call", !.child = NULL, !.by = Alarm(CallTimeout)]
<1>1. js[d].pc = "send" /\ IInv /\ js[d] \in Loop
  BY LoopKnown DEF NativeWrite, TimelyInv
<1>2. js[d].m \in Monitor /\ js[d].tok \in Token /\ js[d].by \in Nat
  BY <1>1, SendingKnown DEF Sending
<1>3. /\ now <= js[d].by /\ js[d].tok <= issued
      /\ Safe(row[js[d].m], js[d].tok, js[d].by + VisibleDelay)
  BY <1>1, <1>2, ConstantsTyped DEF TimelyInv, Prospects, Timed, TimedLoop
<1>4. /\ j.pc = "call" /\ j.tok = js[d].tok
      /\ js' = [js EXCEPT ![d] = j]
  BY <1>1 DEF NativeWrite, AwaitNative, Loop, TimelyInv, IInv, ProcessesOK
<1>5. c.m = js[d].m /\ c.tok = js[d].tok /\ c.by = now + VisibleDelay
  BY AlarmAhead
<1>6. calls' = calls \cup {c} /\ UNCHANGED <<storeVars, now, rollout, cmd>>
  BY DEF NativeWrite
<1> HIDE DEF c, j
<1>7. TimedCall(c, row, now)
  <2>1. /\ js[d].by + VisibleDelay \in Nat /\ c.by \in Nat /\ now <= c.by
        /\ c.by <= js[d].by + VisibleDelay
    BY <1>1, <1>2, <1>3, <1>5, ClockTyped, ConstantsTyped
  <2>2. Safe(row[c.m], c.tok, c.by)
    BY <1>1, <1>2, <1>3, <1>5, <2>1, SafeSooner
  <2>3. QED
    BY <1>1, <1>5, <2>1, <2>2, ClockTyped, ConstantsTyped DEF TimedCall
<1>8. TimedLoop(j, cmd', row, now, issued) /\ ~Sending(j) /\ Held(d, j.tok) /\ Sending(js[d])
  BY <1>1, <1>3, <1>4 DEF TimedLoop, Sending, Held
<1>9. QED
  BY <1>4, <1>5, <1>6, <1>7, <1>8, LoopProspects

LEMMA ObserveAfterTimely ==
    ASSUME Punctual, TimelyInv, NEW d \in Dispatcher, NEW wait \in Nat, ObserveAfter(d, wait)
    PROVE  Prospects'
<1>1. PICK p \in Proc : /\ ~Running(p)
                        /\ cmd' = [cmd EXCEPT ![p] = ObserveCommand(js[d].m, js[d].tok, wait)]
                        /\ AwaitChild(d, "after", js[d].m, js[d].tok, p)
  BY DEF ObserveAfter
<1> DEFINE c == ObserveCommand(js[d].m, js[d].tok, wait)
<1>2. \E w \in Nat : c = ObserveCommand(js[d].m, js[d].tok, w)
  OBVIOUS
<1>3. cmd' = [cmd EXCEPT ![p] = c]
  BY <1>1
<1> HIDE DEF c
<1>4. QED
  BY <1>1, <1>2, <1>3, ChildTimely DEF ObserveAfter

\* The failure is recorded by a new command, in a free slot or in the place of the last one.
LEMMA FailNextTimely ==
    ASSUME Punctual, TimelyInv, NEW d \in Dispatcher, NEW pc \in {"fail", "catch"}, NEW p \in Proc,
           p = js[d].child \/ ~Running(p),
           cmd' = [cmd EXCEPT ![p] = FailCommand(js[d].m, js[d].tok)],
           AwaitChild(d, pc, js[d].m, js[d].tok, p),
           UNCHANGED <<storeVars, now, desktopVars>>
    PROVE  Prospects'
<1> DEFINE c == FailCommand(js[d].m, js[d].tok)
<1>1. cmd' = [cmd EXCEPT ![p] = c] /\ c = FailCommand(js[d].m, js[d].tok)
  OBVIOUS
<1> HIDE DEF c
<1>2. QED
  BY <1>1, ChildTimely

LEMMA DispatchOnceTimely ==
    ASSUME Punctual, TimelyInv, NEW d \in Dispatcher, DispatchOnce(d)
    PROVE  Prospects'
<1>1. PICK p \in Proc : /\ ~Running(p)
                        /\ cmd' = [cmd EXCEPT ![p] = ClaimCommand]
                        /\ AwaitChild(d, "claim", NULL, NULL, p)
  BY DEF DispatchOnce
<1>2. QED
  BY <1>1, ChildTimely DEF DispatchOnce

LEMMA LoopsTimely ==
    ASSUME Punctual, TimelyInv, NEW d \in Dispatcher, DispatchOnce(d) \/ LoopStep(d) \/ Crash(d)
    PROVE  Prospects'
<1>1. js[d].pc \in AwaitingChild => js[d].child \in Proc
  BY LoopKnown DEF TimelyInv
<1>2. CASE EndAttempt(d)
  <2>1. js[d].pc \in AwaitingChild
    BY <1>2 DEF EndAttempt, Answered, AwaitingChild
  <2>2. QED
    BY <1>2, <2>1, RestTimely DEF EndAttempt
<1>3. CASE NativeReturn(d) \/ NativeError(d)
  BY <1>3, ConstantsTyped, ObserveAfterTimely DEF NativeReturn, NativeError
<1>4. CASE RecordFailed(d)
  BY <1>1, <1>4, FailNextTimely DEF RecordFailed, Replace, Answered, AwaitingChild
<1>5. CASE CatchError(d)
  BY <1>1, <1>5, FailNextTimely DEF CatchError, Rejected, Replace, Answered, AwaitingChild
<1>6. CASE CatchTimeout(d)
  BY <1>6, FailNextTimely DEF CatchTimeout
<1>7. CASE GiveUp(d) \/ Crash(d)
  BY <1>7, RestTimely DEF GiveUp, Crash
<1>8. CASE DispatchOnce(d)
  BY <1>8, DispatchOnceTimely
<1>9. CASE ObserveBefore(d) \/ BeginSend(d) \/ NativeWrite(d)
  BY <1>9, ObserveBeforeTimely, BeginSendTimely, NativeWriteTimely
<1>10. QED
  BY <1>2, <1>3, <1>4, <1>5, <1>6, <1>7, <1>8, <1>9 DEF LoopStep

-----------------------------------------------------------------------------
(* Desktop, the user, the LaunchAgent and the clock. *)

\* Appending a continue shows its author, and nobody else; shown for the first time, its author
\* is shown once.
LEMMA AppendShows ==
    ASSUME IInv, NEW t \in Thread, NEW author \in Monitor \cup {User}, Appended(t, author),
           NEW m \in Monitor
    PROVE  /\ IsShown(rollout', m) => IsShown(rollout, m) \/ m = author
           /\ m # author \/ ~IsShown(rollout, m) =>
                \A i, j \in DOMAIN rollout'[ThreadOf[m]] :
                   /\ rollout'[ThreadOf[m]][i] = m /\ rollout'[ThreadOf[m]][j] = m /\ i # j
                   => /\ {i, j} \subseteq DOMAIN rollout[ThreadOf[m]]
                      /\ rollout[ThreadOf[m]][i] = m /\ rollout[ThreadOf[m]][j] = m
<1> DEFINE u == ThreadOf[m]
           n == Len(rollout[t])
<1>1. u \in Thread /\ rollout[u] \in Seq(Monitor \cup {User}) /\ rollout[t] \in Seq(Monitor \cup {User})
  BY ShownTyped DEF IInv, DesktopOK
<1>2. /\ rollout'[t] = Append(rollout[t], author)
      /\ u # t => rollout'[u] = rollout[u]
  BY <1>1 DEF Appended, IInv, DesktopOK
<1>3. /\ Len(rollout'[t]) = n + 1 /\ n \in Nat
      /\ DOMAIN rollout'[t] = 1..(n + 1) /\ DOMAIN rollout[t] = 1..n
      /\ \A i \in 1..(n + 1) : rollout'[t][i] = IF i = n + 1 THEN author ELSE rollout[t][i]
  BY <1>1, <1>2
<1>4. CASE u # t
  BY <1>1, <1>2, <1>4 DEF IsShown
<1>5. CASE u = t
  <2>1. \A i \in 1..(n + 1) : rollout'[t][i] = m => (i = n + 1 /\ m = author) \/ (i \in 1..n /\ rollout[t][i] = m)
    BY <1>3
  <2>2. IsShown(rollout', m) => IsShown(rollout, m) \/ m = author
    BY <1>3, <1>5, <2>1 DEF IsShown
  <2>3. ~IsShown(rollout, m) => \A i \in 1..n : rollout[t][i] # m
    BY <1>5 DEF IsShown
  <2>4. QED
    BY <1>3, <1>5, <2>1, <2>2, <2>3
<1>6. QED
  BY <1>4, <1>5

\* The processes and the table rest.
LEMMA AppendTimely ==
    ASSUME TimelyInv, NEW t \in Thread, NEW author \in Monitor \cup {User}, Appended(t, author),
           UNCHANGED <<storeVars, now, archived, js, cmd>>,
           \/ author = User /\ calls' = calls
           \/ \E c \in calls : author = c.m /\ calls' = calls \ {c}
    PROVE  Prospects'
<1>1. IInv /\ Timed /\ OwnToken /\ OneProspect /\ Fresh /\ Once
  BY DEF TimelyInv, Prospects
<1>2. row' = row /\ issued' = issued /\ now' = now /\ js' = js /\ cmd' = cmd /\ calls' \subseteq calls
  BY DEF storeVars
<1>3. /\ \A m \in Monitor : IsShown(rollout', m) => IsShown(rollout, m) \/ m = author
      /\ \A e \in calls' : e.m # author
      /\ \A m \in Monitor : m = author => ~IsShown(rollout, m) /\ IsSent(calls, m)
  BY <1>1, AppendShows, CallKnown, ConstantsTyped DEF Once, IsSent
<1>4. Timed' /\ OwnToken' /\ OneProspect'
  BY <1>1, <1>2 DEF Timed, OwnToken, OneProspect, Running
<1>5. Fresh'
  <2>1. \A p \in Proc : Running(p) /\ MaySend(cmd[p]) =>
          cmd[p].m \in Monitor /\ ~IsSent(calls, cmd[p].m) /\ ~IsSent(calls', cmd[p].m)
    BY <1>1, <1>2, MaySendKnown DEF Fresh, IsSent
  <2>2. \A p \in Proc : Running(p) /\ cmd[p].result = "claim" => ~IsShown(rollout', cmd[p].m)
    BY <1>1, <1>3, <2>1 DEF Fresh, MaySend
  <2>3. \A d \in Dispatcher : Sending(js[d]) =>
          ~IsSent(calls', js[d].m) /\ ~IsShown(rollout', js[d].m)
    BY <1>1, <1>2, <1>3, SendingKnown DEF Fresh, IsSent
  <2>4. QED
    BY <1>2, <2>1, <2>2, <2>3 DEF Fresh, Running
<1>6. \A c \in calls' : ~IsShown(rollout', c.m)
  BY <1>1, <1>2, <1>3, CallKnown DEF Once
<1>7. NoDuplicateContinue'
  <2> SUFFICES ASSUME NEW m \in Monitor, NEW i \in Offset, NEW j \in Offset, i # j,
                      {i, j} \subseteq DOMAIN rollout'[ThreadOf[m]],
                      rollout'[ThreadOf[m]][i] = m, rollout'[ThreadOf[m]][j] = m
               PROVE  FALSE
    BY DEF NoDuplicateContinue
  <2>1. /\ {i, j} \subseteq DOMAIN rollout[ThreadOf[m]]
        /\ rollout[ThreadOf[m]][i] = m /\ rollout[ThreadOf[m]][j] = m
    BY <1>1, <1>3, AppendShows
  <2>2. QED
    BY <1>1, <2>1 DEF Once, NoDuplicateContinue
<1>8. Once'
  BY <1>1, <1>2, <1>6, <1>7 DEF Once
<1>9. QED
  BY <1>4, <1>5, <1>8 DEF Prospects

\* A call on the table from outside, or a message lost.
LEMMA OutsideTimely ==
    ASSUME Punctual, TimelyInv, SafeKept({}), calls' \subseteq calls,
           UNCHANGED <<issued, now, rollout, js, cmd>>
    PROVE  Prospects'
<1>1. IInv /\ Timed /\ OwnToken /\ OneProspect /\ Fresh /\ Once /\ issued \in Nat
  BY ClockTyped DEF TimelyInv, Prospects
<1>2. \A p \in Proc : Running(p) => TimedCommand(cmd[p], row', now, issued)
  BY <1>1, TimedCommandKept DEF Timed
<1>3. \A d \in Dispatcher : TimedLoop(js[d], cmd, row', now, issued)
  BY <1>1, TimedLoopKept DEF Timed
<1>4. \A c \in calls : TimedCall(c, row', now)
  BY <1>1, TimedCallKept
<1>5. Timed'
  BY <1>2, <1>3, <1>4 DEF Timed, Running
<1>6. OwnToken' /\ OneProspect'
  BY <1>1 DEF OwnToken, OneProspect, Running
<1>7. Fresh' /\ Once'
  BY <1>1 DEF Fresh, Once, IsSent, NoDuplicateContinue, Running
<1>8. QED
  BY <1>5, <1>6, <1>7 DEF Prospects

\* Time passes while every alarm lies ahead.
LEMMA TickTimely == ASSUME Punctual, TimelyInv, Tick PROVE Prospects'
<1>1. IInv /\ Timed /\ OwnToken /\ OneProspect /\ Fresh /\ Once
  BY DEF TimelyInv, Prospects
<1>2. /\ row' = row /\ issued' = issued /\ now' = now + 1 /\ js' = js /\ cmd' = cmd
      /\ rollout' = rollout /\ calls' = calls
  BY DEF Tick, storeVars, desktopVars
<1>3. now \in Nat /\ CommandTimeout \in Nat /\ ObserveGrace \in Nat /\ ListTimeout \in Nat
      /\ VisibleDelay \in Nat
  BY <1>1, ClockTyped, ConstantsTyped
<1>4. ~Overdue
  BY DEF Tick, Punctual
<1>5. ASSUME NEW p \in Proc, Running(p) PROVE TimedCommand(cmd[p], row, now + 1, issued)
  <2>1. cmd[p].by \in Nat /\ ~(cmd[p].by <= now) /\ TimedCommand(cmd[p], row, now, issued)
    BY <1>1, <1>4, <1>5, MaySendKnown DEF Timed, Overdue
  <2>2. QED
    BY <1>3, <2>1 DEF TimedCommand
<1>6. ASSUME NEW d \in Dispatcher PROVE TimedLoop(js[d], cmd, row, now + 1, issued)
  <2>1. /\ js[d].by \in Nat /\ TimedLoop(js[d], cmd, row, now, issued)
        /\ js[d].pc = "before" => cmd[js[d].child].by \in Nat
        /\ js[d].pc = "send" => ~(js[d].by <= now)
    BY <1>1, <1>4, SendingKnown DEF Timed, Overdue
  <2>2. QED
    BY <1>3, <2>1 DEF TimedLoop
<1>7. ASSUME NEW c \in calls PROVE TimedCall(c, row, now + 1)
  <2>1. c.by \in Nat /\ ~(c.by <= now) /\ TimedCall(c, row, now)
    BY <1>1, <1>4, CallKnown DEF Timed, Overdue
  <2>2. QED
    BY <1>3, <2>1 DEF TimedCall
<1>8. Timed'
  BY <1>2, <1>5, <1>6, <1>7 DEF Timed, Running
<1>9. OwnToken' /\ OneProspect' /\ Fresh' /\ Once'
  BY <1>1, <1>2 DEF OwnToken, OneProspect, Fresh, Once, NoDuplicateContinue, Running
<1>10. QED
  BY <1>8, <1>9 DEF Prospects

-----------------------------------------------------------------------------
(* The invariant and the theorems. *)

LEMMA TimelyInit == Init => TimelyInv
<1> SUFFICES ASSUME Init PROVE TimelyInv
  OBVIOUS
<1>1. IInv
  BY InvInit
<1>2. /\ \A p \in Proc : ~Running(p)
      /\ \A d \in Dispatcher : js[d].pc = "idle" /\ js[d].tok = NULL
      /\ calls = {}
  BY DEF Init, Running, Resting
<1>3. \A m \in Monitor : rollout[ThreadOf[m]] = <<>>
  BY ConstantsTyped DEF Init
<1>4. NoDuplicateContinue
  BY <1>3 DEF NoDuplicateContinue
<1>5. Prospects
  BY <1>2, <1>4 DEF Prospects, Timed, OwnToken, OneProspect, Fresh, Once, TimedLoop, Sending
<1>6. QED
  BY <1>1, <1>5 DEF TimelyInv

LEMMA TimelyNext == Punctual /\ TimelyInv /\ [Next]_vars => TimelyInv'
<1> SUFFICES ASSUME Punctual, TimelyInv, [Next]_vars PROVE Prospects'
  BY InvNext DEF Sound, TimelyInv
<1>1. CASE UNCHANGED vars
  BY <1>1, NoCallSafe, OutsideTimely DEF vars
<1>2. ASSUME NEW d \in Dispatcher, DispatchOnce(d) \/ LoopStep(d) \/ Crash(d)
      PROVE  Prospects'
  BY <1>2, LoopsTimely
<1>3. ASSUME NEW p \in Proc, CommandStep(p) \/ CommandFails(p) \/ OrphanDies(p)
      PROVE  Prospects'
  BY <1>3, CommandsTimely
<1>4. ASSUME NEW c \in calls, DesktopAppends(c)
      PROVE  Prospects'
  <2>1. c.m \in Monitor /\ ThreadOf[c.m] \in Thread
    BY CallKnown, ConstantsTyped DEF TimelyInv
  <2>2. QED
    BY <1>4, <2>1, AppendTimely DEF DesktopAppends
<1>5. ASSUME NEW c \in calls, DesktopDrops(c)
      PROVE  Prospects'
  BY <1>5, NoCallSafe, OutsideTimely DEF DesktopDrops, storeVars
<1>6. ASSUME NEW t \in Thread, UserContinues(t)
      PROVE  Prospects'
  BY <1>6, AppendTimely DEF UserContinues
<1>7. ASSUME NEW t \in Thread, Archive(t)
      PROVE  Prospects'
  BY <1>7, NoCallSafe, OutsideTimely DEF Archive, storeVars
<1>8. ASSUME NEW m \in Monitor, UserCancels(m)
      PROVE  Prospects'
  BY <1>8, CancelSafe, OutsideTimely DEF UserCancels, TimelyInv, S!Cancel, desktopVars
<1>9. CASE DaemonRecovers
  BY <1>9, RecoverSafe, OutsideTimely DEF DaemonRecovers, TimelyInv, S!RecoverStale, desktopVars
<1>10. CASE Tick
  BY <1>10, TickTimely
<1>11. QED
  BY <1>1, <1>2, <1>3, <1>4, <1>5, <1>6, <1>7, <1>8, <1>9, <1>10 DEF Next

THEOREM TimelyInvariant == ASSUME Punctual PROVE Spec => []TimelyInv
<1>1. TimelyInv /\ [Next]_vars => TimelyInv'
  BY TimelyNext
<1>2. QED
  BY TimelyInit, <1>1, PTL DEF Spec

\* While a dispatcher is about to write to the native pipe, nobody else holds the claim: the
\* lease outlives the attempt, and the backoff outlives what is left of it.
THEOREM PunctualSendsAlone == ASSUME Punctual PROVE Spec => []SendsAlone
<1>1. TimelyInv => SendsAlone
  <2> SUFFICES ASSUME TimelyInv, NEW d \in Dispatcher, js[d].pc = "send"
               PROVE  row[js[d].m].claim_token \in {NULL, js[d].tok}
    BY DEF SendsAlone
  <2>1. IInv /\ js[d].m \in Monitor
    BY SendingKnown DEF TimelyInv, Sending
  <2>2. Safe(row[js[d].m], js[d].tok, js[d].by + VisibleDelay)
    BY DEF TimelyInv, Prospects, Timed, TimedLoop
  <2>3. QED
    BY <2>1, <2>2, RowTimes DEF Safe
<1>2. QED
  BY <1>1, TimelyInvariant, PTL

\* README "the next attempt adopts the already-visible message instead of sending a duplicate":
\* whoever looks sees what was sent before, for it is shown or lost when the next claim is taken.
THEOREM PunctualShowsOnce == ASSUME Punctual PROVE Spec => []NoDuplicateContinue
<1>1. TimelyInv => NoDuplicateContinue
  BY DEF TimelyInv, Prospects, Once
<1>2. QED
  BY <1>1, TimelyInvariant, PTL

\* However many attempts overlap, one process at most may still send for a monitor, and only
\* while no message for it is on its way.
THEOREM PunctualOneProspect == ASSUME Punctual PROVE Spec => [](OneProspect /\ Fresh)
<1>1. TimelyInv => OneProspect /\ Fresh
  BY DEF TimelyInv, Prospects
<1>2. QED
  BY <1>1, TimelyInvariant, PTL

-----------------------------------------------------------------------------
(* The budget and the backoff, whatever crashes and times out.  That a row *)
(* may be claimed more often than the budget says (run budget) has one     *)
(* cause: a lease that runs out is not a failure on record.                *)

\* What retry_delay returns after an attempt is the wait RetriesSpaced speaks of.
LEMMA BackoffIsWait ==
    ASSUME NEW attempt \in Nat, attempt > 0 PROVE Backoff(attempt) = WaitAfter(attempt)
<1>1. CASE attempt > 16
  <2>1. S!Lesser(IF attempt > 1 THEN attempt - 1 ELSE 0, 16) = 16
    BY <1>1 DEF S!Lesser
  <2>2. QED
    BY <1>1, <2>1 DEF Backoff, WaitAfter
<1>2. CASE ~(attempt > 16)
  <2>1. S!Lesser(IF attempt > 1 THEN attempt - 1 ELSE 0, 16) = attempt - 1
    BY <1>2 DEF S!Lesser
  <2>2. QED
    BY <1>2, <2>1 DEF Backoff, WaitAfter
<1>3. QED
  BY <1>1, <1>2

LEMMA UnchangedSpaced == ASSUME NEW r PROVE Spaced(r, r)
BY DEF Spaced

\* A write that ends no wait and takes no claim.
LEMMA QuietSpaced ==
    ASSUME NEW r, NEW q, q.claim_token \in {NULL, r.claim_token}, q.state # "DELIVERY_PENDING"
    PROVE  Spaced(r, q)
BY DEF Spaced

\* The other rows are unchanged.
LEMMA OneRowSpaced ==
    ASSUME IInv, NEW n \in Monitor, NEW m \in Monitor, NEW q, row' = [row EXCEPT ![m] = q],
           Spaced(row[m], q)
    PROVE  Spaced(row[n], row'[n])
<1>1. row'[n] = IF n = m THEN q ELSE row[n]
  BY RowTyped DEF IInv
<1>2. QED
  BY <1>1, UnchangedSpaced

LEMMA ClaimSpaced ==
    ASSUME IInv, NEW n \in Monitor, NEW m \in Monitor, NEW tok \in Token,
           S!ClaimDueDelivery(m, tok, now)
    PROVE  Spaced(row[n], row'[n])
<1> DEFINE q == [S!Claimed(row[m], "DELIVERING", tok, now + DeliveryLease)
                   EXCEPT !.delivery_attempts = @ + 1]
<1>1. row[m] \in T!Row
  BY RowTyped DEF IInv
<1>2. row[m].state = "DELIVERY_PENDING" /\ row[m].next_delivery_at <= now
  BY RowTimes, ConstantsTyped DEF S!ClaimDueDelivery, S!FirstDueDeliveries, S!DueDeliveries
<1>3. q.state = "DELIVERING" /\ q.delivery_attempts = row[m].delivery_attempts + 1
  BY <1>1 DEF S!Claimed, T!Row
<1>4. row' = [row EXCEPT ![m] = q]
  BY DEF S!ClaimDueDelivery
<1> HIDE DEF q
<1>5. Spaced(row[m], q)
  BY <1>2, <1>3 DEF Spaced
<1>6. QED
  BY <1>4, <1>5, OneRowSpaced

LEMMA RecoverSpaced ==
    ASSUME IInv, NEW n \in Monitor, S!RecoverStale(now)
    PROVE  Spaced(row[n], row'[n])
<1> DEFINE r == row[n]
           q == row'[n]
<1>1. r \in T!Row /\ q = S!Recovered(r, now)
  BY RowTyped DEF IInv, S!RecoverStale
<1>2. r.state = "DELIVERING" => r.claim_expires_at # NULL
  BY DEF IInv, T!IInv, T!ClaimsExclusive, T!ClaimColumns, T!ClaimedStates
<1>3. q.claim_token \in {NULL, r.claim_token} /\ q.delivery_attempts = r.delivery_attempts
  BY <1>1 DEF S!Recovered, S!Released, T!Row
<1>4. r.state = "DELIVERY_PENDING" => q = r
  BY <1>1 DEF S!Recovered
<1>5. r.state = "DELIVERING" /\ q.state = "DELIVERY_PENDING" =>
        r.claim_expires_at <= now /\ q.next_delivery_at = now
  BY <1>1, <1>2 DEF S!Recovered, S!Released, S!Expired, T!Row
<1> HIDE DEF r, q
<1>6. Spaced(r, q)
  BY <1>3, <1>4, <1>5 DEF Spaced
<1>7. QED
  BY <1>6 DEF r, q

LEMMA FailureSpaced ==
    ASSUME IInv, NEW n \in Monitor, NEW m \in Monitor, NEW tok \in Token,
           NEW permanent \in BOOLEAN, row[m].state = "DELIVERING",
           RecordFailure(m, tok, permanent)
    PROVE  Spaced(row[n], row'[n])
<1> DEFINE attempt == row[m].delivery_attempts
<1>1. row[m] \in T!Row /\ row \in [Monitor -> T!Row]
  BY RowTyped DEF IInv
<1>2. ASSUME NEW reason \in BlockReason, S!DeliveryBlocked(m, tok, reason, now)
      PROVE  Spaced(row[n], row'[n])
  <2> DEFINE q == S!Blocked(row[m], reason, now)
  <2>1. q.state = "CANCELLED" /\ q.claim_token = NULL
    BY <1>1 DEF S!Blocked, S!Released, T!Row
  <2>2. row' = [row EXCEPT ![m] = q]
    BY <1>2 DEF S!DeliveryBlocked
  <2> HIDE DEF q
  <2>3. Spaced(row[m], q)
    BY <2>1, QuietSpaced
  <2>4. QED
    BY <2>2, <2>3, OneRowSpaced
<1>3. CASE ~(attempt >= Budget) /\ S!DeliveryRetry(m, tok, Backoff(attempt), now)
  <2> DEFINE q == S!Retried(row[m], Backoff(attempt), now)
  <2>1. /\ q.next_delivery_at = now + Backoff(attempt)
        /\ q.claim_token = NULL /\ q.delivery_attempts = attempt
    BY <1>1 DEF S!Retried, S!Released, T!Row
  <2>2. attempt \in Nat /\ attempt < Budget
    BY <1>1, <1>3, ConstantsTyped DEF Budget, T!Row
  <2>3. attempt > 0
    BY <2>2 DEF IInv, T!IInv, T!DeliveryScheduled, T!DeliveryColumns
  <2>4. Backoff(attempt) = WaitAfter(attempt)
    BY <2>2, <2>3, BackoffIsWait
  <2>5. row' = [row EXCEPT ![m] = q]
    BY <1>3 DEF S!DeliveryRetry
  <2> HIDE DEF q
  <2>6. Spaced(row[m], q)
    BY <2>1, <2>2, <2>4 DEF Spaced
  <2>7. QED
    BY <2>5, <2>6, OneRowSpaced
<1>4. QED
  BY <1>2, <1>3 DEF RecordFailure, Budget, BlockReason

LEMMA CommandSpaced ==
    ASSUME IInv, NEW n \in Monitor, NEW p \in Proc,
           CommandStep(p) \/ CommandFails(p) \/ OrphanDies(p)
    PROVE  Spaced(row[n], row'[n])
<1>1. row \in [Monitor -> T!Row]
  BY RowTyped DEF IInv
<1>2. CASE UNCHANGED row
  BY <1>2, UnchangedSpaced
<1>3. CASE Recover(p)
  BY <1>3, RecoverSpaced DEF Recover
<1>4. CASE Lease(p)
  BY <1>2, <1>4, ClaimSpaced DEF Lease, storeVars
<1>5. CASE PrepareAnchor(p) \/ FindBeforeSend(p) \/ Scan(p) \/ CommandFails(p) \/ OrphanDies(p)
  BY <1>2, <1>5 DEF PrepareAnchor, FindBeforeSend, Scan, CommandFails, OrphanDies, storeVars
<1>6. CASE RecordAnchor(p)
  <2>1. cmd[p].m \in Monitor
    BY <1>6, ClaimInHand DEF RecordAnchor, At
  <2> DEFINE m == cmd[p].m
             q == S!Anchored(row[m], cmd[p].anchor)
  <2>2. CASE S!RecordDeliveryAnchor(m, cmd[p].tok, cmd[p].anchor)
    <3>1. q.state = row[m].state /\ q.claim_token = row[m].claim_token
      BY <1>1, <2>1 DEF S!Anchored, T!Row
    <3>2. row' = [row EXCEPT ![m] = q] /\ m \in Monitor /\ row[m].state = "DELIVERING"
      BY <2>1, <2>2 DEF S!RecordDeliveryAnchor, S!HoldsClaim
    <3> HIDE DEF q, m
    <3>3. Spaced(row[m], q)
      BY <3>1, <3>2, QuietSpaced
    <3>4. QED
      BY <3>2, <3>3, OneRowSpaced
  <2>3. QED
    BY <1>2, <1>6, <2>2 DEF RecordAnchor, storeVars
<1>7. CASE Succeed(p)
  <2>1. cmd[p].m \in Monitor
    BY <1>7, ClaimInHand DEF Succeed
  <2> DEFINE m == cmd[p].m
             q == S!Delivered(row[m], cmd[p].anchor, cmd[p].turn)
  <2>2. CASE S!DeliverySucceeded(m, cmd[p].tok, cmd[p].anchor, cmd[p].turn)
    <3>1. q.state = "DELIVERED" /\ q.claim_token = NULL
      BY <1>1, <2>1 DEF S!Delivered, S!Released, T!Row
    <3>2. row' = [row EXCEPT ![m] = q] /\ m \in Monitor
      BY <2>1, <2>2 DEF S!DeliverySucceeded
    <3> HIDE DEF q, m
    <3>3. Spaced(row[m], q)
      BY <3>1, QuietSpaced
    <3>4. QED
      BY <3>2, <3>3, OneRowSpaced
  <2>3. QED
    BY <1>2, <1>7, <2>2 DEF Succeed, storeVars
<1>8. CASE Fail(p)
  <2>1. /\ cmd[p].m \in Monitor /\ cmd[p].tok \in Token /\ cmd[p].permanent \in BOOLEAN
    BY <1>8, ClaimInHand, RunningCommand DEF Fail, Command
  <2>2. CASE S!HoldsClaim(cmd[p].m, cmd[p].tok, "DELIVERING")
    <3>1. /\ row[cmd[p].m].state = "DELIVERING"
          /\ RecordFailure(cmd[p].m, cmd[p].tok, cmd[p].permanent)
      BY <1>8, <2>2 DEF Fail, S!HoldsClaim
    <3>2. QED
      BY <2>1, <3>1, FailureSpaced
  <2>3. QED
    BY <1>2, <1>8, <2>2 DEF Fail, storeVars
<1>9. QED
  BY <1>3, <1>4, <1>5, <1>6, <1>7, <1>8 DEF CommandStep

\* Attempts at a delivery are as far apart as the backoff of retry_delay says: a claim is only
\* taken when the row is due, and the row is due after the backoff of an attempt whose failure
\* was recorded within the budget, or at once when the lease of the attempt had run out.
THEOREM RetriesAreSpaced == Spec => RetriesSpaced
<1>1. ASSUME IInv, [Next]_vars, NEW n \in Monitor PROVE Spaced(row[n], row'[n])
  <2>1. CASE UNCHANGED row
    BY <2>1, UnchangedSpaced
  <2>2. ASSUME NEW d \in Dispatcher, DispatchOnce(d) \/ LoopStep(d) \/ Crash(d) PROVE UNCHANGED row
    BY <2>2
       DEF DispatchOnce, LoopStep, EndAttempt, ObserveBefore, BeginSend, NativeWrite, NativeReturn,
           NativeError, ObserveAfter, RecordFailed, CatchError, GiveUp, CatchTimeout, Crash, storeVars
  <2>3. ASSUME NEW p \in Proc, CommandStep(p) \/ CommandFails(p) \/ OrphanDies(p)
        PROVE  Spaced(row[n], row'[n])
    BY <1>1, <2>3, CommandSpaced
  <2>4. ASSUME NEW m \in Monitor, UserCancels(m) PROVE Spaced(row[n], row'[n])
    <3> DEFINE q == S!Cancelled(row[m], now)
    <3>1. row[m] \in T!Row
      BY <1>1, RowTyped DEF IInv
    <3>2. q.state = "CANCELLED" /\ q.claim_token = NULL
      BY <3>1 DEF S!Cancelled, S!Released, T!Row
    <3>3. row' = [row EXCEPT ![m] = q]
      BY <2>4 DEF UserCancels, S!Cancel
    <3> HIDE DEF q
    <3>4. Spaced(row[m], q)
      BY <3>2, QuietSpaced
    <3>5. QED
      BY <1>1, <3>3, <3>4, OneRowSpaced
  <2>5. CASE DaemonRecovers
    BY <1>1, <2>5, RecoverSpaced DEF DaemonRecovers
  <2>6. CASE \/ \E c \in calls : DesktopAppends(c) \/ DesktopDrops(c)
             \/ \E t \in Thread : UserContinues(t) \/ Archive(t)
             \/ Tick
             \/ UNCHANGED vars
    BY <2>1, <2>6 DEF DesktopAppends, DesktopDrops, UserContinues, Archive, Tick, vars, storeVars
  <2>7. QED
    BY <1>1, <2>1, <2>2, <2>3, <2>4, <2>5, <2>6 DEF Next
<1>2. IInv /\ [Next]_vars => [\A m \in Monitor : Spaced(row[m], row'[m])]_vars
  BY <1>1
<1>3. QED
  BY <1>2, DispatchInvariant, PTL DEF Spec, RetriesSpaced

-----------------------------------------------------------------------------
(* An attempt ends in a bounded number of its own steps, in whatever order *)
(* answers, timers, crashes and others come.  That nothing sticks in       *)
(* between takes the protocol of dispatcher and commands: each command     *)
(* passes its own stages only, and gives an answer its caller reads.       *)

Stages(op) ==
    CASE op = "claim"   -> {"recover", "lease", "anchor", "record", "find", "succeed", "fail", "done"}
      [] op = "observe" -> {"scan", "succeed", "fail", "done"}
      [] op = "fail"    -> {"fail", "done"}

Answers(op) ==
    CASE op = "claim"   -> {"claim", "none", "error"}
      [] op = "observe" -> {"observed", "stale", "unconfirmed", "error"}
      [] op = "fail"    -> {"recorded", "unrecorded", "error"}

Proper(c) ==
    /\ c.op \in {"claim", "observe", "fail"}
    /\ c.pc \in Stages(c.op)
    /\ c.pc = "done" => c.result \in Answers(c.op)

AwaitedOp(pc) ==
    CASE pc = "claim"               -> "claim"
      [] pc \in {"before", "after"} -> "observe"
      [] pc \in {"fail", "catch"}   -> "fail"

Protocol ==
    /\ \A p \in Proc : Running(p) => Proper(cmd[p])
    /\ \A d \in Dispatcher :
         js[d].pc \in AwaitingChild => cmd[js[d].child].op = AwaitedOp(js[d].pc)

\* An answer the loop reads, whatever is awaited: the guards of EndAttempt, ObserveBefore,
\* BeginSend, RecordFailed and CatchError.
Read(d) ==
    \/ \E result \in {"none", "error", "claim"} : Answered(d, "claim", result)
    \/ \E pc \in {"before", "after"}, result \in {"observed", "stale", "unconfirmed"} :
         Answered(d, pc, result)
    \/ Answered(d, "fail", "recorded")
    \/ Rejected(d)
    \/ \E result \in {"recorded", "unrecorded", "error"} : Answered(d, "catch", result)

\* The steps a command has left, and the awaits of an attempt, each of at most seven steps.
Steps(c) ==
    CASE c.pc = "done"                -> 0
      [] c.pc \in {"succeed", "fail"} -> 1
      [] c.pc \in {"find", "scan"}    -> 2
      [] c.pc = "anchor"              -> IF c.anchor = NULL THEN 5 ELSE 3
      [] c.pc = "record"              -> 4
      [] c.pc = "lease"               -> 6
      [] c.pc = "recover"             -> 7

Awaits(pc) ==
    CASE pc = "idle"   -> 0
      [] pc = "catch"  -> 1
      [] pc = "fail"   -> 2
      [] pc = "after"  -> 3
      [] pc = "call"   -> 4
      [] pc = "send"   -> 5
      [] pc = "before" -> 6
      [] pc = "claim"  -> 7

StepsLeft(j, cm) == 8 * Awaits(j.pc) + (IF j.pc \in AwaitingChild THEN Steps(cm[j.child]) ELSE 0)

\* Within an attempt no step, of anyone, adds to what is left of it, and each step of its own
\* takes something away.
Advances(d) ==
    js[d].pc # "idle" =>
        /\ StepsLeft(js[d], cmd) \in 0..63
        /\ StepsLeft(js'[d], cmd') <= StepsLeft(js[d], cmd)
        /\ js'[d] # js[d] => StepsLeft(js'[d], cmd') < StepsLeft(js[d], cmd)
        /\ js[d].pc \in AwaitingChild /\ cmd'[js[d].child] # cmd[js[d].child] =>
             StepsLeft(js'[d], cmd') < StepsLeft(js[d], cmd)

LEMMA ProperSteps ==
    ASSUME NEW c, Proper(c)
    PROVE  /\ Steps(c) \in 0..7
           /\ c.pc # "done" => Steps(c) > 0
           /\ c.pc = "done" => Steps(c) = 0
           /\ c.op \in {"claim", "observe", "fail"} /\ c.pc \in Stages(c.op)
BY DEF Proper, Steps, Stages

LEMMA AwaitsBounded == ASSUME NEW j \in Loop PROVE Awaits(j.pc) \in 0..7
BY DEF Loop, Awaits

\* What the dispatcher knows of its child, and its share of the measure.
LEMMA ChildKnown ==
    ASSUME IInv, Protocol, NEW d \in Dispatcher
    PROVE  /\ js[d] \in Loop /\ js \in [Dispatcher -> Loop] /\ cmd \in [Proc -> Command \cup {Idle}]
           /\ Awaits(js[d].pc) \in 0..7
           /\ js[d].pc = "idle" <=> Awaits(js[d].pc) = 0
           /\ js[d].pc \in AwaitingChild =>
                /\ js[d].child \in Proc /\ js[d].child # NULL /\ Running(js[d].child)
                /\ Proper(cmd[js[d].child]) /\ Steps(cmd[js[d].child]) \in 0..7
           /\ StepsLeft(js[d], cmd) \in 0..63
           /\ StepsLeft(js[d], cmd) >= 8 * Awaits(js[d].pc)
<1>1. js[d] \in Loop /\ js \in [Dispatcher -> Loop] /\ cmd \in [Proc -> Command \cup {Idle}]
  BY DEF IInv, ProcessesOK
<1>2. Awaits(js[d].pc) \in 0..7 /\ (js[d].pc = "idle" <=> Awaits(js[d].pc) = 0)
  BY <1>1 DEF Loop, Awaits
<1>3. js[d].pc \in AwaitingChild =>
        /\ js[d].child \in Proc /\ js[d].child # NULL /\ Running(js[d].child)
        /\ Proper(cmd[js[d].child]) /\ Steps(cmd[js[d].child]) \in 0..7
  BY LoopKnown, ProperSteps DEF Protocol
<1>4. /\ StepsLeft(js[d], cmd) \in 0..63
      /\ StepsLeft(js[d], cmd) >= 8 * Awaits(js[d].pc)
  BY <1>2, <1>3 DEF StepsLeft
<1>5. QED
  BY <1>1, <1>2, <1>3, <1>4

\* What every step is shown to do.
Progress == Protocol' /\ \A d \in Dispatcher : Advances(d)

\* No process moves.
LEMMA NobodyMoves == ASSUME IInv, Protocol, UNCHANGED <<js, cmd>> PROVE Progress
<1>1. Protocol'
  BY DEF Protocol, Running
<1>2. \A d \in Dispatcher : Advances(d)
  BY ChildKnown DEF Advances
<1>3. QED
  BY <1>1, <1>2 DEF Progress

\* A command moves on, or ends with nobody waiting for it.
LEMMA CommandProgress ==
    ASSUME IInv, Protocol, NEW p \in Proc, Running(p), NEW c,
           cmd' = [cmd EXCEPT ![p] = c], UNCHANGED js,
           \/ c = Idle /\ Orphan(p)
           \/ Proper(c) /\ c.op = cmd[p].op /\ Steps(c) < Steps(cmd[p])
    PROVE  Progress
<1>1. /\ cmd'[p] = c
      /\ \A q \in Proc : q # p => cmd'[q] = cmd[q]
  BY DEF IInv, ProcessesOK
<1>2. \A q \in Proc : cmd'[q] # Idle => Proper(cmd'[q])
  BY <1>1 DEF Protocol, Running
<1>3. ASSUME NEW d \in Dispatcher, js[d].pc \in AwaitingChild
      PROVE  /\ cmd'[js[d].child].op = AwaitedOp(js[d].pc)
             /\ Steps(cmd'[js[d].child]) <= Steps(cmd[js[d].child])
             /\ cmd'[js[d].child] # cmd[js[d].child] =>
                  Steps(cmd'[js[d].child]) < Steps(cmd[js[d].child])
             /\ Steps(cmd'[js[d].child]) \in 0..7 /\ Steps(cmd[js[d].child]) \in 0..7
  <2> DEFINE q == js[d].child
  <2>1. /\ q \in Proc /\ Proper(cmd[q]) /\ Steps(cmd[q]) \in 0..7
        /\ cmd[q].op = AwaitedOp(js[d].pc)
    BY <1>3, ChildKnown DEF Protocol
  <2>2. CASE q = p
    <3>1. Proper(c) /\ c.op = cmd[p].op /\ Steps(c) < Steps(cmd[p])
      BY <2>2 DEF Orphan
    <3>2. Steps(c) \in 0..7
      BY <3>1, ProperSteps
    <3>3. QED
      BY <1>1, <2>1, <2>2, <3>1, <3>2
  <2>3. CASE q # p
    BY <1>1, <2>1, <2>3
  <2>4. QED
    BY <2>2, <2>3
<1>4. Protocol'
  BY <1>2, <1>3 DEF Protocol, Running
<1>5. ASSUME NEW d \in Dispatcher PROVE Advances(d)
  <2>1. Awaits(js[d].pc) \in 0..7 /\ StepsLeft(js[d], cmd) \in 0..63
    BY ChildKnown
  <2>2. CASE js[d].pc \in AwaitingChild
    <3>1. /\ StepsLeft(js[d], cmd) = 8 * Awaits(js[d].pc) + Steps(cmd[js[d].child])
          /\ StepsLeft(js'[d], cmd') = 8 * Awaits(js[d].pc) + Steps(cmd'[js[d].child])
      BY <2>2 DEF StepsLeft
    <3> DEFINE before == Steps(cmd[js[d].child])
               after == Steps(cmd'[js[d].child])
               k == Awaits(js[d].pc)
    <3>2. k \in 0..7 /\ before \in 0..7 /\ after \in 0..7 /\ after <= before
      BY <1>3, <2>1, <2>2
    <3>3. /\ StepsLeft(js[d], cmd) = 8 * k + before /\ StepsLeft(js'[d], cmd') = 8 * k + after
          /\ cmd'[js[d].child] # cmd[js[d].child] => after < before
      BY <1>3, <2>2, <3>1
    <3> HIDE DEF before, after, k
    <3>4. /\ StepsLeft(js'[d], cmd') <= StepsLeft(js[d], cmd)
          /\ after < before => StepsLeft(js'[d], cmd') < StepsLeft(js[d], cmd)
      BY <3>2, <3>3
    <3>5. QED
      BY <2>1, <2>2, <3>3, <3>4 DEF Advances
  <2>3. CASE js[d].pc \notin AwaitingChild
    <3>1. StepsLeft(js'[d], cmd') = StepsLeft(js[d], cmd)
      BY <2>3 DEF StepsLeft
    <3>2. QED
      BY <2>1, <2>3, <3>1 DEF Advances
  <2>4. QED
    BY <2>2, <2>3
<1>6. QED
  BY <1>4, <1>5 DEF Progress

\* A dispatcher goes on to a later await, or starts an attempt.
LEMMA LoopProgress ==
    ASSUME IInv, Protocol, NEW d \in Dispatcher, NEW j \in Loop, js' = [js EXCEPT ![d] = j],
           \A q \in Proc : cmd'[q] # cmd[q] =>
                /\ q = js[d].child \/ ~Running(q)
                /\ cmd'[q] # Idle => Proper(cmd'[q]),
           j.pc \in AwaitingChild =>
                /\ Proper(cmd'[j.child])
                /\ cmd'[j.child].op = AwaitedOp(j.pc),
           js[d].pc # "idle" => Awaits(j.pc) < Awaits(js[d].pc)
    PROVE  Progress
<1>1. /\ js'[d] = j
      /\ \A e \in Dispatcher : e # d => js'[e] = js[e]
  BY DEF IInv, ProcessesOK
<1>2. ASSUME NEW e \in Dispatcher, e # d, js[e].pc \in AwaitingChild
      PROVE  cmd'[js[e].child] = cmd[js[e].child]
  <2>1. js[e].child \in Proc /\ Running(js[e].child) /\ js[e].child # NULL
    BY <1>2, LoopKnown
  <2>2. js[e].child # js[d].child
    BY <1>2, <2>1 DEF IInv, ProcessesOK
  <2>3. QED
    BY <2>1, <2>2
<1>3. Protocol'
  <2>1. \A q \in Proc : cmd'[q] # Idle => Proper(cmd'[q])
    BY DEF Protocol, Running
  <2>2. \A e \in Dispatcher : js'[e].pc \in AwaitingChild =>
          cmd'[js'[e].child].op = AwaitedOp(js'[e].pc)
    BY <1>1, <1>2 DEF Protocol
  <2>3. QED
    BY <2>1, <2>2 DEF Protocol, Running
<1>4. ASSUME NEW e \in Dispatcher PROVE Advances(e)
  <2>1. StepsLeft(js[e], cmd) \in 0..63 /\ StepsLeft(js[e], cmd) >= 8 * Awaits(js[e].pc)
    BY ChildKnown
  <2>2. CASE e # d
    <3>1. StepsLeft(js'[e], cmd') = StepsLeft(js[e], cmd)
      BY <1>1, <1>2, <2>2 DEF StepsLeft
    <3>2. QED
      BY <1>1, <1>2, <2>1, <2>2, <3>1 DEF Advances
  <2>3. CASE e = d /\ js[d].pc # "idle"
    <3>1. Awaits(j.pc) \in 0..7 /\ Awaits(js[d].pc) \in 0..7 /\ Awaits(j.pc) < Awaits(js[d].pc)
      BY <2>3, AwaitsBounded, ChildKnown
    <3>2. j.pc \in AwaitingChild => Steps(cmd'[j.child]) \in 0..7
      BY ProperSteps
    <3>3. StepsLeft(j, cmd') <= 8 * Awaits(j.pc) + 7
      BY <3>1, <3>2 DEF StepsLeft
    <3>4. StepsLeft(j, cmd') \in Nat
      BY <3>1, <3>2 DEF StepsLeft
    <3> DEFINE before == StepsLeft(js[d], cmd)
               after == StepsLeft(j, cmd')
               k == Awaits(js[d].pc)
               l == Awaits(j.pc)
    <3>5. before \in 0..63 /\ before >= 8 * k /\ after \in Nat /\ after <= 8 * l + 7
          /\ k \in 0..7 /\ l \in 0..7 /\ l < k
      BY <2>1, <2>3, <3>1, <3>3, <3>4
    <3> HIDE DEF before, after, k, l
    <3>6. after < before /\ after <= before
      BY <3>5
    <3>7. QED
      BY <1>1, <2>1, <2>3, <3>6 DEF Advances, before, after
  <2>4. CASE e = d /\ js[d].pc = "idle"
    BY <2>4 DEF Advances
  <2>5. QED
    BY <2>2, <2>3, <2>4
<1>5. QED
  BY <1>3, <1>4 DEF Progress

-----------------------------------------------------------------------------
(* Every step of a command takes it on. *)

LEMMA ProperCommand ==
    ASSUME IInv, Protocol, NEW p \in Proc, Running(p)
    PROVE  /\ cmd[p] \in Command /\ cmd \in [Proc -> Command \cup {Idle}]
           /\ Proper(cmd[p]) /\ Steps(cmd[p]) \in 0..7
BY RunningCommand, ProperSteps DEF Protocol

LEMMA FinishProgress ==
    ASSUME IInv, Protocol, NEW p \in Proc, Running(p), cmd[p].pc # "done", UNCHANGED js,
           NEW result \in Answers(cmd[p].op), Finish(p, result)
    PROVE  Progress
<1> DEFINE b == [cmd[p] EXCEPT !.pc = "done", !.result = result]
           c == IF Orphan(p) THEN Idle ELSE b
<1>1. cmd[p] \in Command /\ Proper(cmd[p]) /\ Steps(cmd[p]) > 0
  BY ProperCommand, ProperSteps
<1>2. b.pc = "done" /\ b.result = result /\ b.op = cmd[p].op
  BY <1>1 DEF Command
<1> HIDE DEF b
<1>3. Proper(b)
  BY <1>1, <1>2 DEF Proper, Stages
<1>4. Steps(b) = 0
  BY <1>2, <1>3, ProperSteps
<1>5. \/ c = Idle /\ Orphan(p)
      \/ Proper(c) /\ c.op = cmd[p].op /\ Steps(c) < Steps(cmd[p])
  BY <1>1, <1>2, <1>3, <1>4
<1>6. cmd' = [cmd EXCEPT ![p] = c]
  BY DEF Finish, b
<1> HIDE DEF c
<1>7. QED
  BY <1>5, <1>6, CommandProgress

LEMMA EndsProgress ==
    ASSUME IInv, Protocol, NEW p \in Proc, Running(p), cmd[p].pc # "done", UNCHANGED js,
           NEW result \in Answers(cmd[p].op), Ends(p, result)
    PROVE  Progress
<1>1. "error" \in Answers(cmd[p].op)
  BY ProperCommand DEF Proper, Answers
<1>2. CASE Finish(p, result)
  BY <1>2, FinishProgress
<1>3. CASE Finish(p, "error")
  BY <1>1, <1>3, FinishProgress
<1>4. QED
  BY <1>2, <1>3 DEF Ends

\* A command goes to a stage of its own with fewer steps to come.
LEMMA StageProgress ==
    ASSUME IInv, Protocol, NEW p \in Proc, Running(p), UNCHANGED js, NEW c,
           cmd' = [cmd EXCEPT ![p] = c],
           c.op = cmd[p].op, c.pc \in Stages(c.op) \ {"done"}, Steps(c) < Steps(cmd[p])
    PROVE  Progress
<1>1. Proper(c)
  BY ProperCommand DEF Proper
<1>2. QED
  BY <1>1, CommandProgress

LEMMA RaiseProgress ==
    ASSUME IInv, Protocol, NEW p \in Proc, Running(p), UNCHANGED js, NEW permanent \in BOOLEAN,
           cmd[p].pc \in {"anchor", "record", "find", "scan"}, Raise(p, permanent)
    PROVE  Progress
<1> DEFINE c == [cmd[p] EXCEPT !.pc = "fail", !.permanent = permanent]
<1>1. cmd[p] \in Command /\ cmd \in [Proc -> Command \cup {Idle}] /\ Proper(cmd[p])
  BY ProperCommand
<1>2. c.pc = "fail" /\ c.op = cmd[p].op
  BY <1>1 DEF Command
<1>3. cmd' = [cmd EXCEPT ![p] = c]
  BY <1>1 DEF Raise
<1> HIDE DEF c
<1>4. Steps(c) = 1 /\ Steps(cmd[p]) > 1
  BY <1>2 DEF Steps
<1>5. c.pc \in Stages(c.op) \ {"done"}
  BY <1>1, <1>2 DEF Proper, Stages
<1>6. QED
  BY <1>2, <1>3, <1>4, <1>5, StageProgress

LEMMA RecoverProgress == ASSUME IInv, Protocol, NEW p \in Proc, Recover(p) PROVE Progress
<1> DEFINE c == [cmd[p] EXCEPT !.pc = "lease"]
<1>1. Running(p) /\ cmd[p].op = "claim" /\ cmd[p].pc = "recover" /\ UNCHANGED js
  BY DEF Recover, At
<1>2. cmd[p] \in Command /\ cmd \in [Proc -> Command \cup {Idle}]
  BY <1>1, ProperCommand
<1>3. c.pc = "lease" /\ c.op = "claim"
  BY <1>1, <1>2 DEF Command
<1>4. cmd' = [cmd EXCEPT ![p] = c]
  BY <1>2 DEF Recover, Goto
<1> HIDE DEF c
<1>5. Steps(c) < Steps(cmd[p]) /\ c.op = cmd[p].op /\ c.pc \in Stages(c.op) \ {"done"}
  BY <1>1, <1>3 DEF Steps, Stages
<1>6. QED
  BY <1>1, <1>3, <1>4, <1>5, StageProgress

LEMMA LeaseProgress == ASSUME IInv, Protocol, NEW p \in Proc, Lease(p) PROVE Progress
<1>1. Running(p) /\ cmd[p].op = "claim" /\ cmd[p].pc = "lease" /\ UNCHANGED js
  BY DEF Lease, At
<1>2. cmd[p] \in Command
  BY <1>1, ProperCommand
<1>3. ASSUME NEW m \in Monitor, NEW tok \in Token,
             cmd' = [cmd EXCEPT ![p].pc = "anchor", ![p].m = m, ![p].tok = tok,
                                ![p].anchor = row[m].delivery_rollout]
      PROVE  Progress
  <2> DEFINE c == [cmd[p] EXCEPT !.pc = "anchor", !.m = m, !.tok = tok,
                                 !.anchor = row[m].delivery_rollout]
  <2>1. c.pc = "anchor" /\ c.op = "claim"
    BY <1>1, <1>2 DEF Command
  <2>2. cmd' = [cmd EXCEPT ![p] = c]
    BY <1>1, <1>3, ProperCommand
  <2> HIDE DEF c
  <2>3. Steps(c) < Steps(cmd[p]) /\ c.op = cmd[p].op /\ c.pc \in Stages(c.op) \ {"done"}
    BY <1>1, <2>1 DEF Steps, Stages
  <2>4. QED
    BY <1>1, <2>1, <2>2, <2>3, StageProgress
<1>4. CASE Finish(p, "none")
  BY <1>1, <1>4, FinishProgress DEF Answers
<1>5. QED
  BY <1>3, <1>4 DEF Lease

LEMMA PrepareAnchorProgress ==
    ASSUME IInv, Protocol, NEW p \in Proc, PrepareAnchor(p)
    PROVE  Progress
<1>1. Running(p) /\ cmd[p].op = "claim" /\ cmd[p].pc = "anchor" /\ UNCHANGED js
  BY DEF PrepareAnchor, At
<1>2. cmd[p] \in Command /\ cmd \in [Proc -> Command \cup {Idle}]
  BY <1>1, ProperCommand
<1>3. \A permanent \in BOOLEAN : Raise(p, permanent) => Progress
  BY <1>1, RaiseProgress
<1>4. CASE cmd[p].anchor # NULL /\ Goto(p, "find")
  <2> DEFINE c == [cmd[p] EXCEPT !.pc = "find"]
  <2>1. c.pc = "find" /\ c.op = "claim"
    BY <1>1, <1>2 DEF Command
  <2>2. cmd' = [cmd EXCEPT ![p] = c]
    BY <1>2, <1>4 DEF Goto
  <2> HIDE DEF c
  <2>3. Steps(c) < Steps(cmd[p]) /\ c.op = cmd[p].op /\ c.pc \in Stages(c.op) \ {"done"}
    BY <1>1, <1>4, <2>1 DEF Steps, Stages
  <2>4. QED
    BY <1>1, <2>1, <2>2, <2>3, StageProgress
<1>5. CASE /\ cmd[p].anchor = NULL
           /\ cmd' = [cmd EXCEPT ![p].pc = "record", ![p].anchor = Len(rollout[ThreadOf[cmd[p].m]])]
  <2> DEFINE c == [cmd[p] EXCEPT !.pc = "record", !.anchor = Len(rollout[ThreadOf[cmd[p].m]])]
  <2>1. c.pc = "record" /\ c.op = "claim"
    BY <1>1, <1>2 DEF Command
  <2>2. cmd' = [cmd EXCEPT ![p] = c]
    BY <1>2, <1>5
  <2> HIDE DEF c
  <2>3. Steps(c) < Steps(cmd[p]) /\ c.op = cmd[p].op /\ c.pc \in Stages(c.op) \ {"done"}
    BY <1>1, <1>5, <2>1 DEF Steps, Stages
  <2>4. QED
    BY <1>1, <2>1, <2>2, <2>3, StageProgress
<1>6. QED
  BY <1>3, <1>4, <1>5 DEF PrepareAnchor, Unreadable

\* An anchor that was captured is not captured again: the row gives back the one it keeps.
LEMMA RecordAnchorProgress ==
    ASSUME IInv, Protocol, NEW p \in Proc, RecordAnchor(p)
    PROVE  Progress
<1>1. Running(p) /\ cmd[p].op = "claim" /\ cmd[p].pc = "record" /\ UNCHANGED js
  BY DEF RecordAnchor, At
<1>2. /\ cmd[p] \in Command /\ cmd \in [Proc -> Command \cup {Idle}]
      /\ cmd[p].anchor # NULL /\ cmd[p].m \in Monitor
  BY <1>1, ProperCommand, RunningCommand, ClaimInHand DEF GoodCommand
<1>3. CASE Raise(p, FALSE)
  BY <1>1, <1>3, RaiseProgress
<1>4. CASE /\ S!RecordDeliveryAnchor(cmd[p].m, cmd[p].tok, cmd[p].anchor)
           /\ cmd' = [cmd EXCEPT ![p].pc = "anchor", ![p].anchor = row'[cmd[p].m].delivery_rollout]
  <2> DEFINE c == [cmd[p] EXCEPT !.pc = "anchor", !.anchor = row'[cmd[p].m].delivery_rollout]
  <2>1. /\ c.pc = "anchor" /\ c.op = "claim"
        /\ c.anchor = row'[cmd[p].m].delivery_rollout
    BY <1>1, <1>2 DEF Command
  <2>2. cmd' = [cmd EXCEPT ![p] = c]
    BY <1>2, <1>4
  <2> HIDE DEF c
  <2>3. c.anchor # NULL
    <3>1. row \in [Monitor -> T!Row] /\ row[cmd[p].m] \in T!Row
      BY <1>2, RowTyped DEF IInv
    <3>2. row'[cmd[p].m] = S!Anchored(row[cmd[p].m], cmd[p].anchor)
      BY <1>2, <1>4, <3>1 DEF S!RecordDeliveryAnchor
    <3>3. QED
      BY <1>2, <2>1, <3>1, <3>2 DEF S!Anchored, T!Row
  <2>4. Steps(c) < Steps(cmd[p]) /\ c.op = cmd[p].op /\ c.pc \in Stages(c.op) \ {"done"}
    BY <1>1, <2>1, <2>3 DEF Steps, Stages
  <2>5. QED
    BY <1>1, <2>1, <2>2, <2>4, StageProgress
<1>5. QED
  BY <1>3, <1>4 DEF RecordAnchor

\* A continue was found: it is reported next.
LEMMA FoundProgress ==
    ASSUME IInv, Protocol, NEW p \in Proc, Running(p), UNCHANGED js,
           \/ cmd[p].op = "claim" /\ cmd[p].pc = "find"
           \/ cmd[p].op = "observe" /\ cmd[p].pc = "scan",
           NEW a, NEW t,
           cmd' = [cmd EXCEPT ![p] = [cmd[p] EXCEPT !.pc = "succeed", !.anchor = a, !.turn = t]]
    PROVE  Progress
<1> DEFINE c == [cmd[p] EXCEPT !.pc = "succeed", !.anchor = a, !.turn = t]
<1>1. c.pc = "succeed" /\ c.op = cmd[p].op
  BY ProperCommand DEF Command
<1>2. cmd' = [cmd EXCEPT ![p] = c]
  OBVIOUS
<1> HIDE DEF c
<1>3. Steps(c) < Steps(cmd[p]) /\ c.op = cmd[p].op /\ c.pc \in Stages(c.op) \ {"done"}
  BY <1>1 DEF Steps, Stages
<1>4. QED
  BY <1>1, <1>2, <1>3, StageProgress

LEMMA FindBeforeSendProgress ==
    ASSUME IInv, Protocol, NEW p \in Proc, FindBeforeSend(p)
    PROVE  Progress
<1> DEFINE c == cmd[p]
           turn == FirstOf(ContinuesAfter(ThreadOf[c.m], c.anchor))
<1>1. Running(p) /\ c.op = "claim" /\ c.pc = "find" /\ UNCHANGED js
  BY DEF FindBeforeSend, At
<1>2. c \in Command /\ cmd \in [Proc -> Command \cup {Idle}]
  BY <1>1, ProperCommand
<1>3. \A permanent \in BOOLEAN : Raise(p, permanent) => Progress
  BY <1>1, RaiseProgress
<1>4. CASE Finish(p, "claim")
  BY <1>1, <1>4, FinishProgress DEF Answers
<1>5. CASE cmd' = [cmd EXCEPT ![p].pc = "succeed", ![p].turn = turn]
  <2>1. [c EXCEPT !.pc = "succeed", !.turn = turn]
          = [c EXCEPT !.pc = "succeed", !.anchor = c.anchor, !.turn = turn]
    <3> HIDE DEF turn
    <3>1. QED
      BY <1>2 DEF Command
  <2>2. cmd' = [cmd EXCEPT ![p] = [c EXCEPT !.pc = "succeed", !.anchor = c.anchor, !.turn = turn]]
    BY <1>2, <1>5, <2>1
  <2> HIDE DEF turn
  <2>3. QED
    BY <1>1, <2>2, FoundProgress
<1>6. QED
  BY <1>3, <1>4, <1>5 DEF FindBeforeSend, BeyondLimit

LEMMA ScanProgress == ASSUME IInv, Protocol, NEW p \in Proc, Scan(p) PROVE Progress
<1> DEFINE c == cmd[p]
           anchor == row[c.m].delivery_rollout
           turn == FirstOf(ContinuesAfter(ThreadOf[c.m], anchor))
<1>1. Running(p) /\ c.op = "observe" /\ c.pc = "scan" /\ UNCHANGED js
  BY DEF Scan, At
<1>2. c \in Command /\ cmd \in [Proc -> Command \cup {Idle}]
  BY <1>1, ProperCommand
<1>3. \A permanent \in BOOLEAN : Raise(p, permanent) => Progress
  BY <1>1, RaiseProgress
<1>4. CASE Finish(p, "stale") \/ Finish(p, "unconfirmed")
  BY <1>1, <1>4, FinishProgress DEF Answers
<1>5. CASE cmd' = [cmd EXCEPT ![p].pc = "succeed", ![p].anchor = anchor, ![p].turn = turn]
  <2> HIDE DEF anchor, turn
  <2>1. cmd' = [cmd EXCEPT ![p] = [c EXCEPT !.pc = "succeed", !.anchor = anchor, !.turn = turn]]
    BY <1>2, <1>5
  <2>2. QED
    BY <1>1, <2>1, FoundProgress
<1>6. QED
  BY <1>3, <1>4, <1>5 DEF Scan, Unreadable, BeyondLimit

LEMMA SucceedProgress == ASSUME IInv, Protocol, NEW p \in Proc, Succeed(p) PROVE Progress
<1> DEFINE held == S!HoldsClaim(cmd[p].m, cmd[p].tok, "DELIVERING")
           result == IF cmd[p].op = "claim" THEN "none" ELSE IF held THEN "observed" ELSE "stale"
<1>1. Running(p) /\ cmd[p].pc = "succeed" /\ UNCHANGED js
  BY DEF Succeed
<1>2. Proper(cmd[p])
  BY <1>1, ProperCommand
<1>3. result \in Answers(cmd[p].op)
  BY <1>1, <1>2 DEF Proper, Stages, Answers
<1>4. Ends(p, result)
  BY DEF Succeed
<1> HIDE DEF result
<1>5. QED
  BY <1>1, <1>3, <1>4, EndsProgress

LEMMA FailProgress == ASSUME IInv, Protocol, NEW p \in Proc, Fail(p) PROVE Progress
<1> DEFINE held == S!HoldsClaim(cmd[p].m, cmd[p].tok, "DELIVERING")
           result == CASE cmd[p].op = "claim"   -> "none"
                       [] cmd[p].op = "observe" -> "unconfirmed"
                       [] cmd[p].op = "fail"    -> IF held THEN "recorded" ELSE "unrecorded"
<1>1. Running(p) /\ cmd[p].pc = "fail" /\ UNCHANGED js
  BY DEF Fail
<1>2. Proper(cmd[p])
  BY <1>1, ProperCommand
<1>3. result \in Answers(cmd[p].op)
  BY <1>1, <1>2 DEF Proper, Stages, Answers
<1>4. Ends(p, result)
  BY DEF Fail
<1> HIDE DEF result
<1>5. QED
  BY <1>1, <1>3, <1>4, EndsProgress

LEMMA CommandsProgress ==
    ASSUME IInv, Protocol, NEW p \in Proc, CommandStep(p) \/ CommandFails(p) \/ OrphanDies(p)
    PROVE  Progress
<1>1. CASE CommandFails(p)
  <2>1. Running(p) /\ "error" \in Answers(cmd[p].op)
    BY <1>1, ProperCommand DEF CommandFails, Proper, Answers
  <2>2. QED
    BY <1>1, <2>1, FinishProgress DEF CommandFails
<1>2. CASE OrphanDies(p)
  BY <1>2, CommandProgress DEF OrphanDies, Orphan
<1>3. CASE CommandStep(p)
  BY <1>3, RecoverProgress, LeaseProgress, PrepareAnchorProgress, RecordAnchorProgress,
     FindBeforeSendProgress, ScanProgress, SucceedProgress, FailProgress DEF CommandStep
<1>4. QED
  BY <1>1, <1>2, <1>3

-----------------------------------------------------------------------------
(* Every step of a dispatcher takes its attempt on. *)

\* The commands it starts are proper.
LEMMA StartedProper ==
    ASSUME NEW m, NEW tok, NEW wait
    PROVE  /\ Proper(ClaimCommand) /\ ClaimCommand.op = "claim"
           /\ Proper(FailCommand(m, tok)) /\ FailCommand(m, tok).op = "fail"
           /\ Proper(ObserveCommand(m, tok, wait)) /\ ObserveCommand(m, tok, wait).op = "observe"
<1>1. Proper(ClaimCommand) /\ ClaimCommand.op = "claim"
  BY DEF ClaimCommand, NewCommand, Proper, Stages
<1>2. Proper(FailCommand(m, tok)) /\ FailCommand(m, tok).op = "fail"
  BY DEF FailCommand, NewCommand, Proper, Stages
<1>3. Proper(ObserveCommand(m, tok, wait)) /\ ObserveCommand(m, tok, wait).op = "observe"
  <2>1. /\ ObserveCommand(m, tok, wait).op = "observe"
        /\ ObserveCommand(m, tok, wait).pc = "scan"
    BY DEF ObserveCommand, NewCommand
  <2>2. QED
    BY <2>1 DEF Proper, Stages
<1>4. QED
  BY <1>1, <1>2, <1>3

LEMMA RestProgress ==
    ASSUME IInv, Protocol, NEW d \in Dispatcher, Rest(d), js[d].pc # "idle",
           \/ UNCHANGED cmd
           \/ Replace(d, Idle) /\ js[d].pc \in AwaitingChild
    PROVE  Progress
<1>1. Resting \in Loop /\ Resting.pc = "idle" /\ Awaits(Resting.pc) = 0
  BY ConstantsTyped DEF Resting, Loop, Awaits
<1>2. \A q \in Proc : cmd'[q] # cmd[q] => q = js[d].child /\ cmd'[q] = Idle
  BY ChildKnown DEF Replace
<1>3. Awaits(js[d].pc) > 0
  BY ChildKnown
<1> DEFINE j == Resting
<1> HIDE DEF j
<1>4. j \in Loop /\ j.pc \notin AwaitingChild /\ Awaits(j.pc) < Awaits(js[d].pc)
  BY <1>1, <1>3, ChildKnown DEF j, AwaitingChild
<1>5. js' = [js EXCEPT ![d] = j]
  BY DEF Rest, j
<1>6. QED
  BY <1>2, <1>4, <1>5, LoopProgress

LEMMA AwaitChildProgress ==
    ASSUME IInv, Protocol, NEW d \in Dispatcher, NEW pc \in AwaitingChild,
           NEW m \in Monitor \cup {NULL}, NEW tok \in Token \cup {NULL}, NEW p \in Proc, NEW c,
           Proper(c), c.op = AwaitedOp(pc), p = js[d].child \/ ~Running(p),
           cmd' = [cmd EXCEPT ![p] = c], AwaitChild(d, pc, m, tok, p),
           js[d].pc # "idle" => Awaits(pc) < Awaits(js[d].pc)
    PROVE  Progress
<1> DEFINE j == [pc |-> pc, m |-> m, tok |-> tok, child |-> p, by |-> 0]
<1>1. j \in Loop /\ j.child = p /\ j.pc = pc
  BY DEF Loop, AwaitingChild
<1>2. cmd'[p] = c /\ \A q \in Proc : q # p => cmd'[q] = cmd[q]
  BY DEF IInv, ProcessesOK
<1>3. js' = [js EXCEPT ![d] = j]
  BY DEF AwaitChild
<1> HIDE DEF j
<1>4. QED
  BY <1>1, <1>2, <1>3, LoopProgress

\* It starts a command about the claim it has.
LEMMA NextChildProgress ==
    ASSUME IInv, Protocol, NEW d \in Dispatcher, NEW pc \in AwaitingChild, NEW p \in Proc,
           NEW m \in Monitor, NEW tok \in Token, NEW wait,
           p = js[d].child \/ ~Running(p),
           \/ pc \in {"fail", "catch"} /\ cmd' = [cmd EXCEPT ![p] = FailCommand(m, tok)]
           \/ pc \in {"before", "after"} /\ cmd' = [cmd EXCEPT ![p] = ObserveCommand(m, tok, wait)],
           AwaitChild(d, pc, m, tok, p),
           js[d].pc # "idle" => Awaits(pc) < Awaits(js[d].pc)
    PROVE  Progress
<1>1. ASSUME NEW c, Proper(c), c.op = AwaitedOp(pc), cmd' = [cmd EXCEPT ![p] = c]
      PROVE  Progress
  BY <1>1, AwaitChildProgress
<1>2. /\ Proper(FailCommand(m, tok)) /\ FailCommand(m, tok).op = "fail"
      /\ Proper(ObserveCommand(m, tok, wait)) /\ ObserveCommand(m, tok, wait).op = "observe"
  BY StartedProper
<1>3. CASE pc \in {"fail", "catch"} /\ cmd' = [cmd EXCEPT ![p] = FailCommand(m, tok)]
  <2> DEFINE c == FailCommand(m, tok)
  <2> HIDE DEF c
  <2>1. Proper(c) /\ c.op = AwaitedOp(pc) /\ cmd' = [cmd EXCEPT ![p] = c]
    BY <1>2, <1>3 DEF c, AwaitedOp
  <2>2. QED
    BY <1>1, <2>1
<1>4. CASE pc \in {"before", "after"} /\ cmd' = [cmd EXCEPT ![p] = ObserveCommand(m, tok, wait)]
  <2> DEFINE c == ObserveCommand(m, tok, wait)
  <2> HIDE DEF c
  <2>1. Proper(c) /\ c.op = AwaitedOp(pc) /\ cmd' = [cmd EXCEPT ![p] = c]
    BY <1>2, <1>4 DEF c, AwaitedOp
  <2>2. QED
    BY <1>1, <2>1
<1>5. QED
  BY <1>3, <1>4

LEMMA DispatchOnceProgress ==
    ASSUME IInv, Protocol, NEW d \in Dispatcher, DispatchOnce(d)
    PROVE  Progress
<1>1. PICK p \in Proc : /\ ~Running(p)
                        /\ cmd' = [cmd EXCEPT ![p] = ClaimCommand]
                        /\ AwaitChild(d, "claim", NULL, NULL, p)
  BY DEF DispatchOnce
<1>2. js[d].pc = "idle" /\ "claim" \in AwaitingChild
  BY DEF DispatchOnce, AwaitingChild
<1> DEFINE c == ClaimCommand
<1> HIDE DEF c
<1>3. Proper(c) /\ c.op = AwaitedOp("claim") /\ cmd' = [cmd EXCEPT ![p] = c]
  BY <1>1, StartedProper DEF c, AwaitedOp
<1>4. QED
  BY <1>1, <1>2, <1>3, AwaitChildProgress

LEMMA ObserveBeforeProgress ==
    ASSUME IInv, Protocol, NEW d \in Dispatcher, ObserveBefore(d)
    PROVE  Progress
<1> DEFINE p == js[d].child
           c == cmd[p]
<1>1. js[d].pc = "claim" /\ c.result = "claim"
  BY DEF ObserveBefore, Answered
<1>2. p \in Proc /\ Running(p)
  BY <1>1, LoopKnown DEF AwaitingChild
<1>3. c.m \in Monitor /\ c.tok \in Token
  BY <1>1, <1>2, RunningCommand DEF GoodCommand, Command
<1>4. /\ "before" \in AwaitingChild /\ Awaits("before") < Awaits(js[d].pc)
      /\ cmd' = [cmd EXCEPT ![p] = ObserveCommand(c.m, c.tok, 0)]
  BY <1>1 DEF ObserveBefore, Replace, AwaitingChild, Awaits
<1>5. AwaitChild(d, "before", c.m, c.tok, p)
  BY DEF ObserveBefore
<1> HIDE DEF p, c
<1>6. QED
  BY <1>2, <1>3, <1>4, <1>5, NextChildProgress DEF p

LEMMA NativeProgress ==
    ASSUME IInv, Protocol, NEW d \in Dispatcher, NEW pc \in {"send", "call"}, NEW limit \in Nat,
           AwaitNative(d, pc, limit), Awaits(pc) < Awaits(js[d].pc),
           \/ UNCHANGED cmd
           \/ Replace(d, Idle) /\ js[d].pc \in AwaitingChild
    PROVE  Progress
<1> DEFINE j == [js[d] EXCEPT !.pc = pc, !.child = NULL, !.by = Alarm(limit)]
<1>1. Alarm(limit) \in Nat
  BY AlarmNat DEF IInv
<1>2. j \in Loop /\ j.pc = pc
  BY <1>1, ChildKnown DEF Loop
<1>3. js' = [js EXCEPT ![d] = j]
  BY ChildKnown DEF AwaitNative
<1> HIDE DEF j
<1>4. j.pc \notin AwaitingChild
  BY <1>2 DEF AwaitingChild
<1>5. \A q \in Proc : cmd'[q] # cmd[q] => q = js[d].child /\ cmd'[q] = Idle
  BY ChildKnown DEF Replace
<1>6. QED
  BY <1>2, <1>3, <1>4, <1>5, LoopProgress

LEMMA ObserveAfterProgress ==
    ASSUME IInv, Protocol, NEW d \in Dispatcher, js[d].pc \in {"send", "call"}, NEW wait \in Nat,
           ObserveAfter(d, wait)
    PROVE  Progress
<1>1. PICK p \in Proc : /\ ~Running(p)
                        /\ cmd' = [cmd EXCEPT ![p] = ObserveCommand(js[d].m, js[d].tok, wait)]
                        /\ AwaitChild(d, "after", js[d].m, js[d].tok, p)
  BY DEF ObserveAfter
<1>2. js[d].m \in Monitor /\ js[d].tok \in Token
  BY LoopKnown
<1>3. "after" \in AwaitingChild /\ Awaits("after") < Awaits(js[d].pc)
  BY DEF AwaitingChild, Awaits
<1>4. QED
  BY <1>1, <1>2, <1>3, NextChildProgress

LEMMA FailNextProgress ==
    ASSUME IInv, Protocol, NEW d \in Dispatcher, js[d].pc \in {"before", "after", "fail"},
           NEW pc \in {"fail", "catch"}, NEW p \in Proc, p = js[d].child \/ ~Running(p),
           cmd' = [cmd EXCEPT ![p] = FailCommand(js[d].m, js[d].tok)],
           AwaitChild(d, pc, js[d].m, js[d].tok, p), pc = "fail" => js[d].pc # "fail"
    PROVE  Progress
<1>1. js[d].m \in Monitor /\ js[d].tok \in Token
  BY LoopKnown
<1>2. pc \in AwaitingChild /\ Awaits(pc) < Awaits(js[d].pc)
  BY DEF AwaitingChild, Awaits
<1>3. QED
  BY <1>1, <1>2, NextChildProgress

LEMMA LoopsProgress ==
    ASSUME IInv, Protocol, NEW d \in Dispatcher, DispatchOnce(d) \/ LoopStep(d) \/ Crash(d)
    PROVE  Progress
<1>1. js[d].pc \in AwaitingChild => js[d].child \in Proc
  BY LoopKnown
<1>2. CASE DispatchOnce(d)
  BY <1>2, DispatchOnceProgress
<1>3. CASE EndAttempt(d)
  <2>1. js[d].pc \in AwaitingChild /\ js[d].pc # "idle"
    BY <1>3 DEF EndAttempt, Answered, AwaitingChild
  <2>2. QED
    BY <1>3, <2>1, RestProgress DEF EndAttempt
<1>4. CASE ObserveBefore(d)
  BY <1>4, ObserveBeforeProgress
<1>5. CASE BeginSend(d)
  <2>1. js[d].pc = "before" /\ js[d].pc \in AwaitingChild /\ Awaits("send") < Awaits(js[d].pc)
    BY <1>5 DEF BeginSend, Answered, AwaitingChild, Awaits
  <2>2. QED
    BY <1>5, <2>1, ConstantsTyped, NativeProgress DEF BeginSend
<1>6. CASE NativeWrite(d)
  <2>1. Awaits("call") < Awaits(js[d].pc)
    BY <1>6 DEF NativeWrite, Awaits
  <2>2. QED
    BY <1>6, <2>1, ConstantsTyped, NativeProgress DEF NativeWrite
<1>7. CASE NativeReturn(d) \/ NativeError(d)
  BY <1>7, ConstantsTyped, ObserveAfterProgress DEF NativeReturn, NativeError
<1>8. CASE RecordFailed(d)
  BY <1>1, <1>8, FailNextProgress DEF RecordFailed, Replace, Answered, AwaitingChild
<1>9. CASE CatchError(d)
  BY <1>1, <1>9, FailNextProgress DEF CatchError, Rejected, Replace, Answered, AwaitingChild
<1>10. CASE GiveUp(d)
  BY <1>10, RestProgress DEF GiveUp, TimedOut
<1>11. CASE CatchTimeout(d)
  BY <1>11, FailNextProgress DEF CatchTimeout, TimedOut
<1>12. CASE Crash(d)
  <2>1. CASE js[d].pc # "idle"
    BY <1>12, <2>1, RestProgress DEF Crash
  <2>2. CASE js[d].pc = "idle"
    <3>1. Resting \in Loop /\ Resting.pc \notin AwaitingChild
      BY ConstantsTyped DEF Resting, Loop, AwaitingChild
    <3> DEFINE j == Resting
    <3> HIDE DEF j
    <3>2. j \in Loop /\ j.pc \notin AwaitingChild /\ js' = [js EXCEPT ![d] = j] /\ cmd' = cmd
      BY <1>12, <3>1 DEF Crash, Rest, j
    <3>3. QED
      BY <2>2, <3>2, LoopProgress
  <2>3. QED
    BY <2>1, <2>2
<1>13. QED
  BY <1>2, <1>3, <1>4, <1>5, <1>6, <1>7, <1>8, <1>9, <1>10, <1>11, <1>12 DEF LoopStep

LEMMA ProgressInit == Init => Protocol
BY DEF Init, Protocol, Running, Resting, AwaitingChild

LEMMA ProgressNext == IInv /\ Protocol /\ [Next]_vars => Progress
<1> SUFFICES ASSUME IInv, Protocol, [Next]_vars PROVE Progress
  OBVIOUS
<1>1. CASE UNCHANGED <<js, cmd>>
  BY <1>1, NobodyMoves
<1>2. ASSUME NEW d \in Dispatcher, DispatchOnce(d) \/ LoopStep(d) \/ Crash(d) PROVE Progress
  BY <1>2, LoopsProgress
<1>3. ASSUME NEW p \in Proc, CommandStep(p) \/ CommandFails(p) \/ OrphanDies(p) PROVE Progress
  BY <1>3, CommandsProgress
<1>4. CASE \/ \E c \in calls : DesktopAppends(c) \/ DesktopDrops(c)
           \/ \E t \in Thread : UserContinues(t) \/ Archive(t)
           \/ \E m \in Monitor : UserCancels(m)
           \/ DaemonRecovers
           \/ Tick
           \/ UNCHANGED vars
  <2>1. UNCHANGED <<js, cmd>>
    BY <1>4 DEF DesktopAppends, DesktopDrops, UserContinues, Archive, UserCancels, DaemonRecovers,
                Tick, vars
  <2>2. QED
    BY <2>1, NobodyMoves
<1>5. QED
  BY <1>2, <1>3, <1>4 DEF Next

LEMMA ProtocolInvariant == Spec => []Protocol
<1>1. IInv /\ Protocol /\ [Next]_vars => Protocol'
  BY ProgressNext DEF Progress
<1>2. QED
  BY <1>1, ProgressInit, DispatchInvariant, PTL DEF Spec

\* The state commands and dispatchOnce agree on every answer: whatever a command was started
\* for, what it prints or exits with is read by some step of the loop that awaits it.
THEOREM EveryAnswerRead ==
    Spec => [](\A d \in Dispatcher :
                 js[d].pc \in AwaitingChild /\ cmd[js[d].child].pc = "done" => Read(d))
<1> DEFINE AllRead ==
             \A d \in Dispatcher : js[d].pc \in AwaitingChild /\ cmd[js[d].child].pc = "done" => Read(d)
<1>1. ASSUME IInv, Protocol PROVE AllRead
  <2> SUFFICES ASSUME NEW d \in Dispatcher, js[d].pc \in AwaitingChild,
                      cmd[js[d].child].pc = "done"
               PROVE  Read(d)
    OBVIOUS
  <2>1. Proper(cmd[js[d].child]) /\ cmd[js[d].child].op = AwaitedOp(js[d].pc)
    BY <1>1, ChildKnown DEF Protocol
  <2>2. cmd[js[d].child].result \in Answers(AwaitedOp(js[d].pc))
    BY <2>1 DEF Proper
  <2>3. QED
    BY <2>2 DEF AwaitingChild, AwaitedOp, Answers, Read, Rejected, Answered
<1> HIDE DEF AllRead
<1>2. Spec => []AllRead
  BY <1>1, DispatchInvariant, ProtocolInvariant, PTL
<1>3. QED
  BY <1>2 DEF AllRead

\* An attempt takes at most 63 steps, its own and those of the commands it waits for, however
\* long it lasts and whatever others do: each takes one off what is left, and nobody adds to it.
\* So an attempt that did not end would be waiting for ever at one and the same point, and
\* dispatchOnce has a timer at each.
THEOREM AttemptsAdvance == Spec => [][\A d \in Dispatcher : Advances(d)]_vars
<1>1. IInv /\ Protocol /\ [Next]_vars => [\A d \in Dispatcher : Advances(d)]_vars
  BY ProgressNext DEF Progress
<1>2. QED
  BY <1>1, DispatchInvariant, ProtocolInvariant, PTL DEF Spec

=============================================================================
