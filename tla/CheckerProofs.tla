---------------------------- MODULE CheckerProofs ----------------------------
(***************************************************************************)
(* Proofs about module Checker, for any number of processes of any kind,   *)
(* any output and any time allowed.                                        *)
(*                                                                         *)
(* Three facts carry the rest.  The shell never leaves its session and is  *)
(* never started again, so SIGKILL reaches it.  Nobody can give back a     *)
(* pipe it let go of, so once no process holds one, the output is final.   *)
(* And the clock stands at the end of the time allowed when SIGTERM is     *)
(* sent: obedient processes leave nothing to wait for after it.            *)
(***************************************************************************)
EXTENDS Checker, SequenceTheorems, TLAPS

ShellKept ==
    /\ OwnSession \notin proc[Shell].traits
    /\ py.pc # "start" => proc[Shell].life # "unborn"
    /\ \A p \in Process : proc[p].life = "unborn" => proc[p].traits = {}

Alarms ==
    /\ py.pc = "start" => now = 0
    /\ py.pc = "communicate" => py.until = CheckTimeout /\ now <= py.until
    /\ py.pc = "terminate" =>
         CheckTimeout <= now /\ now <= py.until /\ py.until = CheckTimeout + Grace
    /\ py.pc \in {"drain", "returned"} => ~Running(Shell)

NobodyRuns == \A p \in Process : ~Running(p)

\* When obedient processes were sent SIGTERM nobody is left, and the clock has not moved since.
Obeyed ==
    Obedient => /\ py.pc \in {"terminate", "drain"} => NobodyRuns /\ now = CheckTimeout
                /\ TimedOut => NobodyRuns

\* The output is final when it is looked at, and what was observed is the end of it.
Final ==
    /\ py.pc = "start" => printed = NoTails /\ py.tails = NoTails
    /\ Returned =>
         /\ PipeHolders = {}
         /\ IF py.error = "execution error"
            THEN Decodes => printed = NoTails /\ py.tails = NoTails
            ELSE py.tails = [s \in Stream |-> Tail_text(printed[s])]

IInv == TypeOK /\ ShellKept /\ Alarms /\ Obeyed /\ Final

-----------------------------------------------------------------------------
(* The end of the output. *)

\* The tail is the last marks, in their order.
LEMMA TailText ==
    ASSUME NEW S, NEW s \in Seq(S)
    PROVE  /\ Tail_text(s) \in Seq(S)
           /\ \A i \in DOMAIN Tail_text(s) :
                \E j \in DOMAIN s : Tail_text(s)[i] = s[j] /\ Len(s) < j + TailChars
           /\ \A j \in DOMAIN s :
                Len(s) < j + TailChars => \E i \in DOMAIN Tail_text(s) : Tail_text(s)[i] = s[j]
<1> DEFINE n == Len(s)
           m == IF n < TailChars THEN 1 ELSE n - TailChars + 1
           t == SubSeq(s, m, n)
<1>1. TailChars \in Nat /\ TailChars > 0
  BY CheckerAssumption DEF CheckerAssumption
<1>2. n \in Nat /\ DOMAIN s = 1..n /\ \A i \in 1..n : s[i] \in S
  OBVIOUS
<1>3. /\ m \in Nat /\ 1 <= m /\ (n > 0 => m <= n)
      /\ \A j \in 1..n : m <= j <=> n < j + TailChars
  BY <1>1, <1>2
<1> HIDE DEF n, m
<1>4. /\ t \in Seq(S)
      /\ Len(t) = IF m <= n THEN n - m + 1 ELSE 0
      /\ \A i \in 1..n - m + 1 : t[i] = s[m + i - 1]
  BY <1>2, <1>3, SubSeqProperties
<1>5. Tail_text(s) = t
  BY DEF Tail_text, n, m
<1> HIDE DEF t
<1>6. DOMAIN t = 1..Len(t)
  BY <1>4
<1>7. ASSUME NEW i \in DOMAIN t PROVE \E j \in DOMAIN s : t[i] = s[j] /\ n < j + TailChars
  <2>1. i \in 1..Len(t) /\ i \in Nat
    BY <1>4, <1>6
  <2>2. PICK j \in 1..n : j = m + i - 1 /\ m <= j /\ t[i] = s[j]
    BY <1>2, <1>3, <1>4, <2>1
  <2>3. n < j + TailChars
    BY <1>3, <2>2
  <2>4. QED
    BY <1>2, <2>2, <2>3
<1>8. ASSUME NEW j \in DOMAIN s, n < j + TailChars PROVE \E i \in DOMAIN t : t[i] = s[j]
  <2>1. j \in 1..n /\ m <= j
    BY <1>2, <1>3, <1>8
  <2>2. j - m + 1 \in DOMAIN t /\ m + (j - m + 1) - 1 = j
    BY <1>2, <1>3, <1>4, <1>6, <2>1
  <2>3. t[j - m + 1] = s[j]
    BY <1>2, <1>3, <1>4, <1>6, <2>1, <2>2
  <2>4. QED
    BY <2>2, <2>3
<1>9. QED
  BY <1>4, <1>5, <1>7, <1>8 DEF n

-----------------------------------------------------------------------------
(* Processes that end and processes that are born. *)

ProcType == [life : {"unborn", "running", "gone"}, traits : SUBSET Trait]
PyType == [pc : {"start", "communicate", "terminate", "drain", "returned"},
           until : Nat, tails : [Stream -> Seq(Mark)], error : Errors]

LEMMA Typed ==
    TypeOK <=> /\ now \in 0..MaxTime
               /\ proc \in [Process -> ProcType]
               /\ printed \in [Stream -> Seq(Mark)]
               /\ py \in PyType
               /\ py.pc = "start" <=> \A p \in Process : proc[p].life = "unborn"
BY DEF TypeOK, ProcType, PyType

LEMMA ConstantsTyped ==
    /\ Shell \in Process
    /\ CheckTimeout \in Nat /\ Grace \in Nat /\ TailChars \in Nat /\ MaxTime \in Nat
BY CheckerAssumption DEF CheckerAssumption

\* Ending changes who runs and nothing else.
LEMMA EndedFacts ==
    ASSUME TypeOK, NEW S \in SUBSET Process, proc' = Ended(S)
    PROVE  /\ proc' \in [Process -> ProcType]
           /\ \A p \in Process : /\ proc'[p].traits = proc[p].traits
                                 /\ Running(p)' <=> Running(p) /\ p \notin S
                                 /\ proc'[p].life = "unborn" <=> proc[p].life = "unborn" /\ p \notin S
<1>1. proc \in [Process -> ProcType]
  BY Typed
<1>2. ASSUME NEW p \in Process
      PROVE  /\ proc'[p] \in ProcType
             /\ proc'[p].traits = proc[p].traits
             /\ proc'[p].life = IF p \in S THEN "gone" ELSE proc[p].life
  <2>1. proc[p] \in ProcType
    BY <1>1
  <2>2. proc'[p] = IF p \in S THEN [proc[p] EXCEPT !.life = "gone"] ELSE proc[p]
    BY DEF Ended
  <2>3. QED
    BY <2>1, <2>2 DEF ProcType
<1>3. proc' \in [Process -> ProcType]
  BY <1>2 DEF Ended
<1>4. QED
  BY <1>2, <1>3 DEF Running

\* A birth: the shell's, or a child's.
LEMMA BornFacts ==
    ASSUME TypeOK, NEW q \in Process, NEW traits \in SUBSET Trait,
           proc' = [proc EXCEPT ![q] = Born(traits)]
    PROVE  /\ proc' \in [Process -> ProcType]
           /\ \A p \in Process : p # q => proc'[p] = proc[p]
           /\ proc'[q].life = "running" /\ proc'[q].traits = traits /\ Running(q)'
           /\ \A p \in Process : p # q => (Running(p)' <=> Running(p))
<1>1. proc \in [Process -> ProcType]
  BY Typed
<1>2. Born(traits) \in ProcType
  BY DEF Born, ProcType
<1>3. /\ proc' \in [Process -> ProcType]
      /\ \A p \in Process : p # q => proc'[p] = proc[p]
      /\ proc'[q] = Born(traits)
  BY <1>1, <1>2
<1>4. QED
  BY <1>3 DEF Born, Running

-----------------------------------------------------------------------------
(* What each step leaves true. *)

LEMMA SpawnInv ==
    ASSUME IInv, NEW p \in Process, NEW child \in Process, Spawn(p, child)
    PROVE  IInv'
<1>1. PICK traits \in SUBSET Trait :
        /\ proc[p].traits \cap {OwnSession, Detached} \subseteq traits
        /\ proc' = [proc EXCEPT ![child] = Born(traits)]
  BY DEF Spawn
<1>2. Running(p) /\ proc[child].life = "unborn" /\ UNCHANGED <<now, printed, py>>
  BY DEF Spawn
<1>3. p # child /\ ~Running(child)
  BY <1>2 DEF Running
<1>4. /\ proc' \in [Process -> ProcType]
      /\ \A q \in Process : q # child => proc'[q] = proc[q] /\ (Running(q)' <=> Running(q))
      /\ proc'[child].life = "running" /\ proc'[child].traits = traits /\ Running(child)'
  BY <1>1, BornFacts DEF IInv
<1>5. py.pc # "start"
  BY <1>2, Typed DEF IInv, Running
<1>6. TypeOK'
  BY <1>2, <1>4, <1>5, Typed DEF IInv, TypeOK, ProcType
<1>7. child # Shell
  BY <1>2, <1>5 DEF IInv, ShellKept
<1>8. ShellKept'
  BY <1>2, <1>4, <1>5, <1>7, ConstantsTyped DEF IInv, ShellKept
<1>9. Running(Shell)' <=> Running(Shell)
  BY <1>4, <1>7, ConstantsTyped
<1>10. Alarms'
  BY <1>2, <1>9 DEF IInv, Alarms
<1>11. Obeyed'
  <2>1. Obedient' => Obedient
    BY <1>2, <1>4 DEF IInv, Obedient, ShellKept
  <2>2. ~NobodyRuns
    BY <1>2 DEF NobodyRuns
  <2>3. QED
    BY <1>2, <2>1, <2>2 DEF IInv, Obeyed, TimedOut, Returned
<1>12. Final'
  <2>1. PipeHolders = {} => PipeHolders' = {}
    BY <1>1, <1>2, <1>4 DEF PipeHolders
  <2>2. UNCHANGED <<printed, py>>
    BY <1>2
  <2>3. QED
    BY <2>1, <2>2 DEF IInv, Final, Returned, Decodes
<1>13. QED
  BY <1>6, <1>8, <1>10, <1>11, <1>12 DEF IInv

LEMMA PrintsInv ==
    ASSUME IInv, NEW p \in Process, Prints(p)
    PROVE  IInv'
<1>1. PICK s \in Stream, mark \in Mark : printed' = [printed EXCEPT ![s] = Append(@, mark)]
  BY DEF Prints
<1>2. p \in PipeHolders /\ Running(p) /\ UNCHANGED <<now, proc, py>>
  BY DEF Prints, PipeHolders
<1>3. printed' \in [Stream -> Seq(Mark)]
  BY <1>1, Typed DEF IInv
<1>4. TypeOK'
  BY <1>2, <1>3 DEF IInv, TypeOK
<1>5. ShellKept' /\ Alarms' /\ Obeyed'
  BY <1>2 DEF IInv, ShellKept, Alarms, Obeyed, Running, Obedient, NobodyRuns, TimedOut, Returned
<1>6. Final'
  <2>1. py.pc # "start" /\ ~Returned
    BY <1>2, Typed DEF IInv, Running, Final
  <2>2. QED
    BY <1>2, <2>1 DEF Final, Returned
<1>7. QED
  BY <1>4, <1>5, <1>6 DEF IInv

LEMMA ExitsInv ==
    ASSUME IInv, NEW p \in Process, Exits(p)
    PROVE  IInv'
<1>1. proc' = Ended({p}) /\ Running(p) /\ UNCHANGED <<now, printed, py>>
  BY DEF Exits
<1>2. /\ proc' \in [Process -> ProcType]
      /\ \A q \in Process : /\ proc'[q].traits = proc[q].traits
                            /\ Running(q)' <=> Running(q) /\ q # p
                            /\ proc'[q].life = "unborn" <=> proc[q].life = "unborn" /\ q # p
  <2> DEFINE S == {p}
  <2>1. S \in SUBSET Process /\ proc' = Ended(S) /\ \A q : q \in S <=> q = p
    BY <1>1
  <2> HIDE DEF S
  <2>2. QED
    BY <2>1, EndedFacts DEF IInv
<1>3. py.pc # "start"
  BY <1>1, Typed DEF IInv, Running
<1>4. TypeOK'
  BY <1>1, <1>2, <1>3, Typed DEF IInv, TypeOK, ProcType
<1>5. ShellKept'
  BY <1>1, <1>2, <1>3, ConstantsTyped DEF IInv, ShellKept
<1>6. Alarms'
  BY <1>1, <1>2, ConstantsTyped DEF IInv, Alarms
<1>7. Obeyed'
  BY <1>1, <1>2 DEF IInv, Obeyed, Obedient, NobodyRuns, TimedOut, Returned
<1>8. Final'
  <2>1. PipeHolders = {} => PipeHolders' = {}
    BY <1>2 DEF PipeHolders
  <2>2. QED
    BY <1>1, <2>1 DEF IInv, Final, Returned, Decodes
<1>9. QED
  BY <1>4, <1>5, <1>6, <1>7, <1>8 DEF IInv

LEMMA StartInv == ASSUME IInv, Start PROVE IInv'
<1>1. PICK traits \in SUBSET (Trait \ {OwnSession}) : proc' = [proc EXCEPT ![Shell] = Born(traits)]
  BY DEF Start
<1>2. /\ py.pc = "start" /\ UNCHANGED <<now, printed>>
      /\ py' = [py EXCEPT !.pc = "communicate", !.until = CheckTimeout]
  BY DEF Start
<1>3. /\ proc' \in [Process -> ProcType]
      /\ \A q \in Process : q # Shell => proc'[q] = proc[q] /\ (Running(q)' <=> Running(q))
      /\ proc'[Shell].life = "running" /\ proc'[Shell].traits = traits /\ Running(Shell)'
  BY <1>1, BornFacts, ConstantsTyped DEF IInv
<1>4. py' \in PyType /\ py'.pc = "communicate" /\ py'.until = CheckTimeout
  BY <1>2, Typed, ConstantsTyped DEF IInv, PyType
<1>5. TypeOK'
  <2>1. \E p \in Process : proc'[p].life # "unborn"
    BY <1>3, ConstantsTyped
  <2>2. QED
    BY <1>2, <1>3, <1>4, <2>1, Typed DEF IInv, TypeOK, ProcType, PyType
<1>6. ShellKept'
  BY <1>1, <1>3 DEF IInv, ShellKept
<1>7. Alarms' /\ Obeyed' /\ Final'
  BY <1>2, <1>4, ConstantsTyped DEF IInv, Alarms, Obeyed, Final, TimedOut, Returned
<1>8. QED
  BY <1>5, <1>6, <1>7 DEF IInv

LEMMA StartFailsInv == ASSUME IInv, StartFails PROVE IInv'
<1>1. /\ py.pc = "start" /\ UNCHANGED <<now, printed>> /\ proc' = Ended({Shell})
      /\ py' = [py EXCEPT !.pc = "returned", !.error = "execution error"]
  BY DEF StartFails
<1>2. /\ proc' \in [Process -> ProcType]
      /\ \A q \in Process : /\ proc'[q].traits = proc[q].traits
                            /\ ~Running(q)'
                            /\ proc'[q].life = "unborn" <=> proc[q].life = "unborn" /\ q # Shell
  <2>1. \A q \in Process : ~Running(q)
    BY <1>1, Typed DEF IInv, Running
  <2> DEFINE S == {Shell}
  <2>2. S \in SUBSET Process /\ proc' = Ended(S) /\ \A q : q \in S <=> q = Shell
    BY <1>1, ConstantsTyped
  <2> HIDE DEF S
  <2>3. QED
    BY <2>1, <2>2, EndedFacts DEF IInv
<1>3. py' \in PyType /\ py'.pc = "returned" /\ py'.error = "execution error" /\ py'.tails = py.tails
  BY <1>1, Typed DEF IInv, PyType, Errors
<1>4. TypeOK'
  BY <1>1, <1>2, <1>3, Typed, ConstantsTyped DEF IInv, TypeOK, ProcType, PyType
<1>5. ShellKept'
  BY <1>2, ConstantsTyped DEF IInv, ShellKept
<1>6. Alarms' /\ Obeyed'
  BY <1>2, <1>3, ConstantsTyped DEF Alarms, Obeyed, NobodyRuns
<1>7. Final'
  BY <1>1, <1>2, <1>3 DEF IInv, Final, PipeHolders, Returned
<1>8. QED
  BY <1>4, <1>5, <1>6, <1>7 DEF IInv

LEMMA TerminateInv == ASSUME IInv, Terminate PROVE IInv'
<1> DEFINE S == {p \in Group : Survives \notin proc[p].traits}
<1>1. /\ py.pc = "communicate" /\ py.until <= now /\ UNCHANGED <<now, printed>>
      /\ proc' = Ended(S)
      /\ py' = [py EXCEPT !.pc = "terminate", !.until = now + Grace]
  BY DEF Terminate
<1>2. S \in SUBSET Process
  BY DEF Group
<1>3. /\ proc' \in [Process -> ProcType]
      /\ \A q \in Process : /\ proc'[q].traits = proc[q].traits
                            /\ Running(q)' <=> Running(q) /\ q \notin S
                            /\ proc'[q].life = "unborn" <=> proc[q].life = "unborn" /\ q \notin S
  BY <1>1, <1>2, EndedFacts DEF IInv
<1>4. py' \in PyType /\ py'.pc = "terminate" /\ py'.until = now + Grace
  <2>1. now + Grace \in Nat /\ py \in PyType
    BY Typed, ConstantsTyped DEF IInv
  <2>2. QED
    BY <1>1, <2>1 DEF PyType
<1>5. now \in Nat /\ now = CheckTimeout
  BY <1>1, Typed, ConstantsTyped DEF IInv, Alarms
<1>6. S \subseteq {p \in Process : proc[p].life # "unborn"}
  BY DEF Group, Running
<1>7. TypeOK'
  BY <1>1, <1>3, <1>4, <1>6, Typed DEF IInv, TypeOK, ProcType, PyType
<1>8. ShellKept'
  BY <1>1, <1>3, <1>6, ConstantsTyped DEF IInv, ShellKept
<1>9. Alarms'
  BY <1>1, <1>4, <1>5, ConstantsTyped DEF Alarms
<1>10. Obeyed'
  <2>1. Obedient => \A q \in Process : Running(q) => q \in S
    BY DEF Obedient, Group
  <2>2. QED
    BY <1>1, <1>3, <1>4, <1>5, <2>1 DEF Obeyed, Obedient, NobodyRuns, TimedOut, Returned
<1>11. Final'
  BY <1>4 DEF Final, Returned
<1>12. QED
  BY <1>7, <1>8, <1>9, <1>10, <1>11 DEF IInv

LEMMA WaitInv == ASSUME IInv, Wait PROVE IInv'
<1>1. py.pc = "terminate" /\ UNCHANGED <<now, printed>> /\ py' = [py EXCEPT !.pc = "drain"]
  BY DEF Wait
<1>2. /\ proc' \in [Process -> ProcType]
      /\ \A q \in Process : /\ proc'[q].traits = proc[q].traits
                            /\ Running(q)' => Running(q)
                            /\ proc'[q].life = "unborn" <=> proc[q].life = "unborn"
      /\ ~Running(Shell)'
  <2>1. CASE ~Running(Shell) /\ proc' = proc
    BY <2>1, Typed DEF IInv, Running
  <2>2. CASE Running(Shell) /\ proc' = Ended(Group)
    <3>1. Group \in SUBSET Process /\ \A q \in Group : proc[q].life # "unborn"
      BY DEF Group, Running
    <3>2. Shell \in Group
      BY <2>2, ConstantsTyped DEF IInv, ShellKept, Group
    <3>3. QED
      BY <2>2, <3>1, <3>2, EndedFacts, ConstantsTyped DEF IInv
  <2>3. QED
    BY <2>1, <2>2 DEF Wait
<1>3. py' \in PyType /\ py'.pc = "drain"
  BY <1>1, Typed DEF IInv, PyType
<1>4. TypeOK'
  BY <1>1, <1>2, <1>3, Typed DEF IInv, TypeOK, ProcType, PyType
<1>5. ShellKept'
  BY <1>1, <1>2, ConstantsTyped DEF IInv, ShellKept
<1>6. Alarms'
  BY <1>2, <1>3 DEF Alarms
<1>7. Obeyed'
  BY <1>1, <1>2, <1>3 DEF IInv, Obeyed, Obedient, NobodyRuns, TimedOut, Returned
<1>8. Final'
  BY <1>3 DEF Final, Returned
<1>9. QED
  BY <1>4, <1>5, <1>6, <1>7, <1>8 DEF IInv

LEMMA CollectInv == ASSUME IInv, Collect PROVE IInv'
<1> DEFINE error == IF py.pc = "drain" THEN "timed out" ELSE "none"
           tails == [s \in Stream |-> Tail_text(printed[s])]
<1>1. /\ py.pc \in {"communicate", "drain"} /\ PipeHolders = {} /\ ~Running(Shell)
      /\ py' = Observed(error) /\ UNCHANGED <<now, proc, printed>>
  BY DEF Collect
<1>2. tails \in [Stream -> Seq(Mark)]
  BY Typed, TailText DEF IInv
<1>3. error \in Errors /\ error # "execution error" /\ "execution error" \in Errors
      /\ (error = "timed out" => py.pc = "drain")
  BY DEF Errors
<1> HIDE DEF error, tails
<1>4. /\ py' \in PyType /\ py'.pc = "returned"
      /\ Decodes => py'.error = error /\ py'.tails = tails
      /\ ~Decodes => py'.error = "execution error"
  <2>1. CASE Decodes
    <3>1. py' = [py EXCEPT !.pc = "returned", !.error = error, !.tails = tails]
      BY <1>1, <2>1 DEF Observed, tails
    <3>2. QED
      BY <1>2, <1>3, <2>1, <3>1, Typed DEF IInv, PyType
  <2>2. CASE ~Decodes
    <3>1. py' = [py EXCEPT !.pc = "returned", !.error = "execution error"]
      BY <1>1, <2>2 DEF Observed
    <3>2. QED
      BY <1>3, <2>2, <3>1, Typed DEF IInv, PyType
  <2>3. QED
    BY <2>1, <2>2
<1>5. TypeOK'
  BY <1>1, <1>4, Typed DEF IInv, TypeOK, PyType
<1>6. ShellKept'
  BY <1>1 DEF IInv, ShellKept
<1>7. Alarms'
  BY <1>1, <1>4 DEF Alarms, Running
<1>8. Obeyed'
  BY <1>1, <1>3, <1>4 DEF IInv, Obeyed, Obedient, NobodyRuns, Running, TimedOut, Returned
<1>9. Final'
  BY <1>1, <1>3, <1>4 DEF Final, Returned, PipeHolders, Running, Decodes, tails
<1>10. QED
  BY <1>5, <1>6, <1>7, <1>8, <1>9 DEF IInv

LEMMA TickInv == ASSUME IInv, Tick PROVE IInv'
<1>1. now \in Nat /\ now' = now + 1 /\ now < MaxTime /\ UNCHANGED <<proc, printed, py>>
  BY Typed, ConstantsTyped DEF IInv, Tick
<1>2. now' \in 0..MaxTime
  BY <1>1, ConstantsTyped
<1>3. TypeOK'
  BY <1>1, <1>2 DEF IInv, TypeOK
<1>4. py.pc # "start" /\ py.until \in Nat
  BY Typed DEF IInv, Tick, PyType
<1>5. Alarms'
  BY <1>1, <1>4, ConstantsTyped DEF IInv, Alarms, Tick, Running
<1>6. Obeyed'
  <2>1. NobodyRuns => PipeHolders = {} /\ ~Running(Shell)
    BY ConstantsTyped DEF NobodyRuns, PipeHolders
  <2>2. ~(py.pc \in {"terminate", "drain"} /\ NobodyRuns)
    BY <2>1 DEF Tick
  <2>3. QED
    BY <1>1, <2>2 DEF IInv, Obeyed, Obedient, NobodyRuns, Running, TimedOut, Returned
<1>7. ShellKept' /\ Final'
  BY <1>1 DEF IInv, ShellKept, Final, Returned, PipeHolders, Running, Decodes
<1>8. QED
  BY <1>3, <1>5, <1>6, <1>7 DEF IInv

LEMMA InvInit == Init => IInv
<1> SUFFICES ASSUME Init PROVE IInv
  OBVIOUS
<1>1. NoTails \in [Stream -> Seq(Mark)]
  BY DEF NoTails
<1>2. TypeOK
  BY <1>1, ConstantsTyped DEF Init, TypeOK, Errors
<1>3. ShellKept /\ Alarms /\ Obeyed /\ Final
  BY ConstantsTyped DEF Init, ShellKept, Alarms, Obeyed, Final, TimedOut, Returned
<1>4. QED
  BY <1>2, <1>3 DEF IInv

LEMMA InvNext == IInv /\ [Next]_vars => IInv'
<1> SUFFICES ASSUME IInv, [Next]_vars PROVE IInv'
  OBVIOUS
<1>1. CASE \E p \in Process : Prints(p) \/ Exits(p) \/ \E child \in Process : Spawn(p, child)
  BY <1>1, PrintsInv, ExitsInv, SpawnInv
<1>2. CASE Start \/ StartFails
  BY <1>2, StartInv, StartFailsInv
<1>3. CASE Terminate \/ Wait \/ Collect \/ Tick
  BY <1>3, TerminateInv, WaitInv, CollectInv, TickInv
<1>4. CASE UNCHANGED vars
  BY <1>4 DEF vars, IInv, TypeOK, ShellKept, Alarms, Obeyed, Final, Running, Obedient, NobodyRuns,
              TimedOut, Returned, PipeHolders, Decodes
<1>5. QED
  BY <1>1, <1>2, <1>3, <1>4 DEF Next


-----------------------------------------------------------------------------

\* The processes, the clock and what was observed agree in every reachable state.
THEOREM CheckerInvariant == Spec => []IInv
BY InvInit, InvNext, PTL DEF Spec

\* The variables have their types.
THEOREM CheckerTyped == Spec => []TypeOK
<1>1. IInv => TypeOK
  BY DEF IInv
<1>2. QED
  BY <1>1, CheckerInvariant, PTL

\* run_checker is back in time from every check whose processes are obedient, and leaves none of
\* them behind; and no shell, whatever it does about signals, is there after the grace.
THEOREM ObedientChecksEnd == Spec => []ChecksEnd
<1>1. IInv => ChecksEnd
  <2> SUFFICES ASSUME IInv PROVE ChecksEnd
    OBVIOUS
  <2>1. /\ now \in Nat /\ CheckTimeout \in Nat /\ Grace \in Nat
        /\ py.pc \in {"start", "communicate", "terminate", "drain", "returned"}
    BY Typed, ConstantsTyped DEF IInv, PyType
  <2>2. now > CheckTimeout + Grace => ~Running(Shell)
    <3>1. CASE py.pc = "start"
      BY <2>1, <3>1 DEF IInv, Alarms
    <3>2. CASE py.pc = "communicate" \/ py.pc = "terminate"
      BY <2>1, <3>2 DEF IInv, Alarms
    <3>3. CASE py.pc = "drain" \/ py.pc = "returned"
      BY <3>3 DEF IInv, Alarms
    <3>4. QED
      BY <2>1, <3>1, <3>2, <3>3
  <2>3. ASSUME Obedient, now > CheckTimeout PROVE Returned
    BY <2>1, <2>3 DEF IInv, Alarms, Obeyed, Returned
  <2>4. ASSUME Obedient, TimedOut PROVE \A p \in Process : ~Running(p)
    BY <2>4 DEF IInv, Obeyed, NobodyRuns
  <2>5. QED
    BY <2>2, <2>3, <2>4 DEF ChecksEnd
<1>2. QED
  BY <1>1, CheckerInvariant, PTL

\* run_checker looks at the output when nobody is left who could add to it, whether the time was
\* up or not: what it keeps is the end of all that was ever printed.
THEOREM NothingIsMissed == Spec => []NothingMissed
<1>1. IInv => NothingMissed
  BY DEF IInv, Final, NothingMissed
<1>2. QED
  BY <1>1, CheckerInvariant, PTL

\* What is searched is what was printed last.
LEMMA TailsSearched ==
    ASSUME IInv, Returned, Decodes, NEW mark PROVE Searched(mark) <=> AmongLast(mark)
<1>1. printed \in [Stream -> Seq(Mark)]
  BY Typed DEF IInv
<1>2. CASE py.error = "execution error"
  <2>1. printed = NoTails /\ py.tails = NoTails
    BY <1>2 DEF IInv, Final
  <2>2. \A s \in Stream : printed[s] = <<>> /\ py.tails[s] = <<>>
    BY <2>1 DEF NoTails
  <2>3. QED
    BY <2>2 DEF Searched, AmongLast
<1>3. CASE py.error # "execution error"
  <2>1. \A s \in Stream : py.tails[s] = Tail_text(printed[s])
    BY <1>3 DEF IInv, Final
  <2>2. ASSUME NEW s \in Stream
        PROVE  (\E i \in DOMAIN py.tails[s] : py.tails[s][i] = mark) <=>
                 \E j \in DOMAIN printed[s] :
                     printed[s][j] = mark /\ Len(printed[s]) < j + TailChars
    <3> DEFINE p == printed[s]
               t == py.tails[s]
    <3>1. p \in Seq(Mark) /\ t = Tail_text(p)
      BY <1>1, <2>1
    <3> HIDE DEF p, t
    <3>2. /\ \A i \in DOMAIN t : \E j \in DOMAIN p : t[i] = p[j] /\ Len(p) < j + TailChars
          /\ \A j \in DOMAIN p : Len(p) < j + TailChars => \E i \in DOMAIN t : t[i] = p[j]
      BY <3>1, TailText
    <3>3. QED
      BY <3>2 DEF p, t
  <2>3. QED
    BY <2>2 DEF Searched, AmongLast
<1>4. QED
  BY <1>2, <1>3

\* A check ends a wait before its deadline by what it printed last, killed or not: a failure
\* there outranks a success there, and what scrolled away ends nothing.
THEOREM VerdictIsOfTails == Spec => []VerdictOfTails
<1>1. IInv => VerdictOfTails
  <2> SUFFICES ASSUME IInv, Returned, Decodes PROVE VerdictOfTails
    BY DEF VerdictOfTails
  <2>1. \A mark : Searched(mark) <=> AmongLast(mark)
    BY TailsSearched
  <2>2. QED
    BY <2>1 DEF VerdictOfTails, Decide
<1>2. QED
  BY <1>1, CheckerInvariant, PTL
=============================================================================
