------------------------------- MODULE Checker ------------------------------
(***************************************************************************)
(* One run of a check command: run_checker and decide of checker.py, with  *)
(* the processes the command starts.  The shell leads a session of its own *)
(* (start_new_session); what it starts may survive SIGTERM, leave the      *)
(* session or let go of the two pipes run_checker reads, and is external   *)
(* code.  Nothing is assumed of when a process prints or ends.             *)
(***************************************************************************)
EXTENDS Naturals, Sequences, FiniteSets

CONSTANTS
    Process,        \* the shell and whatever it may start
    Shell,
    Trait,          \* what processes may do, of the three below
    Mark,           \* what may be printed
    CheckTimeout,   \* --check-timeout
    Grace,          \* the wait between SIGTERM and SIGKILL
    TailChars,      \* output_tail_chars, in marks
    MaxPrinted,     \* bounds the output
    MaxTime         \* bounds the clock

VARIABLES
    now,        \* the clock, 0 when the check starts
    proc,       \* the processes
    printed,    \* what was written to each pipe
    py          \* where run_checker is

vars == <<now, proc, printed, py>>

Survives == "survives SIGTERM"
OwnSession == "own session"
Detached == "detached output"

ASSUME CheckerAssumption ==
    /\ Shell \in Process
    /\ Trait \subseteq {Survives, OwnSession, Detached}
    /\ Mark \subseteq {"noise", "success", "failure", "undecodable"}
    /\ {CheckTimeout, Grace, TailChars, MaxPrinted, MaxTime} \subseteq Nat
    /\ TailChars > 0

Stream == {"stdout", "stderr"}
Errors == {"none", "timed out", "execution error"}

\* CheckObservation: the tails as they are searched, and the error.
NoTails == [s \in Stream |-> <<>>]

TypeOK ==
    /\ now \in 0..MaxTime
    /\ proc \in [Process -> [life : {"unborn", "running", "gone"}, traits : SUBSET Trait]]
    /\ printed \in [Stream -> Seq(Mark)]
    /\ py \in [pc : {"start", "communicate", "terminate", "drain", "returned"},
               until : Nat, tails : [Stream -> Seq(Mark)], error : Errors]
    /\ py.pc = "start" <=> \A p \in Process : proc[p].life = "unborn"

-----------------------------------------------------------------------------
(* The processes of the check. *)

Running(p) == proc[p].life = "running"
Group == {p \in Process : Running(p) /\ OwnSession \notin proc[p].traits}
PipeHolders == {p \in Process : Running(p) /\ Detached \notin proc[p].traits}

Born(traits) == [life |-> "running", traits |-> traits]
Ended(S) == [p \in Process |-> IF p \in S THEN [proc[p] EXCEPT !.life = "gone"] ELSE proc[p]]

\* A child is not in the session again, nor has it the pipes, once its parent left them.
Spawn(p, child) ==
    /\ Running(p) /\ proc[child].life = "unborn"
    /\ \E traits \in SUBSET Trait :
         /\ proc[p].traits \cap {OwnSession, Detached} \subseteq traits
         /\ proc' = [proc EXCEPT ![child] = Born(traits)]
    /\ UNCHANGED <<now, printed, py>>

Prints(p) ==
    /\ p \in PipeHolders
    /\ Len(printed["stdout"]) + Len(printed["stderr"]) < MaxPrinted
    /\ \E s \in Stream, mark \in Mark :
         printed' = [printed EXCEPT ![s] = Append(@, mark)]
    /\ UNCHANGED <<now, proc, py>>

Exits(p) ==
    /\ Running(p)
    /\ proc' = Ended({p})
    /\ UNCHANGED <<now, printed, py>>

-----------------------------------------------------------------------------
(* run_checker *)

\* tail_text
Tail_text(s) == SubSeq(s, IF Len(s) < TailChars THEN 1 ELSE Len(s) - TailChars + 1, Len(s))

\* Popen
Start ==
    /\ py.pc = "start"
    /\ \E traits \in SUBSET (Trait \ {OwnSession}) :
         proc' = [proc EXCEPT ![Shell] = Born(traits)]
    /\ py' = [py EXCEPT !.pc = "communicate", !.until = CheckTimeout]
    /\ UNCHANGED <<now, printed>>

\* Mutant: the exception leaves run_checker where it was.
MutStartFails ==
    /\ py.pc = "start"
    /\ proc' = Ended({Shell})
    /\ py' = [py EXCEPT !.error = "execution error"]
    /\ UNCHANGED <<now, printed>>

\* No such directory, no more processes: an error is an observation too.
StartFails ==
    /\ py.pc = "start"
    /\ proc' = Ended({Shell})
    /\ py' = [py EXCEPT !.pc = "returned", !.error = "execution error"]
    /\ UNCHANGED <<now, printed>>

\* Mutant: only the shell is sent SIGTERM.
MutTerminateShell ==
    /\ py.pc = "communicate" /\ py.until <= now
    /\ proc' = Ended({p \in Group : Survives \notin proc[p].traits /\ p = Shell})
    /\ py' = [py EXCEPT !.pc = "terminate", !.until = now + Grace]
    /\ UNCHANGED <<now, printed>>

\* TimeoutExpired: SIGTERM to the process group.  Until it is waited for the shell
\* keeps the group in existence, so killpg finds it.
Terminate ==
    /\ py.pc = "communicate" /\ py.until <= now
    /\ proc' = Ended({p \in Group : Survives \notin proc[p].traits})
    /\ py' = [py EXCEPT !.pc = "terminate", !.until = now + Grace]
    /\ UNCHANGED <<now, printed>>

\* proc.wait(timeout=1) waits for the shell alone; SIGKILL is sent only when it
\* does not end in time.
Wait ==
    /\ py.pc = "terminate"
    /\ \/ ~Running(Shell) /\ proc' = proc
       \/ Running(Shell) /\ py.until <= now /\ proc' = Ended(Group)
    /\ py' = [py EXCEPT !.pc = "drain"]
    /\ UNCHANGED <<now, printed>>

\* communicate decodes both streams strictly; UnicodeDecodeError is caught last.
Decodes == \A s \in Stream : \A i \in DOMAIN printed[s] : printed[s][i] # "undecodable"

Observed(error) ==
    IF Decodes
    THEN [py EXCEPT !.pc = "returned", !.error = error,
                    !.tails = [s \in Stream |-> Tail_text(printed[s])]]
    ELSE [py EXCEPT !.pc = "returned", !.error = "execution error"]

\* Mutant: the end of the shell is enough.
MutCollectOnExit ==
    /\ py.pc \in {"communicate", "drain"}
    /\ ~Running(Shell)
    /\ py' = Observed(IF py.pc = "drain" THEN "timed out" ELSE "none")
    /\ UNCHANGED <<now, proc, printed>>

\* communicate returns at the end of both pipes and of the shell; the second call
\* has no time limit, and its output includes what the first one read.
Collect ==
    /\ py.pc \in {"communicate", "drain"}
    /\ PipeHolders = {} /\ ~Running(Shell)
    /\ py' = Observed(IF py.pc = "drain" THEN "timed out" ELSE "none")
    /\ UNCHANGED <<now, proc, printed>>

\* The clock does not pass an alarm of run_checker, nor stand between the end of
\* what it waits for and its return.
Tick ==
    /\ now < MaxTime
    /\ \/ py.pc \in {"communicate", "drain"} /\ (PipeHolders # {} \/ Running(Shell))
       \/ py.pc = "terminate" /\ Running(Shell)
    /\ py.pc # "drain" => now < py.until
    /\ now' = now + 1
    /\ UNCHANGED <<proc, printed, py>>

-----------------------------------------------------------------------------

Init ==
    /\ now = 0
    /\ proc = [p \in Process |-> [life |-> "unborn", traits |-> {}]]
    /\ printed = NoTails
    /\ py = [pc |-> "start", until |-> 0, tails |-> NoTails, error |-> "none"]

Next ==
    \/ Start \/ StartFails \/ Terminate \/ Wait \/ Collect \/ Tick
    \/ \E p \in Process : Prints(p) \/ Exits(p) \/ \E child \in Process : Spawn(p, child)

Spec == Init /\ [][Next]_vars

-----------------------------------------------------------------------------
(* decide, for regexes that tell the marks apart and match no error text. *)

Searched(mark) == \E s \in Stream : \E i \in DOMAIN py.tails[s] : py.tails[s][i] = mark

\* Mutant: the patterns are tried in the other order.
MutDecide(deadlineDue) ==
    IF Searched("success") THEN "success"
    ELSE IF Searched("failure") THEN "failure"
    ELSE IF deadlineDue THEN "timeout" ELSE "none"

Decide(deadlineDue) ==
    IF Searched("failure") THEN "failure"
    ELSE IF Searched("success") THEN "success"
    ELSE IF deadlineDue THEN "timeout" ELSE "none"

-----------------------------------------------------------------------------

Returned == py.pc = "returned"
TimedOut == Returned /\ py.error = "timed out"

\* Every process so far stayed in the session and took SIGTERM's default action.
Obedient == \A p \in Process : proc[p].traits \cap {Survives, OwnSession} = {}

\* The daemon is back in time from every check whose processes are obedient, the
\* ones that outlive the shell or hold its pipes included, and leaves none of them
\* behind when the time was up.  Whatever a command does about signals, its shell is
\* gone when its time and the grace are over.
ChecksEnd ==
    /\ Obedient => /\ now > CheckTimeout => Returned
                   /\ TimedOut => \A p \in Process : ~Running(p)
    /\ now > CheckTimeout + Grace => ~Running(Shell)

\* Nothing that is printed is missed: whether the time was up or not, the
\* observation was made after the last process that could add to the pipes ended.
NothingMissed ==
    Returned /\ Decodes /\ py.error # "execution error" =>
        py.tails = [s \in Stream |-> Tail_text(printed[s])]

\* Among the last TailChars marks of a stream, whoever printed them and however late.
AmongLast(mark) ==
    \E s \in Stream : \E i \in DOMAIN printed[s] :
        printed[s][i] = mark /\ Len(printed[s]) < i + TailChars

\* Until its deadline a wait ends by what its check printed last, on both streams and by all of
\* its processes, killed or not: in failure if a failure is among it, printed before a success
\* or after one (test_failure_precedes_success), and in success if only a success is.  What
\* was printed before that, and nothing at all, ends no wait.
VerdictOfTails ==
    Returned /\ Decodes =>
        /\ Decide(FALSE) = "failure" <=> AmongLast("failure")
        /\ Decide(FALSE) = "success" <=> AmongLast("success") /\ ~AmongLast("failure")

-----------------------------------------------------------------------------
(* What the repository says and the code does not do. *)

\* README: "A macOS LaunchAgent runs only bounded, read-only checker commands":
\* run_checker returns when the time allowed and the grace are over.
CheckBounded == now > CheckTimeout + Grace => Returned

\* README: the task wakes "when the job succeeds": a check that ended and printed
\* success last wakes it, whatever else it printed before.
SuccessWakes ==
    Returned =>
        \A s \in Stream :
            printed[s] # <<>> /\ printed[s][Len(printed[s])] = "success" => Decide(FALSE) # "none"
=============================================================================
