------------------------------ MODULE Heartbeat -------------------------------
(***************************************************************************)
(* How `durable-continue doctor` knows the dispatchers: each writes a file *)
(* named after its pid (writeHeartbeat of dispatcher.mjs), which outlives  *)
(* it when it is killed; active_dispatchers (plugin_runtime.py) judges the *)
(* files by their age and by whether the pid is in use.  Pids are reused,  *)
(* writes may fail, and the installer replaces the runtime meanwhile.  The *)
(* wall clock is taken to run evenly.                                      *)
(***************************************************************************)
EXTENDS Naturals, FiniteSets

CONSTANTS
    Pid,
    Every,          \* HEARTBEAT_INTERVAL_MS
    MaxAge,         \* _HEARTBEAT_MAX_AGE_SECONDS
    Skew,           \* the 5 s a heartbeat may be ahead
    DoctorTime,     \* how long the doctor may take
    MaxMissed,      \* heartbeats in a row that a steady dispatcher may fail to write
    MaxTime         \* bounds the clock

ASSUME HeartbeatAssumption ==
    /\ {Every, MaxAge, Skew, DoctorTime, MaxMissed, MaxTime} \subseteq Nat
    /\ Every > 0

VARIABLES
    now,        \* the clock
    process,    \* what runs under each pid
    file,       \* dispatchers/<pid>.json
    runtime,    \* the python of the state commands exists
    loaded,     \* when a dispatcher with this pid was last Loaded
    doctor      \* one active_dispatchers call

vars == <<now, process, file, runtime, loaded, doctor>>

Never == MaxTime + 1
Times == 0..MaxTime
Nothing == [program |-> "none", initialized |-> FALSE, pipe |-> FALSE, beat |-> Never,
            missed |-> 0, steady |-> Never]
NoFile == [updatedAt |-> Never, nativePipeAvailable |-> FALSE, stateRuntimeAvailable |-> FALSE]

TypeOK ==
    /\ now \in Times
    /\ process \in [Pid -> [program : {"none", "dispatcher", "other"}, initialized : BOOLEAN,
                            pipe : BOOLEAN, beat : 0..Never + Every,
                            missed : 0..MaxMissed, steady : Times \cup {Never}]]
    /\ file \in [Pid -> [updatedAt : Times, nativePipeAvailable : BOOLEAN,
                         stateRuntimeAvailable : BOOLEAN] \cup {NoFile}]
    /\ runtime \in BOOLEAN
    /\ loaded \in [Pid -> Times \cup {Never}]
    /\ doctor \in [pc : {"idle", "reading", "done"}, current : Times, todo : SUBSET Pid,
                   listed : SUBSET Pid]
    \* Only a dispatcher that is initialized can be steady, and its file is there.
    /\ \A p \in Pid :
         process[p].steady # Never =>
             /\ process[p].initialized /\ process[p].pipe
             /\ file[p] # NoFile /\ file[p].updatedAt >= process[p].steady

-----------------------------------------------------------------------------
(* dispatcher.mjs *)

\* What a heartbeat reports and the doctor calls loaded: the process is initialized, has the
\* native pipe and finds its python.  It is not all dispatchOnce asks: a dispatcher started with
\* DURABLE_CONTINUE_DISABLE_DISPATCH=1 is loaded and never dispatches, which neither the file
\* nor the doctor shows.
Loaded(q, available) == q.program = "dispatcher" /\ q.initialized /\ q.pipe /\ available

\* launch_dispatcher.sh refuses to start without a pipe; started by hand the dispatcher
\* runs without.
Starts(p) ==
    /\ process[p].program = "none"
    /\ \E pipe \in BOOLEAN :
         process' = [process EXCEPT ![p] = [Nothing EXCEPT !.program = "dispatcher",
                                                !.pipe = pipe, !.beat = now + Every]]
    /\ UNCHANGED <<now, file, runtime, loaded, doctor>>

Written(p) ==
    file' = [file EXCEPT ![p] = [updatedAt |-> now, nativePipeAvailable |-> process[p].pipe,
                                 stateRuntimeAvailable |-> runtime]]

\* writeHeartbeat of an initialized dispatcher, as `q` is after it.  `missed` and
\* `steady` observe it: steady is the time since which its file has never been more
\* than MaxMissed heartbeats old.
WriteHeartbeat(p, q) ==
    \/ /\ Written(p)
       /\ process' = [process EXCEPT ![p] =
                          [q EXCEPT !.missed = 0,
                                    !.steady = IF ~Loaded(q, runtime) THEN Never
                                               ELSE IF @ = Never THEN now ELSE @]]
       /\ loaded' = IF Loaded(q, runtime) THEN [loaded EXCEPT ![p] = now] ELSE loaded
    \/ /\ process' = [process EXCEPT ![p] =
                          IF q.missed < MaxMissed THEN [q EXCEPT !.missed = @ + 1]
                          ELSE [q EXCEPT !.steady = Never]]
       /\ loaded' = IF Loaded(q, runtime) THEN [loaded EXCEPT ![p] = now] ELSE loaded
       /\ UNCHANGED file

\* initialize: the first heartbeat does not wait for the timer.
Initialize(p) ==
    /\ process[p].program = "dispatcher" /\ ~process[p].initialized
    /\ WriteHeartbeat(p, [process[p] EXCEPT !.initialized = TRUE])
    /\ UNCHANGED <<now, runtime, doctor>>

\* heartbeatTimer
Beat(p) ==
    /\ process[p].program = "dispatcher" /\ process[p].beat <= now
    /\ LET q == [process[p] EXCEPT !.beat = now + Every] IN
         IF q.initialized THEN WriteHeartbeat(p, q)
         ELSE process' = [process EXCEPT ![p] = q] /\ UNCHANGED <<file, loaded>>
    /\ UNCHANGED <<now, runtime, doctor>>

\* Mutant: the process is kept on record.
MutShutdown(p) ==
    /\ process[p].program = "dispatcher"
    /\ file' = [file EXCEPT ![p] = NoFile]
    /\ UNCHANGED <<now, process, runtime, loaded, doctor>>

\* shutdown: the file goes first.
Shutdown(p) ==
    /\ process[p].program = "dispatcher"
    /\ file' = [file EXCEPT ![p] = NoFile]
    /\ process' = [process EXCEPT ![p] = Nothing]
    /\ UNCHANGED <<now, runtime, loaded, doctor>>

\* Killed, or Desktop gone with all its processes: the file stays.
Killed(p) ==
    /\ process[p].program # "none"
    /\ process' = [process EXCEPT ![p] = Nothing]
    /\ UNCHANGED <<now, file, runtime, loaded, doctor>>

\* Another program is given the pid.
Reused(p) ==
    /\ process[p].program = "none"
    /\ process' = [process EXCEPT ![p] = [Nothing EXCEPT !.program = "other"]]
    /\ UNCHANGED <<now, file, runtime, loaded, doctor>>

\* The installer replaces the runtime.
Installs ==
    /\ runtime' = ~runtime
    /\ process' = [p \in Pid |-> [process[p] EXCEPT !.steady = Never]]
    /\ UNCHANGED <<now, file, loaded, doctor>>

-----------------------------------------------------------------------------
(* plugin_runtime.py *)

DoctorBegins ==
    /\ doctor.pc = "idle"
    /\ doctor' = [doctor EXCEPT !.pc = "reading", !.current = now,
                                !.todo = {p \in Pid : file[p] # NoFile}]
    /\ UNCHANGED <<now, process, file, runtime, loaded>>

\* Mutant: any heartbeat counts that is not from the future.
MutFresh(updatedAt, current) == updatedAt <= current + Skew

\* Mutant: a heartbeat must not be newer than the look at the clock.
MutFreshNoSkew(updatedAt, current) == current <= updatedAt + MaxAge /\ updatedAt <= current

Fresh(updatedAt, current) == current <= updatedAt + MaxAge /\ updatedAt <= current + Skew

\* A file that is gone is passed over.
Inspect(p) ==
    /\ doctor.pc = "reading" /\ p \in doctor.todo
    /\ LET good == /\ file[p] # NoFile
                   /\ file[p].nativePipeAvailable /\ file[p].stateRuntimeAvailable
                   /\ Fresh(file[p].updatedAt, doctor.current)
                   /\ process[p].program # "none"
       IN doctor' = [doctor EXCEPT !.todo = @ \ {p},
                                   !.listed = IF good THEN @ \cup {p} ELSE @]
    /\ UNCHANGED <<now, process, file, runtime, loaded>>

DoctorEnds ==
    /\ doctor.pc = "reading" /\ doctor.todo = {}
    /\ doctor' = [doctor EXCEPT !.pc = "done"]
    /\ UNCHANGED <<now, process, file, runtime, loaded>>

\* Timers are on time, and the doctor is quick.
Tick ==
    /\ now < MaxTime
    /\ \A p \in Pid : process[p].program = "dispatcher" => now < process[p].beat
    /\ doctor.pc = "reading" => now < doctor.current + DoctorTime
    /\ now' = now + 1
    /\ loaded' = [p \in Pid |-> IF Loaded(process[p], runtime) THEN now + 1 ELSE loaded[p]]
    /\ UNCHANGED <<process, file, runtime, doctor>>

-----------------------------------------------------------------------------

Init ==
    /\ now = 0
    /\ process = [p \in Pid |-> Nothing]
    /\ file = [p \in Pid |-> NoFile]
    /\ runtime = TRUE
    /\ loaded = [p \in Pid |-> Never]
    /\ doctor = [pc |-> "idle", current |-> 0, todo |-> {}, listed |-> {}]

Next ==
    \/ Installs \/ DoctorBegins \/ DoctorEnds \/ Tick
    \/ \E p \in Pid : \/ Starts(p) \/ Initialize(p) \/ Beat(p) \/ Shutdown(p)
                      \/ Killed(p) \/ Reused(p) \/ Inspect(p)

Spec == Init /\ [][Next]_vars

-----------------------------------------------------------------------------

\* desktop_dispatcher_loaded: whatever was killed, restarted, reinstalled or given an old pid, a
\* dispatcher that is listed was loaded at some moment of the last MaxAge (or while the doctor
\* looked).  Whether it dispatches is not said.
ListedLoaded ==
    \A p \in doctor.listed : loaded[p] # Never /\ loaded[p] + MaxAge >= doctor.current

\* A loaded dispatcher that was steady before the doctor began and still is, is listed: neither
\* heartbeats written while the doctor reads nor a few failed ones hide it.
SteadyListed ==
    doctor.pc = "done" =>
        \A p \in Pid : process[p].steady < doctor.current => p \in doctor.listed
=============================================================================
