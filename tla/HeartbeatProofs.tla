--------------------------- MODULE HeartbeatProofs ---------------------------
(***************************************************************************)
(* Proofs about module Heartbeat, for any number of pids and any intervals *)
(* and bounds.                                                             *)
(*                                                                         *)
(* That a listed dispatcher was loaded rests on what a file proves by      *)
(* itself, whoever wrote it and whoever has the pid now (FilesTrue).  That *)
(* a steady dispatcher is listed needs, besides, the age a file can reach: *)
(* it is bounded by the heartbeats missed since it was written (Paced),    *)
(* and only while the timer is on time.                                    *)
(***************************************************************************)
EXTENDS Heartbeat, TLAPS

\* A file that says so was written by a dispatcher that was loaded then, no earlier than it says.
FilesTrue ==
    \A p \in Pid :
        /\ file[p].nativePipeAvailable /\ file[p].stateRuntimeAvailable =>
             loaded[p] # Never /\ file[p].updatedAt <= loaded[p]
        /\ loaded[p] # Never => loaded[p] <= now

SteadyInPast == \A p \in Pid : process[p].steady # Never => process[p].steady <= now

NothingListedYet == doctor.pc = "idle" => doctor.listed = {}

IInv == TypeOK /\ FilesTrue /\ SteadyInPast /\ ListedLoaded /\ NothingListedYet

\* A steady dispatcher and its file, whose age the missed heartbeats bound.
Paced(p) ==
    LET q == process[p] IN
    /\ q.program = "dispatcher" => now <= q.beat /\ q.beat <= now + Every
    /\ q.steady # Never =>
         /\ Loaded(q, runtime)
         /\ file[p].nativePipeAvailable /\ file[p].stateRuntimeAvailable
         /\ file[p].updatedAt <= now
         /\ q.beat <= file[p].updatedAt + (q.missed + 1) * Every

\* Who was steady before the doctor began is still to be looked at, or listed.
Remembered ==
    doctor.pc # "idle" =>
        /\ doctor.current <= now
        /\ doctor.pc = "reading" => now <= doctor.current + DoctorTime
        /\ doctor.pc = "done" => doctor.todo = {}
        /\ \A p \in Pid : process[p].steady < doctor.current => p \in doctor.todo \cup doctor.listed

SteadyInv == IInv /\ (\A p \in Pid : Paced(p)) /\ Remembered

\* What the intervals of dispatcher.mjs and plugin_runtime.py give: a file does not age out
\* while at most MaxMissed heartbeats are missed, and a doctor is not slower than the skew it
\* allows.
Calibrated ==
    /\ (MaxMissed + 1) * Every <= MaxAge
    /\ DoctorTime <= Skew

-----------------------------------------------------------------------------

LEMMA ConstantsTyped ==
    /\ Every \in Nat /\ MaxAge \in Nat /\ Skew \in Nat /\ DoctorTime \in Nat
    /\ MaxMissed \in Nat /\ MaxTime \in Nat /\ Every > 0
    /\ Never \in Nat /\ Never = MaxTime + 1
BY HeartbeatAssumption DEF HeartbeatAssumption, Never

Process == [program : {"none", "dispatcher", "other"}, initialized : BOOLEAN, pipe : BOOLEAN,
            beat : 0..Never + Every, missed : 0..MaxMissed, steady : Times \cup {Never}]
File == [updatedAt : Times, nativePipeAvailable : BOOLEAN, stateRuntimeAvailable : BOOLEAN]
          \cup {NoFile}

\* What TypeOK says of a process and its file, apart from the sets they are in.
SteadyHasFile(q, f) ==
    q.steady # Never => q.initialized /\ q.pipe /\ f # NoFile /\ f.updatedAt >= q.steady

\* A file's fields are Booleans and a natural, NoFile's too.
LEMMA FileKnown ==
    ASSUME NEW f \in File
    PROVE  f.updatedAt \in Nat /\ f.nativePipeAvailable \in BOOLEAN
           /\ f.stateRuntimeAvailable \in BOOLEAN /\ (f # NoFile => f.updatedAt \in Times)
           /\ (f.nativePipeAvailable => f # NoFile)
<1>1. CASE f = NoFile
  BY <1>1, ConstantsTyped DEF NoFile
<1>2. CASE f # NoFile
  <2>1. f \in [updatedAt : Times, nativePipeAvailable : BOOLEAN, stateRuntimeAvailable : BOOLEAN]
    BY <1>2 DEF File
  <2>2. Times \subseteq Nat
    BY DEF Times
  <2> HIDE DEF Times
  <2>3. QED
    BY <1>2, <2>1, <2>2
<1>3. QED
  BY <1>1, <1>2

\* The parts of TypeOK that no step of a process touches.
LEMMA TypedParts ==
    TypeOK <=> /\ now \in Times
               /\ process \in [Pid -> Process]
               /\ file \in [Pid -> File]
               /\ runtime \in BOOLEAN
               /\ loaded \in [Pid -> Times \cup {Never}]
               /\ doctor \in [pc : {"idle", "reading", "done"}, current : Times,
                              todo : SUBSET Pid, listed : SUBSET Pid]
               /\ \A p \in Pid : SteadyHasFile(process[p], file[p])
BY DEF TypeOK, Process, File, SteadyHasFile

-----------------------------------------------------------------------------
(* What a dispatcher lists is true. *)

LEMMA NothingTyped == Nothing \in Process /\ Nothing.steady = Never
BY ConstantsTyped DEF Nothing, Process, Times

\* A step that changes neither files, nor clock, nor what was loaded, nor the doctor, and makes
\* no process steady.
LEMMA ProcessStep ==
    ASSUME IInv, NEW p \in Pid, NEW q \in Process, q.steady = Never,
           process' = [process EXCEPT ![p] = q],
           UNCHANGED <<now, runtime, loaded, doctor>>,
           file' = file \/ file' = [file EXCEPT ![p] = NoFile]
    PROVE  IInv'
<1> USE TypedParts DEF IInv
<1>1. file' \in [Pid -> File] /\ \A o \in Pid : file'[o] = file[o] \/ (o = p /\ file'[o] = NoFile)
  BY DEF File
<1>2. process' \in [Pid -> Process] /\ \A o \in Pid : o # p => process'[o] = process[o]
  OBVIOUS
<1>3. process'[p] = q
  OBVIOUS
<1>4. TypeOK'
  <2>1. \A o \in Pid : SteadyHasFile(process'[o], file'[o])
    BY <1>1, <1>2, <1>3 DEF SteadyHasFile
  <2>2. QED
    BY <1>1, <1>2, <2>1, TypedParts DEF TypeOK, Process, File, SteadyHasFile
<1>5. FilesTrue'
  BY <1>1 DEF FilesTrue, NoFile
<1>6. SteadyInPast'
  BY <1>2, <1>3 DEF SteadyInPast
<1>7. QED
  BY <1>4, <1>5, <1>6 DEF ListedLoaded, NothingListedYet

\* A step of the doctor alone.
LEMMA DoctorStep ==
    ASSUME IInv, UNCHANGED <<now, process, file, runtime, loaded>>,
           doctor' \in [pc : {"idle", "reading", "done"}, current : Times,
                        todo : SUBSET Pid, listed : SUBSET Pid],
           doctor'.pc # "idle",
           \A p \in doctor'.listed : loaded[p] # Never /\ loaded[p] + MaxAge >= doctor'.current
    PROVE  IInv'
BY DEF IInv, TypeOK, FilesTrue, SteadyInPast, ListedLoaded, NothingListedYet

\* A heartbeat, written or not.
LEMMA WriteHeartbeatInv ==
    ASSUME IInv, NEW p \in Pid, NEW q \in Process,
           q.program = "dispatcher", q.initialized, q.pipe = process[p].pipe,
           q.steady = process[p].steady,
           WriteHeartbeat(p, q), UNCHANGED <<now, runtime, doctor>>
    PROVE  IInv'
<1>1. /\ now \in Times /\ process \in [Pid -> Process] /\ file \in [Pid -> File]
      /\ runtime \in BOOLEAN /\ loaded \in [Pid -> Times \cup {Never}]
      /\ doctor \in [pc : {"idle", "reading", "done"}, current : Times,
                     todo : SUBSET Pid, listed : SUBSET Pid]
      /\ \A o \in Pid : SteadyHasFile(process[o], file[o])
  BY TypedParts DEF IInv
<1>2. now \in Nat /\ now # Never /\ now <= MaxTime
  BY <1>1, ConstantsTyped DEF Times
<1>3. /\ loaded' \in [Pid -> Times \cup {Never}]
      /\ \A o \in Pid : loaded'[o] = loaded[o] \/ loaded'[o] = now
      /\ Loaded(q, runtime) => loaded'[p] = now
  BY <1>1 DEF WriteHeartbeat
<1>4. \E r \in Process :
        /\ process' = [process EXCEPT ![p] = r]
        /\ r.steady # Never => r.steady \in Times /\ r.steady <= now
        /\ SteadyHasFile(r, file'[p])
      /\ \/ file' = file
         \/ file' = [file EXCEPT ![p] = [updatedAt |-> now, nativePipeAvailable |-> process[p].pipe,
                                         stateRuntimeAvailable |-> runtime]]
  <2>1. q.steady # Never => q.steady \in Times /\ q.steady <= now
    BY <1>1 DEF IInv, SteadyInPast, Process
  <2>2. SteadyHasFile(q, file[p])
    BY <1>1 DEF SteadyHasFile
  <2>3. CASE Written(p) /\ process' = [process EXCEPT ![p] =
                 [q EXCEPT !.missed = 0, !.steady = IF ~Loaded(q, runtime) THEN Never
                                                    ELSE IF @ = Never THEN now ELSE @]]
    <3> DEFINE s == IF ~Loaded(q, runtime) THEN Never
                    ELSE IF q.steady = Never THEN now ELSE q.steady
               r == [q EXCEPT !.missed = 0, !.steady = s]
               f == [updatedAt |-> now, nativePipeAvailable |-> process[p].pipe,
                     stateRuntimeAvailable |-> runtime]
    <3>1. s \in Times \cup {Never} /\ (s # Never => s \in Times /\ s <= now /\ Loaded(q, runtime))
      BY <1>1, <1>2, <2>1
    <3> HIDE DEF s
    <3>2. r \in Process /\ r.steady = s /\ r.initialized = q.initialized /\ r.pipe = q.pipe
      <4>1. 0 \in 0..MaxMissed
        BY ConstantsTyped
      <4>2. r \in Process
        BY <3>1, <4>1 DEF Process
      <4>3. r.steady = s /\ r.initialized = q.initialized /\ r.pipe = q.pipe
        BY DEF Process
      <4>4. QED
        BY <4>2, <4>3
    <3>3. file' = [file EXCEPT ![p] = f] /\ file'[p] = f
      BY <1>1, <2>3 DEF Written
    <3>4. process' = [process EXCEPT ![p] = r]
      BY <2>3 DEF s
    <3>5. SteadyHasFile(r, f)
      BY <1>2, <3>1, <3>2 DEF SteadyHasFile, Loaded, NoFile
    <3>6. QED
      BY <3>1, <3>2, <3>3, <3>4, <3>5
  <2>4. CASE UNCHANGED file /\ process' = [process EXCEPT ![p] =
                 IF q.missed < MaxMissed THEN [q EXCEPT !.missed = @ + 1]
                 ELSE [q EXCEPT !.steady = Never]]
    <3> DEFINE r == IF q.missed < MaxMissed THEN [q EXCEPT !.missed = @ + 1]
                    ELSE [q EXCEPT !.steady = Never]
    <3>1. /\ r \in Process /\ r.initialized = q.initialized /\ r.pipe = q.pipe
          /\ r.steady = q.steady \/ r.steady = Never
      <4>1. q.missed \in 0..MaxMissed /\ (q.missed < MaxMissed => q.missed + 1 \in 0..MaxMissed)
        BY ConstantsTyped DEF Process
      <4>2. [q EXCEPT !.missed = q.missed + 1].steady = q.steady
            /\ [q EXCEPT !.missed = q.missed + 1].initialized = q.initialized
            /\ [q EXCEPT !.missed = q.missed + 1].pipe = q.pipe
        BY DEF Process
      <4>3. [q EXCEPT !.steady = Never].steady = Never
            /\ [q EXCEPT !.steady = Never].initialized = q.initialized
            /\ [q EXCEPT !.steady = Never].pipe = q.pipe
        BY DEF Process
      <4>4. r \in Process
        BY <4>1 DEF Process
      <4>5. QED
        BY <4>2, <4>3, <4>4
    <3>2. process' = [process EXCEPT ![p] = r]
      BY <2>4
    <3> HIDE DEF r
    <3>3. SteadyHasFile(r, file'[p])
      BY <2>2, <2>4, <3>1 DEF SteadyHasFile
    <3>4. QED
      BY <2>1, <2>4, <3>1, <3>2, <3>3
  <2>5. QED
    BY <2>3, <2>4 DEF WriteHeartbeat
<1>5. PICK r \in Process :
        /\ process' = [process EXCEPT ![p] = r]
        /\ r.steady # Never => r.steady \in Times /\ r.steady <= now
        /\ SteadyHasFile(r, file'[p])
  BY <1>4
<1>6. /\ process' \in [Pid -> Process] /\ process'[p] = r
      /\ \A o \in Pid : o # p => process'[o] = process[o]
  BY <1>1, <1>5
<1>7. /\ file' \in [Pid -> File]
      /\ \A o \in Pid : o # p => file'[o] = file[o]
  BY <1>1, <1>4 DEF File, Process
<1>8. TypeOK'
  <2>1. \A o \in Pid : SteadyHasFile(process'[o], file'[o])
    BY <1>1, <1>5, <1>6, <1>7
  <2>2. QED
    BY <1>1, <1>3, <1>6, <1>7, <2>1 DEF TypeOK, Process, File, SteadyHasFile
<1>9. FilesTrue'
  <2> SUFFICES ASSUME NEW o \in Pid
               PROVE  /\ file'[o].nativePipeAvailable /\ file'[o].stateRuntimeAvailable =>
                           loaded'[o] # Never /\ file'[o].updatedAt <= loaded'[o]
                      /\ loaded'[o] # Never => loaded'[o] <= now'
    BY DEF FilesTrue
  <2>1. loaded'[o] # Never => loaded'[o] <= now'
    BY <1>2, <1>3 DEF IInv, FilesTrue
  <2>2. CASE file'[o] = file[o]
    <3>1. ASSUME file[o].nativePipeAvailable /\ file[o].stateRuntimeAvailable
          PROVE  loaded[o] # Never /\ loaded[o] <= now /\ file[o].updatedAt <= loaded[o]
                 /\ file[o].updatedAt \in Nat /\ loaded[o] \in Nat
      BY <1>1, <3>1, FileKnown DEF IInv, FilesTrue, Times
    <3>2. QED
      BY <1>2, <1>3, <2>1, <2>2, <3>1
  <2>3. CASE o = p /\ file'[o] # file[o]
    <3>1. file'[p] = [updatedAt |-> now, nativePipeAvailable |-> process[p].pipe,
                      stateRuntimeAvailable |-> runtime]
      BY <1>1, <1>4, <2>3
    <3>2. process[p].pipe /\ runtime => loaded'[p] = now
      BY <1>3 DEF Loaded
    <3>3. QED
      BY <1>2, <2>1, <2>3, <3>1, <3>2
  <2>4. QED
    BY <1>7, <2>1, <2>2, <2>3
<1>10. SteadyInPast'
  BY <1>5, <1>6 DEF IInv, SteadyInPast
<1>11. ListedLoaded'
  <2> SUFFICES ASSUME NEW o \in doctor.listed
               PROVE  loaded'[o] # Never /\ loaded'[o] + MaxAge >= doctor.current
    BY DEF ListedLoaded
  <2>1. /\ o \in Pid /\ loaded[o] # Never /\ loaded[o] \in Nat /\ loaded[o] <= now
        /\ loaded[o] + MaxAge >= doctor.current /\ doctor.current \in Nat
    BY <1>1 DEF IInv, ListedLoaded, FilesTrue, Times
  <2>2. QED
    BY <1>2, <1>3, <2>1, ConstantsTyped
<1>12. QED
  BY <1>8, <1>9, <1>10, <1>11 DEF IInv, NothingListedYet


LEMMA InvInit == Init => IInv
<1> SUFFICES ASSUME Init PROVE IInv
  OBVIOUS
<1>1. 0 \in Times
  BY ConstantsTyped DEF Times
<1>2. TypeOK
  <2>1. process \in [Pid -> Process] /\ file \in [Pid -> File]
    BY NothingTyped DEF Init, File
  <2>2. \A p \in Pid : SteadyHasFile(process[p], file[p])
    BY NothingTyped DEF Init, SteadyHasFile
  <2> QED
    BY <1>1, <2>1, <2>2, TypedParts DEF Init
<1>3. FilesTrue /\ SteadyInPast /\ ListedLoaded
  BY NothingTyped DEF Init, FilesTrue, SteadyInPast, ListedLoaded, NoFile
<1> QED
  BY <1>2, <1>3 DEF IInv, Init, NothingListedYet

LEMMA HeartbeatInv ==
    ASSUME IInv, NEW p \in Pid, Initialize(p) \/ Beat(p)
    PROVE  IInv'
<1>1. process \in [Pid -> Process] /\ process[p] \in Process
  BY TypedParts DEF IInv
<1>2. now + Every \in 0..Never + Every
  BY TypedParts, ConstantsTyped DEF IInv, Times
<1>3. CASE Initialize(p)
  <2> DEFINE q == [process[p] EXCEPT !.initialized = TRUE]
  <2>1. /\ q \in Process /\ q.program = process[p].program /\ q.initialized
        /\ q.pipe = process[p].pipe /\ q.steady = process[p].steady
    BY <1>1 DEF Process
  <2>2. WriteHeartbeat(p, q) /\ process[p].program = "dispatcher" /\ UNCHANGED <<now, runtime, doctor>>
    BY <1>3 DEF Initialize
  <2> HIDE DEF q
  <2>3. QED
    BY <2>1, <2>2, WriteHeartbeatInv
<1>4. CASE Beat(p)
  <2> DEFINE q == [process[p] EXCEPT !.beat = now + Every]
  <2>1. /\ q \in Process /\ q.program = process[p].program /\ q.initialized = process[p].initialized
        /\ q.pipe = process[p].pipe /\ q.steady = process[p].steady
    BY <1>1, <1>2 DEF Process
  <2>2. process[p].program = "dispatcher" /\ UNCHANGED <<now, runtime, doctor>>
    BY <1>4 DEF Beat
  <2>3. IF q.initialized THEN WriteHeartbeat(p, q)
        ELSE process' = [process EXCEPT ![p] = q] /\ UNCHANGED <<file, loaded>>
    BY <1>4 DEF Beat
  <2> HIDE DEF q
  <2>4. CASE q.initialized
    BY <2>1, <2>2, <2>3, <2>4, WriteHeartbeatInv
  <2>5. CASE ~q.initialized
    <3>1. process[p].steady = Never
      BY <2>1, <2>5, TypedParts DEF IInv, SteadyHasFile
    <3>2. QED
      BY <2>1, <2>2, <2>3, <2>5, <3>1, ProcessStep
  <2>6. QED
    BY <2>4, <2>5
<1>5. QED
  BY <1>3, <1>4

LEMMA ProcessInv ==
    ASSUME IInv, NEW p \in Pid, Starts(p) \/ Shutdown(p) \/ Killed(p) \/ Reused(p)
    PROVE  IInv'
<1>1. now + Every \in 0..Never + Every
  BY TypedParts, ConstantsTyped DEF IInv, Times
<1>2. CASE Starts(p)
  <2>1. PICK pipe \in BOOLEAN :
          process' = [process EXCEPT ![p] = [Nothing EXCEPT !.program = "dispatcher",
                                                 !.pipe = pipe, !.beat = now + Every]]
    BY <1>2 DEF Starts
  <2> DEFINE q == [Nothing EXCEPT !.program = "dispatcher", !.pipe = pipe, !.beat = now + Every]
  <2>2. q \in Process /\ q.steady = Never
    BY <1>1, NothingTyped DEF Process
  <2> HIDE DEF q
  <2>3. QED
    BY <1>2, <2>1, <2>2, ProcessStep DEF Starts, q
<1>3. CASE Reused(p)
  <2> DEFINE q == [Nothing EXCEPT !.program = "other"]
  <2>1. q \in Process /\ q.steady = Never
    BY NothingTyped DEF Process
  <2>2. process' = [process EXCEPT ![p] = q] /\ UNCHANGED <<now, file, runtime, loaded, doctor>>
    BY <1>3 DEF Reused
  <2> HIDE DEF q
  <2>3. QED
    BY <2>1, <2>2, ProcessStep
<1>4. CASE Shutdown(p)
  BY <1>4, NothingTyped, ProcessStep DEF Shutdown
<1>5. CASE Killed(p)
  BY <1>5, NothingTyped, ProcessStep DEF Killed
<1>6. QED
  BY <1>2, <1>3, <1>4, <1>5

LEMMA InstallsInv == ASSUME IInv, Installs PROVE IInv'
<1>1. process' \in [Pid -> Process] /\ \A p \in Pid : process'[p].steady = Never
  <2>1. \A q \in Process : [q EXCEPT !.steady = Never] \in Process
    BY DEF Process
  <2>2. \A q \in Process : [q EXCEPT !.steady = Never].steady = Never
    BY DEF Process
  <2>3. process' = [p \in Pid |-> [process[p] EXCEPT !.steady = Never]]
    BY DEF Installs
  <2>4. \A p \in Pid : process[p] \in Process
    BY TypedParts DEF IInv
  <2>5. QED
    BY <2>1, <2>2, <2>3, <2>4
<1>2. runtime' \in BOOLEAN
  BY TypedParts DEF IInv, Installs
<1>3. \A p \in Pid : SteadyHasFile(process'[p], file'[p])
  BY <1>1 DEF SteadyHasFile
<1>4. TypeOK'
  BY <1>1, <1>2, <1>3, TypedParts DEF IInv, Installs, TypeOK, Process, File, SteadyHasFile
<1>5. FilesTrue' /\ ListedLoaded'
  BY DEF IInv, FilesTrue, ListedLoaded, Installs
<1>6. QED
  BY <1>1, <1>4, <1>5 DEF IInv, SteadyInPast, NothingListedYet, Installs

LEMMA DoctorInv ==
    ASSUME IInv, DoctorBegins \/ DoctorEnds \/ \E p \in Pid : Inspect(p)
    PROVE  IInv'
<1>1. /\ now \in Times
      /\ doctor \in [pc : {"idle", "reading", "done"}, current : Times,
                     todo : SUBSET Pid, listed : SUBSET Pid]
  BY TypedParts DEF IInv
<1>2. \A p \in doctor.listed : loaded[p] # Never /\ loaded[p] + MaxAge >= doctor.current
  BY DEF IInv, ListedLoaded
<1>3. CASE DoctorEnds
  BY <1>1, <1>2, <1>3, DoctorStep DEF DoctorEnds
<1>4. CASE DoctorBegins
  <2>1. doctor'.listed = {}
    BY <1>1, <1>4 DEF DoctorBegins, IInv, NothingListedYet
  <2>2. QED
    BY <1>1, <1>4, <2>1, DoctorStep DEF DoctorBegins
<1>5. ASSUME NEW p \in Pid, Inspect(p) PROVE IInv'
  <2>1. doctor'.current = doctor.current /\ doctor'.listed \subseteq doctor.listed \cup {p}
    BY <1>1, <1>5 DEF Inspect
  <2>2. p \in doctor'.listed => p \in doctor.listed
                                \/ /\ file[p].nativePipeAvailable /\ file[p].stateRuntimeAvailable
                                   /\ doctor.current <= file[p].updatedAt + MaxAge
    BY <1>1, <1>5 DEF Inspect, Fresh
  <2>3. file[p].nativePipeAvailable /\ file[p].stateRuntimeAvailable =>
          /\ loaded[p] # Never /\ file[p].updatedAt <= loaded[p]
          /\ file[p].updatedAt \in Nat /\ loaded[p] \in Nat /\ doctor.current \in Nat
    BY <1>1, FileKnown, TypedParts DEF IInv, FilesTrue, Times
  <2>4. p \in doctor'.listed => loaded[p] # Never /\ loaded[p] + MaxAge >= doctor.current
    BY <1>2, <2>2, <2>3, ConstantsTyped
  <2>5. \A o \in doctor'.listed : loaded[o] # Never /\ loaded[o] + MaxAge >= doctor'.current
    BY <1>2, <2>1, <2>4
  <2>6. doctor'.pc # "idle"
    BY <1>1, <1>5 DEF Inspect
  <2>7. QED
    BY <1>1, <1>5, <2>5, <2>6, DoctorStep DEF Inspect
<1>6. QED
  BY <1>3, <1>4, <1>5

LEMMA TickInv == ASSUME IInv, Tick PROVE IInv'
<1>1. /\ now \in Nat /\ now < MaxTime /\ now' = now + 1 /\ now' \in Times /\ now' # Never
      /\ UNCHANGED <<process, file, runtime, doctor>>
  BY TypedParts, ConstantsTyped DEF IInv, Tick, Times
<1>2. /\ loaded \in [Pid -> Times \cup {Never}] /\ loaded' \in [Pid -> Times \cup {Never}]
      /\ \A p \in Pid : loaded'[p] = loaded[p] \/ loaded'[p] = now'
  BY <1>1, TypedParts DEF IInv, Tick
<1>3. \A p \in Pid : loaded[p] # Never => loaded[p] \in Nat /\ loaded[p] <= now
  BY <1>2 DEF IInv, FilesTrue, Times
<1>4. TypeOK'
  BY <1>1, <1>2 DEF IInv, TypeOK
<1>5. FilesTrue'
  <2> SUFFICES ASSUME NEW p \in Pid
               PROVE  /\ file[p].nativePipeAvailable /\ file[p].stateRuntimeAvailable =>
                           loaded'[p] # Never /\ file[p].updatedAt <= loaded'[p]
                      /\ loaded'[p] # Never => loaded'[p] <= now'
    BY <1>1 DEF FilesTrue
  <2>1. /\ file[p].updatedAt \in Nat
        /\ file[p].nativePipeAvailable /\ file[p].stateRuntimeAvailable =>
             loaded[p] # Never /\ file[p].updatedAt <= loaded[p]
    BY FileKnown, TypedParts DEF IInv, FilesTrue
  <2>2. QED
    BY <1>1, <1>2, <1>3, <2>1
<1>6. SteadyInPast'
  <2>1. \A p \in Pid : process[p].steady # Never => process[p].steady \in Nat
    BY TypedParts DEF IInv, Process, Times
  <2>2. QED
    BY <1>1, <2>1 DEF IInv, SteadyInPast
<1>7. ListedLoaded'
  <2> SUFFICES ASSUME NEW p \in doctor.listed
               PROVE  loaded'[p] # Never /\ loaded'[p] + MaxAge >= doctor.current
    BY <1>1 DEF ListedLoaded
  <2>1. /\ p \in Pid /\ loaded[p] # Never /\ loaded[p] + MaxAge >= doctor.current
        /\ doctor.current \in Nat
    BY TypedParts DEF IInv, ListedLoaded, Times
  <2>2. QED
    BY <1>1, <1>2, <1>3, <2>1, ConstantsTyped
<1>8. QED
  BY <1>1, <1>4, <1>5, <1>6, <1>7 DEF IInv, NothingListedYet

LEMMA InvNext == IInv /\ [Next]_vars => IInv'
<1> SUFFICES ASSUME IInv, [Next]_vars PROVE IInv'
  OBVIOUS
<1>1. CASE Installs \/ Tick
  BY <1>1, InstallsInv, TickInv
<1>2. CASE DoctorBegins \/ DoctorEnds \/ \E p \in Pid : Inspect(p)
  BY <1>2, DoctorInv
<1>3. CASE \E p \in Pid : Initialize(p) \/ Beat(p)
  BY <1>3, HeartbeatInv
<1>4. CASE \E p \in Pid : Starts(p) \/ Shutdown(p) \/ Killed(p) \/ Reused(p)
  BY <1>4, ProcessInv
<1>5. CASE UNCHANGED vars
  BY <1>5 DEF vars, IInv, TypeOK, FilesTrue, SteadyInPast, ListedLoaded, NothingListedYet
<1>6. QED
  BY <1>1, <1>2, <1>3, <1>4, <1>5 DEF Next

\* Files, processes and the doctor agree in every reachable state.
THEOREM HeartbeatInvariant == Spec => []IInv
BY InvInit, InvNext, PTL DEF Spec

\* The variables have their types, and a steady dispatcher has its file.
THEOREM HeartbeatTyped == Spec => []TypeOK
<1>1. IInv => TypeOK
  BY DEF IInv
<1>2. QED
  BY <1>1, HeartbeatInvariant, PTL

\* active_dispatchers lists no pid but one whose dispatcher was loaded at some moment of
\* the last MaxAge, whatever was killed, restarted, reinstalled or given an old pid meanwhile.
THEOREM ListedAreLoaded == Spec => []ListedLoaded
<1>1. IInv => ListedLoaded
  BY DEF IInv
<1>2. QED
  BY <1>1, HeartbeatInvariant, PTL


-----------------------------------------------------------------------------
(* A steady dispatcher is listed. *)

\* A missed heartbeat adds one interval to the age a file may reach.
LEMMA Ages ==
    ASSUME NEW n \in Nat, n <= MaxMissed
    PROVE  /\ (n + 1) * Every \in Nat
           /\ (n + 1) * Every <= (MaxMissed + 1) * Every
           /\ ((n + 1) + 1) * Every = (n + 1) * Every + Every
           /\ (0 + 1) * Every = Every
<1>1. Every \in Nat /\ MaxMissed \in Nat
  BY ConstantsTyped
<1>2. (n + 1) * Every \in Nat /\ ((n + 1) + 1) * Every = (n + 1) * Every + Every
      /\ (0 + 1) * Every = Every
  BY <1>1
<1>3. \A a, b, e \in Nat : a <= b => a * e <= b * e
  OBVIOUS
<1>4. n + 1 \in Nat /\ MaxMissed + 1 \in Nat /\ n + 1 <= MaxMissed + 1
  BY <1>1
<1>5. QED
  BY <1>1, <1>2, <1>3, <1>4

\* The fields of a process and of the doctor, with the clock.
LEMMA Known ==
    ASSUME IInv
    PROVE  /\ now \in Nat /\ now < Never
           /\ process \in [Pid -> Process] /\ file \in [Pid -> File]
           /\ \A p \in Pid : /\ process[p].beat \in Nat
                             /\ process[p].missed \in Nat /\ process[p].missed <= MaxMissed
                             /\ process[p].steady \in Nat
                             /\ process[p].steady = Never \/ process[p].steady < Never
                             /\ file[p].updatedAt \in Nat
           /\ doctor \in [pc : {"idle", "reading", "done"}, current : Times,
                          todo : SUBSET Pid, listed : SUBSET Pid]
           /\ doctor.current \in Nat /\ doctor.current < Never
<1>1. /\ now \in Times /\ process \in [Pid -> Process] /\ file \in [Pid -> File]
      /\ doctor \in [pc : {"idle", "reading", "done"}, current : Times,
                     todo : SUBSET Pid, listed : SUBSET Pid]
  BY TypedParts DEF IInv
<1>2. \A t \in Times : t \in Nat /\ t < Never
  BY ConstantsTyped DEF Times
<1>3. ASSUME NEW p \in Pid
      PROVE  /\ process[p].beat \in Nat
             /\ process[p].missed \in Nat /\ process[p].missed <= MaxMissed
             /\ process[p].steady \in Times \cup {Never}
  BY <1>1, ConstantsTyped DEF Process
<1>4. QED
  BY <1>1, <1>2, <1>3, FileKnown, ConstantsTyped

\* While neither the doctor nor the clock moves, nobody joins those to be remembered.
LEMMA RememberedKept ==
    ASSUME SteadyInv, UNCHANGED <<now, doctor>>,
           \A p \in Pid : \/ process'[p].steady = process[p].steady
                          \/ process'[p].steady = Never
                          \/ process'[p].steady = now
    PROVE  Remembered'
<1>1. doctor.current \in Nat /\ doctor.current < Never /\ now \in Nat /\ Never \in Nat
  BY Known, ConstantsTyped DEF SteadyInv
<1>2. SUFFICES ASSUME doctor.pc # "idle"
               PROVE  \A p \in Pid : process'[p].steady < doctor.current =>
                                       p \in doctor.todo \cup doctor.listed
  BY DEF SteadyInv, Remembered
<1>3. doctor.current <= now
      /\ \A p \in Pid : process[p].steady < doctor.current => p \in doctor.todo \cup doctor.listed
  BY <1>2 DEF SteadyInv, Remembered
<1>4. QED
  BY <1>1, <1>3

\* A process started, ended or replaced is not steady.
LEMMA ProcessPaced ==
    ASSUME SteadyInv, NEW p \in Pid, Starts(p) \/ Shutdown(p) \/ Killed(p) \/ Reused(p)
    PROVE  (\A o \in Pid : Paced(o)') /\ Remembered'
<1>1. PICK q :
        /\ process' = [process EXCEPT ![p] = q]
        /\ q.steady = Never
        /\ q.program = "dispatcher" => q.beat = now + Every
  <2>1. CASE Starts(p)
    <3>1. PICK pipe \in BOOLEAN :
            process' = [process EXCEPT ![p] = [Nothing EXCEPT !.program = "dispatcher",
                                                   !.pipe = pipe, !.beat = now + Every]]
      BY <2>1 DEF Starts
    <3>2. /\ [Nothing EXCEPT !.program = "dispatcher", !.pipe = pipe, !.beat = now + Every].steady = Never
          /\ [Nothing EXCEPT !.program = "dispatcher", !.pipe = pipe, !.beat = now + Every].beat = now + Every
      BY DEF Nothing
    <3>3. QED
      BY <3>1, <3>2
  <2>2. CASE Shutdown(p) \/ Killed(p)
    <3>1. process' = [process EXCEPT ![p] = Nothing]
      BY <2>2 DEF Shutdown, Killed
    <3>2. Nothing.steady = Never /\ Nothing.program # "dispatcher"
      BY DEF Nothing
    <3>3. QED
      BY <3>1, <3>2
  <2>3. CASE Reused(p)
    <3>1. process' = [process EXCEPT ![p] = [Nothing EXCEPT !.program = "other"]]
      BY <2>3 DEF Reused
    <3>2. /\ [Nothing EXCEPT !.program = "other"].steady = Never
          /\ [Nothing EXCEPT !.program = "other"].program # "dispatcher"
      BY DEF Nothing
    <3>3. QED
      BY <3>1, <3>2
  <2>4. QED
    BY <2>1, <2>2, <2>3
<1>2. /\ UNCHANGED <<now, runtime, doctor>>
      /\ \A o \in Pid : o # p => file'[o] = file[o] /\ process'[o] = process[o]
      /\ process'[p] = q
  BY <1>1, Known DEF SteadyInv, Starts, Shutdown, Killed, Reused
<1>3. ASSUME NEW o \in Pid PROVE Paced(o)'
  <2>1. CASE o = p
    BY <1>1, <1>2, <2>1, Known, ConstantsTyped DEF SteadyInv, Paced
  <2>2. CASE o # p
    BY <1>2, <2>2 DEF SteadyInv, Paced, Loaded
  <2>3. QED
    BY <2>1, <2>2
<1>4. Remembered'
  BY <1>1, <1>2, RememberedKept
<1>5. QED
  BY <1>3, <1>4

\* A heartbeat.  `q` is the process when it is written; its timer has been set again, or it
\* was not running yet.
LEMMA WritePaced ==
    ASSUME SteadyInv, NEW p \in Pid, NEW q \in Process, q.program = "dispatcher", q.initialized,
           q.pipe = process[p].pipe, q.steady = process[p].steady, q.missed = process[p].missed,
           now <= q.beat, q.beat <= now + Every,
           q.steady # Never => process[p].beat = now,
           WriteHeartbeat(p, q), UNCHANGED <<now, runtime, doctor>>
    PROVE  (\A o \in Pid : Paced(o)') /\ Remembered'
<1>1. /\ process \in [Pid -> Process] /\ file \in [Pid -> File]
      /\ now \in Nat /\ now # Never /\ q.beat \in Nat /\ q.missed \in Nat /\ q.missed <= MaxMissed
      /\ file[p].updatedAt \in Nat /\ process[p].missed \in Nat /\ Every \in Nat /\ MaxMissed \in Nat
  BY Known, ConstantsTyped DEF SteadyInv, Process
<1>2. CASE Written(p) /\ process' = [process EXCEPT ![p] =
               [q EXCEPT !.missed = 0, !.steady = IF ~Loaded(q, runtime) THEN Never
                                                  ELSE IF @ = Never THEN now ELSE @]]
  <2> DEFINE s == IF ~Loaded(q, runtime) THEN Never
                  ELSE IF q.steady = Never THEN now ELSE q.steady
             r == [q EXCEPT !.missed = 0, !.steady = s]
  <2>1. /\ r.program = q.program /\ r.initialized = q.initialized /\ r.pipe = q.pipe
        /\ r.beat = q.beat /\ r.missed = 0 /\ r.steady = s
    BY DEF Process
  <2>2. process' = [process EXCEPT ![p] = r]
    BY <1>2
  <2> HIDE DEF r
  <2>3. /\ process'[p] = r /\ \A o \in Pid : o # p => process'[o] = process[o]
    BY <1>1, <2>2
  <2>4. /\ file'[p] = [updatedAt |-> now, nativePipeAvailable |-> process[p].pipe,
                       stateRuntimeAvailable |-> runtime]
        /\ \A o \in Pid : o # p => file'[o] = file[o]
    BY <1>1, <1>2 DEF Written
  <2>5. s # Never => Loaded(r, runtime) /\ process[p].pipe /\ runtime
    BY <2>1 DEF Loaded
  <2>6. (0 + 1) * Every = Every
    BY Ages, <1>1
  <2>7. Paced(p)'
    <3>1. r.beat <= now + (r.missed + 1) * Every
      BY <2>1, <2>6
    <3>2. QED
      BY <1>1, <2>1, <2>3, <2>4, <2>5, <3>1 DEF Paced
  <2>8. \A o \in Pid : o # p => Paced(o)'
    BY <2>3, <2>4 DEF SteadyInv, Paced, Loaded
  <2>9. Remembered'
    BY <2>1, <2>3, RememberedKept
  <2>10. QED
    BY <2>7, <2>8, <2>9
<1>3. CASE UNCHANGED file /\ process' = [process EXCEPT ![p] =
               IF q.missed < MaxMissed THEN [q EXCEPT !.missed = @ + 1]
               ELSE [q EXCEPT !.steady = Never]]
  <2> DEFINE r == IF q.missed < MaxMissed THEN [q EXCEPT !.missed = @ + 1]
                  ELSE [q EXCEPT !.steady = Never]
  <2>1. /\ r.program = q.program /\ r.initialized = q.initialized /\ r.pipe = q.pipe
        /\ r.beat = q.beat
        /\ \/ r.steady = Never
           \/ r.steady = q.steady /\ r.missed = q.missed + 1
    BY DEF Process
  <2>2. process' = [process EXCEPT ![p] = r]
    BY <1>3
  <2> HIDE DEF r
  <2>3. /\ process'[p] = r /\ \A o \in Pid : o # p => process'[o] = process[o]
    BY <1>1, <2>2
  <2>4. Paced(p)'
    <3>1. ASSUME r.steady # Never
          PROVE  /\ Loaded(r, runtime)
                 /\ file[p].nativePipeAvailable /\ file[p].stateRuntimeAvailable
                 /\ file[p].updatedAt <= now
                 /\ r.beat <= file[p].updatedAt + (r.missed + 1) * Every
      <4>1. r.steady = q.steady /\ r.missed = q.missed + 1 /\ process[p].beat = now
        BY <2>1, <3>1
      <4>2. /\ Loaded(process[p], runtime)
            /\ file[p].nativePipeAvailable /\ file[p].stateRuntimeAvailable
            /\ file[p].updatedAt <= now
            /\ now <= file[p].updatedAt + (q.missed + 1) * Every
        BY <3>1, <4>1 DEF SteadyInv, Paced
      <4>3. (r.missed + 1) * Every = (q.missed + 1) * Every + Every
            /\ (q.missed + 1) * Every \in Nat
        BY <1>1, <4>1, Ages
      <4>4. r.beat <= file[p].updatedAt + (r.missed + 1) * Every
        BY <1>1, <2>1, <4>2, <4>3
      <4>5. QED
        BY <2>1, <4>2, <4>4 DEF Loaded
    <3>2. QED
      BY <1>3, <2>1, <2>3, <3>1 DEF Paced
  <2>5. \A o \in Pid : o # p => Paced(o)'
    BY <1>3, <2>3 DEF SteadyInv, Paced, Loaded
  <2>6. Remembered'
    BY <2>1, <2>3, RememberedKept
  <2>7. QED
    BY <2>4, <2>5, <2>6
<1>4. QED
  BY <1>2, <1>3 DEF WriteHeartbeat


LEMMA HeartbeatPaced ==
    ASSUME SteadyInv, NEW p \in Pid, Initialize(p) \/ Beat(p)
    PROVE  (\A o \in Pid : Paced(o)') /\ Remembered'
<1>1. /\ process \in [Pid -> Process] /\ process[p] \in Process /\ now \in Nat /\ Every \in Nat
      /\ process[p].beat \in Nat
  BY Known, ConstantsTyped DEF SteadyInv
<1>2. now + Every \in 0..Never + Every
  BY Known, ConstantsTyped DEF SteadyInv
<1>3. process[p].program = "dispatcher" => now <= process[p].beat /\ process[p].beat <= now + Every
  BY DEF SteadyInv, Paced
<1>4. process[p].steady # Never => process[p].initialized
  BY DEF SteadyInv, Paced, Loaded
<1>5. CASE Initialize(p)
  <2> DEFINE q == [process[p] EXCEPT !.initialized = TRUE]
  <2>1. /\ q \in Process /\ q.program = process[p].program /\ q.initialized
        /\ q.pipe = process[p].pipe /\ q.steady = process[p].steady
        /\ q.missed = process[p].missed /\ q.beat = process[p].beat
    BY <1>1 DEF Process
  <2>2. /\ WriteHeartbeat(p, q) /\ process[p].program = "dispatcher" /\ ~process[p].initialized
        /\ UNCHANGED <<now, runtime, doctor>>
    BY <1>5 DEF Initialize
  <2> HIDE DEF q
  <2>3. QED
    BY <1>3, <1>4, <2>1, <2>2, WritePaced
<1>6. CASE Beat(p)
  <2> DEFINE q == [process[p] EXCEPT !.beat = now + Every]
  <2>1. /\ q \in Process /\ q.program = process[p].program
        /\ q.initialized = process[p].initialized
        /\ q.pipe = process[p].pipe /\ q.steady = process[p].steady
        /\ q.missed = process[p].missed /\ q.beat = now + Every
    BY <1>1, <1>2 DEF Process
  <2>2. process[p].program = "dispatcher" /\ process[p].beat <= now /\ UNCHANGED <<now, runtime, doctor>>
    BY <1>6 DEF Beat
  <2>3. IF q.initialized THEN WriteHeartbeat(p, q)
        ELSE process' = [process EXCEPT ![p] = q] /\ UNCHANGED <<file, loaded>>
    BY <1>6 DEF Beat
  <2>4. process[p].beat = now /\ now <= q.beat /\ q.beat <= now + Every
    BY <1>1, <1>3, <2>1, <2>2
  <2> HIDE DEF q
  <2>5. CASE q.initialized
    BY <2>1, <2>2, <2>3, <2>4, <2>5, WritePaced
  <2>6. CASE ~q.initialized
    <3>1. q.steady = Never
      BY <1>4, <2>1, <2>6
    <3>2. process'[p] = q /\ \A o \in Pid : o # p => process'[o] = process[o]
      BY <1>1, <2>3, <2>6
    <3>3. Paced(p)'
      BY <2>1, <2>2, <2>4, <3>1, <3>2 DEF Paced
    <3>4. \A o \in Pid : o # p => Paced(o)'
      BY <2>2, <2>3, <2>6, <3>2 DEF SteadyInv, Paced, Loaded
    <3>5. Remembered'
      BY <2>2, <3>1, <3>2, RememberedKept
    <3>6. QED
      BY <3>3, <3>4, <3>5
  <2>7. QED
    BY <2>5, <2>6
<1>7. QED
  BY <1>5, <1>6

LEMMA InstallsPaced ==
    ASSUME SteadyInv, Installs
    PROVE  (\A o \in Pid : Paced(o)') /\ Remembered'
<1>1. \A o \in Pid : /\ process'[o].steady = Never
                     /\ process'[o].program = process[o].program
                     /\ process'[o].beat = process[o].beat
  BY Known DEF SteadyInv, Installs, Process
<1>2. Remembered'
  BY <1>1, RememberedKept DEF Installs
<1>3. QED
  BY <1>1, <1>2 DEF SteadyInv, Paced, Installs

LEMMA TickPaced ==
    ASSUME SteadyInv, Tick
    PROVE  (\A o \in Pid : Paced(o)') /\ Remembered'
<1>1. now \in Nat /\ now' = now + 1 /\ UNCHANGED <<process, file, runtime, doctor>>
  BY Known DEF SteadyInv, Tick
<1>2. ASSUME NEW o \in Pid PROVE Paced(o)'
  <2>1. process[o].program = "dispatcher" => now < process[o].beat
    BY DEF Tick
  <2>2. process[o].beat \in Nat /\ file[o].updatedAt \in Nat /\ Every \in Nat
    BY Known, ConstantsTyped DEF SteadyInv
  <2>3. Paced(o)
    BY DEF SteadyInv
  <2>4. QED
    BY <1>1, <2>1, <2>2, <2>3 DEF Paced
<1>3. Remembered'
  <2>1. doctor.current \in Nat /\ DoctorTime \in Nat
    BY Known, ConstantsTyped DEF SteadyInv
  <2>2. doctor.pc = "reading" => now < doctor.current + DoctorTime
    BY DEF Tick
  <2>3. QED
    BY <1>1, <2>1, <2>2 DEF SteadyInv, Remembered
<1>4. QED
  BY <1>2, <1>3

\* The file of a steady dispatcher is fresh and in order whenever the doctor looks at it.
LEMMA SteadyIsGood ==
    ASSUME Calibrated, SteadyInv, doctor.pc = "reading", NEW p \in Pid, process[p].steady # Never
    PROVE  /\ file[p] # NoFile /\ file[p].nativePipeAvailable /\ file[p].stateRuntimeAvailable
           /\ Fresh(file[p].updatedAt, doctor.current)
           /\ process[p].program # "none"
<1>1. /\ Loaded(process[p], runtime)
      /\ file[p].nativePipeAvailable /\ file[p].stateRuntimeAvailable
      /\ file[p].updatedAt <= now
      /\ process[p].beat <= file[p].updatedAt + (process[p].missed + 1) * Every
      /\ process[p].program = "dispatcher" => now <= process[p].beat
  BY DEF SteadyInv, Paced
<1>2. file[p] # NoFile
  BY <1>1 DEF NoFile
<1>3. /\ doctor.current \in Nat /\ now \in Nat /\ process[p].beat \in Nat
      /\ file[p].updatedAt \in Nat
      /\ process[p].missed \in Nat /\ process[p].missed <= MaxMissed
  BY Known DEF SteadyInv
<1>4. doctor.current <= now /\ now <= doctor.current + DoctorTime
  BY DEF SteadyInv, Remembered
<1>5. doctor.current <= file[p].updatedAt + MaxAge
  <2>1. /\ (process[p].missed + 1) * Every \in Nat
        /\ (process[p].missed + 1) * Every <= (MaxMissed + 1) * Every
    BY <1>3, Ages
  <2>2. (MaxMissed + 1) * Every \in Nat /\ MaxAge \in Nat /\ (MaxMissed + 1) * Every <= MaxAge
    BY ConstantsTyped DEF Calibrated
  <2>3. now <= process[p].beat
    BY <1>1 DEF Loaded
  <2>4. QED
    BY <1>1, <1>3, <1>4, <2>1, <2>2, <2>3
<1>6. file[p].updatedAt <= doctor.current + Skew
  BY <1>1, <1>3, <1>4, ConstantsTyped DEF Calibrated
<1>7. QED
  BY <1>1, <1>2, <1>5, <1>6 DEF Fresh, Loaded

LEMMA DoctorPaced ==
    ASSUME Calibrated, SteadyInv, DoctorBegins \/ DoctorEnds \/ \E p \in Pid : Inspect(p)
    PROVE  (\A o \in Pid : Paced(o)') /\ Remembered'
<1>1. UNCHANGED <<now, process, file, runtime, loaded>>
  BY DEF DoctorBegins, DoctorEnds, Inspect
<1>2. \A o \in Pid : Paced(o)'
  BY <1>1 DEF SteadyInv, Paced, Loaded
<1>3. /\ doctor \in [pc : {"idle", "reading", "done"}, current : Times,
                     todo : SUBSET Pid, listed : SUBSET Pid]
      /\ now \in Nat /\ now < Never /\ doctor.current \in Nat /\ DoctorTime \in Nat
      /\ doctor.current < Never /\ Never \in Nat
  BY Known, ConstantsTyped DEF SteadyInv
<1>4. CASE DoctorBegins
  <2>1. doctor'.pc = "reading" /\ doctor'.current = now
        /\ doctor'.todo = {p \in Pid : file[p] # NoFile}
    BY <1>3, <1>4 DEF DoctorBegins
  <2>2. \A p \in Pid : process[p].steady # Never => file[p] # NoFile
    BY TypedParts DEF SteadyInv, IInv, SteadyHasFile
  <2>3. \A p \in Pid : process[p].steady < now => p \in doctor'.todo
    BY <1>3, <2>1, <2>2, Known DEF SteadyInv
  <2>4. QED
    BY <1>1, <1>2, <1>3, <2>1, <2>3 DEF Remembered
<1>5. CASE DoctorEnds
  <2>1. /\ doctor'.pc = "done" /\ doctor'.current = doctor.current /\ doctor'.todo = doctor.todo
        /\ doctor'.listed = doctor.listed /\ doctor.pc = "reading" /\ doctor.todo = {}
    BY <1>3, <1>5 DEF DoctorEnds
  <2>2. QED
    BY <1>1, <1>2, <2>1 DEF SteadyInv, Remembered
<1>6. ASSUME NEW p \in Pid, Inspect(p) PROVE Remembered'
  <2> DEFINE good == /\ file[p] # NoFile
                     /\ file[p].nativePipeAvailable /\ file[p].stateRuntimeAvailable
                     /\ Fresh(file[p].updatedAt, doctor.current)
                     /\ process[p].program # "none"
  <2>1. /\ doctor.pc = "reading"
        /\ doctor' = [doctor EXCEPT !.todo = @ \ {p},
                                    !.listed = IF good THEN @ \cup {p} ELSE @]
    BY <1>6 DEF Inspect
  <2>2. process[p].steady < doctor.current => good
    <3>1. process[p].steady \in Nat
      BY Known DEF SteadyInv
    <3>2. process[p].steady < doctor.current => process[p].steady # Never
      BY <1>3, <3>1
    <3>3. QED
      BY <2>1, <3>2, SteadyIsGood
  <2> HIDE DEF good
  <2>3. /\ doctor'.pc = "reading" /\ doctor'.current = doctor.current
        /\ doctor'.todo = doctor.todo \ {p}
        /\ doctor'.listed = IF good THEN doctor.listed \cup {p} ELSE doctor.listed
    BY <1>3, <2>1
  <2>4. QED
    BY <1>1, <2>1, <2>2, <2>3 DEF SteadyInv, Remembered
<1>7. QED
  BY <1>2, <1>4, <1>5, <1>6

LEMMA SteadyNext == Calibrated /\ SteadyInv /\ [Next]_vars => SteadyInv'
<1> SUFFICES ASSUME Calibrated, SteadyInv, [Next]_vars PROVE SteadyInv'
  OBVIOUS
<1>1. IInv'
  BY InvNext DEF SteadyInv
<1>2. CASE Installs \/ Tick
  BY <1>1, <1>2, InstallsPaced, TickPaced DEF SteadyInv
<1>3. CASE DoctorBegins \/ DoctorEnds \/ \E p \in Pid : Inspect(p)
  BY <1>1, <1>3, DoctorPaced DEF SteadyInv
<1>4. CASE \E p \in Pid : Initialize(p) \/ Beat(p)
  BY <1>1, <1>4, HeartbeatPaced DEF SteadyInv
<1>5. CASE \E p \in Pid : Starts(p) \/ Shutdown(p) \/ Killed(p) \/ Reused(p)
  BY <1>1, <1>5, ProcessPaced DEF SteadyInv
<1>6. CASE UNCHANGED vars
  BY <1>1, <1>6 DEF vars, SteadyInv, Paced, Remembered, Loaded
<1>7. QED
  BY <1>2, <1>3, <1>4, <1>5, <1>6 DEF Next

LEMMA SteadyInit == Init => SteadyInv
<1> SUFFICES ASSUME Init PROVE SteadyInv
  OBVIOUS
<1>1. IInv
  BY InvInit
<1>2. \A p \in Pid : Paced(p)
  BY DEF Init, Paced, Nothing
<1>3. Remembered
  BY DEF Init, Remembered
<1>4. QED
  BY <1>1, <1>2, <1>3 DEF SteadyInv

\* While timers are on time the age of a steady dispatcher's file is bounded by the heartbeats
\* it missed, and the doctor does not forget it.
THEOREM SteadyInvariant == ASSUME Calibrated PROVE Spec => []SteadyInv
<1>1. SteadyInv /\ [Next]_vars => SteadyInv'
  BY SteadyNext
<1>2. QED
  BY <1>1, SteadyInit, PTL DEF Spec

\* No loaded dispatcher is hidden from the doctor by the heartbeats written while it reads, by up to
\* MaxMissed failed ones, or by the state of any other pid.
THEOREM SteadyIsListed == ASSUME Calibrated PROVE Spec => []SteadyListed
<1>1. SteadyInv => SteadyListed
  <2> SUFFICES ASSUME SteadyInv, doctor.pc = "done", NEW p \in Pid,
                      process[p].steady < doctor.current
               PROVE  p \in doctor.listed
    BY DEF SteadyListed
  <2>1. QED
    BY DEF SteadyInv, Remembered
<1>2. QED
  BY <1>1, SteadyInvariant, PTL

=============================================================================
