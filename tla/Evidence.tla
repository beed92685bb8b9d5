------------------------------ MODULE Evidence ------------------------------
(***************************************************************************)
(* Evidence of a delivery (delivery_evidence.py): a state command takes an *)
(* anchor in a rollout file of the task, and later calls look for the      *)
(* continue after it, line by line, while Desktop appends to the file,     *)
(* archives the task or starts another file.                               *)
(*                                                                         *)
(* A file is a sequence of pieces.  A record is written as one piece, or,  *)
(* torn, as a head and later a tail; offsets count pieces.                 *)
(***************************************************************************)
EXTENDS Naturals, Sequences, FiniteSets, FiniteSetsExt

CONSTANTS
    Path,           \* rollout files of the task
    FirstPath,      \* the one that exists from the start
    Record,         \* records Desktop may write
    Turn, NULL,
    ScanLimit,      \* _MAX_ROLLOUT_SCAN_BYTES, in pieces
    ContextTail,    \* _CONTEXT_TAIL_BYTES, in pieces
    MaxPieces       \* bounds the files together

VARIABLES
    file,       \* where each file is, and its pieces
    newer,      \* <<p, q>>: file p was modified after file q
    current,    \* the file Desktop appends to
    anchor,     \* the persisted anchor
    call        \* the evidence call under way, or the result of the last one

vars == <<file, newer, current, anchor, call>>
desktopVars == <<file, newer, current>>

\* What the code can tell of a JSON line.  kind: a user message, the output of
\* codex_app's send_message_to_thread, or anything else; exact: its text, or the
\* delegation's, is exactly `continue`; thread: the task a delegation came from;
\* big: longer than _MAX_ROLLOUT_LINE_BYTES.
RecordType == [type   : {"response_item", "event_msg", "other"},
               kind   : {"user", "delegation", "other"},
               exact  : BOOLEAN,
               thread : {"own", "another"},
               turn   : Turn \cup {NULL},
               big    : BOOLEAN]

ASSUME EvidenceAssumption ==
    /\ FirstPath \in Path
    /\ Record \subseteq RecordType
    /\ NULL \notin Turn
    /\ {ScanLimit, ContextTail, MaxPieces} \subseteq Nat

Outcome == {"found", "absent", "claim", "anchored", "thread_archived", "rollout_not_found",
            "rollout_unavailable", "rollout_truncated", "rollout_unreadable",
            "rollout_scan_limit", "turn_context_unavailable"}

\* listed: the files capture has found; pos, scanned: the open handle.  start (pieces
\* when the scan began) and met (what happened during the call) are history.
Call == [pc      : {"sessions", "archived_sessions", "stat", "validate", "open", "scan",
                    "context", "done"},
         op      : {"capture", "claim", "observe"},
         listed  : SUBSET Path,
         pos     : Nat,
         scanned : Nat,
         outcome : Outcome,
         turn    : Turn \cup {NULL},
         start   : Nat,
         met     : SUBSET {"archived", "created"}]

TypeOK ==
    /\ file \in [Path -> [where  : {"none", "sessions", "archived_sessions", "deleted"},
                          pieces : Seq([rec : Record, part : {"whole", "head", "tail"}])]]
    /\ newer \subseteq Path \X Path
    /\ current \in Path
    /\ anchor \in [path : Path, offset : Nat] \cup {NULL}
    /\ call \in Call

Size(p) == Len(file[p].pieces)
In(where) == {p \in Path : file[p].where = where}

-----------------------------------------------------------------------------
(* Desktop. *)

Torn(p) == Size(p) > 0 /\ file[p].pieces[Size(p)].part = "head"

\* What the call under way lives through.
Meets(event) == call' = [call EXCEPT !.met = IF call.pc = "done" THEN @ ELSE @ \cup {event}]

Touch(p) == newer' = {pair \in newer : pair[2] # p} \cup {<<p, q>> : q \in Path \ {p}}

Writes(rec, part) ==
    /\ current \in In("sessions")
    /\ MapThenSumSet(Size, Path) < MaxPieces
    /\ file' = [file EXCEPT ![current].pieces = Append(@, [rec |-> rec, part |-> part])]
    /\ Touch(current)
    /\ UNCHANGED <<current, anchor, call>>

Appends(rec) == ~Torn(current) /\ \E part \in {"whole", "head"} : Writes(rec, part)

Completes == Torn(current) /\ Writes(file[current].pieces[Size(current)].rec, "tail")

\* The task goes on in a new rollout file.
StartsFile(p) ==
    /\ p \in In("none") /\ current \in In("sessions")
    /\ file' = [file EXCEPT ![p].where = "sessions"]
    /\ Touch(p)
    /\ current' = p
    /\ Meets("created")
    /\ UNCHANGED anchor

Moves(from, to) ==
    /\ In(from) # {}
    /\ file' = [p \in Path |-> [file[p] EXCEPT !.where = IF @ = from THEN to ELSE @]]
    /\ Meets("archived")
    /\ UNCHANGED <<newer, current, anchor>>

Archives == Moves("sessions", "archived_sessions")
Unarchives == Moves("archived_sessions", "sessions")

\* A file is removed for good; who has it open reads on.
Deletes(p) ==
    /\ p \in In("sessions")
    /\ file' = [file EXCEPT ![p].where = "deleted"]
    /\ UNCHANGED <<newer, current, anchor, call>>

\* The end of the file is lost, between two calls.
Truncates ==
    /\ call.pc = "done" /\ Size(current) > 0
    /\ \E n \in 0..(Size(current) - 1) :
         /\ n > 0 => file[current].pieces[n].part # "head"
         /\ file' = [file EXCEPT ![current].pieces = SubSeq(@, 1, n)]
    /\ Touch(current)
    /\ UNCHANGED <<current, anchor, call>>

-----------------------------------------------------------------------------
(* What is recognised in a file. *)

\* A line that parses: all of a record, with its newline when torn.
Whole(pieces, i) ==
    \/ pieces[i].part = "whole"
    \/ pieces[i].part = "head" /\ i < Len(pieces)

\* Mutant: anybody's delegation counts.
MutObservedContinue(rec) ==
    IF rec.type # "other" /\ rec.exact /\ rec.kind # "other" THEN rec.turn ELSE NULL

\* _observed_continue: the turn of the continue a record shows, if it shows one.
ObservedContinue(rec) ==
    IF /\ rec.type # "other" /\ rec.exact
       /\ rec.kind = "user" \/ (rec.kind = "delegation" /\ rec.thread = "own")
    THEN rec.turn
    ELSE NULL

\* Mutant: the newest turn of the file.
MutContextTurns(p, offset) ==
    {i \in 1..Size(p) : Whole(file[p].pieces, i) /\ file[p].pieces[i].rec.turn # NULL}

\* context_turn_id: the lines of the last ContextTail pieces before the offset that
\* carry a turn; a window that does not start the file begins after its first newline.
ContextTurns(p, offset) ==
    LET read == SubSeq(file[p].pieces, 1, offset)
        start == IF offset > ContextTail THEN offset - ContextTail ELSE 0
        newlines == {i \in (start + 1)..Len(read) : read[i].part # "head"}
        first == IF start = 0 THEN 1
                 ELSE IF newlines = {} THEN offset + 1 ELSE 1 + Min(newlines)
    IN  {i \in first..Len(read) : Whole(read, i) /\ read[i].rec.turn # NULL}

-----------------------------------------------------------------------------
(* The calls. *)

Goes(pc) == call' = [call EXCEPT !.pc = pc]

Returns(outcome, turn) ==
    call' = [call EXCEPT !.pc = "done", !.outcome = outcome, !.turn = turn, !.listed = {},
                         !.pos = 0, !.scanned = 0, !.start = 0, !.met = {}]

Raises(category) == Returns(category, NULL)

\* A command calls again and again, with the anchor once there is one.
Begins(op) ==
    /\ call.pc = "done"
    /\ op = "capture" <=> anchor = NULL
    /\ call' = [call EXCEPT !.pc = IF op = "capture" THEN "sessions" ELSE "validate",
                            !.op = op, !.outcome = "absent", !.turn = NULL,
                            !.met = IF In("archived_sessions") = {} THEN {} ELSE {"archived"}]
    /\ UNCHANGED <<desktopVars, anchor>>

\* capture_rollout_anchor searches sessions first ...
ListSessions ==
    /\ call.pc = "sessions"
    /\ call' = [call EXCEPT !.pc = IF In("sessions") = {} THEN "archived_sessions" ELSE "stat",
                            !.listed = In("sessions")]
    /\ UNCHANGED <<desktopVars, anchor>>

\* ... then archived_sessions, which validation searches too.
ListArchived ==
    /\ call.pc = "archived_sessions"
    /\ Raises(IF In("archived_sessions") # {} THEN "thread_archived"
              ELSE IF call.op = "capture" THEN "rollout_not_found" ELSE "rollout_unavailable")
    /\ UNCHANGED <<desktopVars, anchor>>

\* max by _mtime_ns; a file that is gone counts as the oldest.
Newest(paths) == {p \in paths : \A q \in paths : <<q, p>> \notin newer}

\* Mutant: the path alone is persisted.
MutStat ==
    LET there == call.listed \cap In("sessions") IN
    /\ call.pc = "stat"
    /\ IF there = {} THEN Raises("rollout_unavailable") /\ UNCHANGED anchor
       ELSE \E p \in Newest(there) :
              anchor' = [path |-> p, offset |-> NULL] /\ Returns("anchored", NULL)
    /\ UNCHANGED desktopVars

Stat ==
    LET there == call.listed \cap In("sessions") IN
    /\ call.pc = "stat"
    /\ IF there = {} THEN Raises("rollout_unavailable") /\ UNCHANGED anchor
       ELSE \E p \in Newest(there) :
              anchor' = [path |-> p, offset |-> Size(p)] /\ Returns("anchored", NULL)
    /\ UNCHANGED desktopVars

AnchorThere == anchor.path \in In("sessions")

\* validate_rollout_anchor
Validate ==
    /\ call.pc = "validate"
    /\ Goes(IF AnchorThere THEN "open" ELSE "archived_sessions")
    /\ UNCHANGED <<desktopVars, anchor>>

\* find_continue_after, as far as the seek
Open ==
    /\ call.pc = "open"
    /\ IF ~AnchorThere THEN Raises("rollout_unavailable")
       ELSE IF Size(anchor.path) < anchor.offset THEN Raises("rollout_truncated")
       ELSE call' = [call EXCEPT !.pc = "scan", !.pos = anchor.offset,
                                 !.start = Size(anchor.path)]
    /\ UNCHANGED <<desktopVars, anchor>>

\* Mutant: a scan that reaches its limit has found nothing.
MutScanEnds ==
    /\ call.pc = "scan"
    /\ call.scanned > ScanLimit \/ call.pos = Size(anchor.path)
    /\ IF call.op = "claim" THEN Goes("context") ELSE Raises("absent")
    /\ UNCHANGED <<desktopVars, anchor>>

\* The limit is looked at first, then the end of the file.
ScanEnds ==
    /\ call.pc = "scan"
    /\ \/ call.scanned > ScanLimit /\ Raises("rollout_scan_limit")
       \/ /\ call.scanned <= ScanLimit /\ call.pos = Size(anchor.path)
          /\ IF call.op = "claim" THEN Goes("context") ELSE Raises("absent")
    /\ UNCHANGED <<desktopVars, anchor>>

\* readline.  At the end of a torn record it returns what there is, which does not
\* parse, nor does the rest later.  An opened file is read on when it is moved.
ReadLine ==
    LET pieces == file[anchor.path].pieces
        i == call.pos + 1
        n == IF pieces[i].part = "head" /\ i < Len(pieces) THEN 2 ELSE 1
        turn == ObservedContinue(pieces[i].rec)
    IN
    /\ call.pc = "scan" /\ call.scanned <= ScanLimit /\ call.pos < Len(pieces)
    /\ \/ pieces[i].rec.big /\ Raises("rollout_unreadable")
       \/ /\ ~pieces[i].rec.big \/ ~Whole(pieces, i)
          /\ IF Whole(pieces, i) /\ turn # NULL THEN Returns("found", turn)
             ELSE call' = [call EXCEPT !.pos = @ + n, !.scanned = @ + n]
    /\ UNCHANGED <<desktopVars, anchor>>

ReadContext ==
    LET turns == ContextTurns(anchor.path, anchor.offset) IN
    /\ call.pc = "context"
    /\ IF ~AnchorThere THEN Raises("rollout_unavailable")
       ELSE IF turns = {} THEN Raises("turn_context_unavailable")
       ELSE Returns("claim", file[anchor.path].pieces[Max(turns)].rec.turn)
    /\ UNCHANGED <<desktopVars, anchor>>

-----------------------------------------------------------------------------

Init ==
    /\ file = [p \in Path |-> [where |-> IF p = FirstPath THEN "sessions" ELSE "none",
                               pieces |-> <<>>]]
    /\ newer = {<<FirstPath, q>> : q \in Path \ {FirstPath}}
    /\ current = FirstPath
    /\ anchor = NULL
    /\ call = [pc |-> "done", op |-> "capture", listed |-> {}, pos |-> 0, scanned |-> 0,
               outcome |-> "rollout_not_found", turn |-> NULL, start |-> 0, met |-> {}]

Desktop ==
    \/ \E rec \in Record : Appends(rec)
    \/ Completes
    \/ \E p \in Path : StartsFile(p) \/ Deletes(p)
    \/ Archives \/ Unarchives \/ Truncates

Command ==
    \/ \E op \in {"capture", "claim", "observe"} : Begins(op)
    \/ ListSessions \/ ListArchived \/ Stat
    \/ Validate \/ Open \/ ScanEnds \/ ReadLine \/ ReadContext

Next == Desktop \/ Command

Spec == Init /\ [][Next]_vars

-----------------------------------------------------------------------------
(* Safety. *)

\* A step by which the call under way returns one of S.
Ends(S) == call.pc # "done" /\ call'.pc = "done" /\ call'.outcome \in S

\* The pieces at which a whole record of the anchored file, among its first n
\* pieces, is this task's exact continue and begins after the anchor.
Continues(n) ==
    LET pieces == SubSeq(file[anchor.path].pieces, 1, n) IN
    {i \in (anchor.offset + 1)..Len(pieces) :
        /\ Whole(pieces, i)
        /\ pieces[i].rec.exact /\ pieces[i].rec.turn # NULL
        /\ pieces[i].rec.type \in {"response_item", "event_msg"}
        /\ \/ pieces[i].rec.kind = "user"
           \/ pieces[i].rec.kind = "delegation" /\ pieces[i].rec.thread = "own"}

TurnAt(i) == file[anchor.path].pieces[i].rec.turn

\* The two answers that end a delivery are so.  README: "accepts success only after
\* observing an exact new `continue` after that offset and recording the resulting turn
\* ID": the first one whenever one was whole when the scan began; only a record completed
\* meanwhile can be read over.  And the breaker is opened only for a task that was
\* archived while the call looked: a file that is merely missing is tried again.
FinalAnswersTrue ==
    [][/\ Ends({"found"}) =>
            LET seen == Continues(call.start) IN
            IF seen # {} THEN call'.turn = TurnAt(Min(seen))
            ELSE \E i \in Continues(Size(anchor.path)) : call'.turn = TurnAt(i)
       /\ Ends({"thread_archived"}) => "archived" \in call.met]_vars

\* A scan that finds nothing overlooked nothing that was there when it began,
\* whatever is torn, unreadable or appended; otherwise `continue` is sent twice.
NothingOverlooked == [][Ends({"absent", "claim"}) => Continues(call.start) = {}]_vars

\* The anchor parts what was before the delivery from what it brings about.  It is taken
\* in the file Desktop writes to, unless that was removed or the task changed files during
\* the capture: in another file the continue would never be found.  And the turn a message
\* is sent from was under way before it: never that of a continue this delivery has sent.
AnchorParts ==
    [][/\ Ends({"anchored"}) /\ call.met = {} /\ current \in In("sessions") =>
            anchor'.path = current
       /\ Ends({"claim"}) => \E i \in 1..anchor.offset : TurnAt(i) = call'.turn]_vars
=============================================================================
