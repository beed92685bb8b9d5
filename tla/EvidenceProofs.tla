--------------------------- MODULE EvidenceProofs ---------------------------
(***************************************************************************)
(* Proofs about module Evidence, for any files, records and limits,        *)
(* whatever Desktop writes, tears, moves, removes or cuts off.             *)
(*                                                                         *)
(* That a scan overlooks nothing rests on where it is (Scanning): no       *)
(* continue that was whole when the scan began lies behind its position.   *)
(* A read takes two pieces at most, and the second is the rest of a torn   *)
(* record (TornRight), never a record of its own; and what Desktop does    *)
(* meanwhile leaves the pieces the scan began with as they were.           *)
(***************************************************************************)
EXTENDS Evidence, SequenceTheorems, WellFoundedInduction, TLAPS

-----------------------------------------------------------------------------
(* The inductive invariant. *)

Piece == [rec : Record, part : {"whole", "head", "tail"}]

\* The file Desktop writes to was modified after every other.
Order == \A p \in Path : <<p, current>> \notin newer /\ (p # current => <<current, p>> \in newer)

\* A torn record is completed before another is written.
TornRight ==
    \A p \in Path : \A i \in 1..Size(p) :
        file[p].pieces[i].part = "head" /\ i < Size(p) => file[p].pieces[i + 1].part = "tail"

\* The continues of pieces s after the offset, seen when there were n pieces.
Found(s, offset, n) ==
    {i \in (offset + 1)..n :
        /\ s[i].part = "whole" \/ (s[i].part = "head" /\ i < n)
        /\ ObservedContinue(s[i].rec) # NULL}

Anchored == call.pc \in {"validate", "open", "scan", "context"} => anchor # NULL

Scanning ==
    call.pc \in {"scan", "context"} =>
        LET s == file[anchor.path].pieces
            seen == Found(s, anchor.offset, call.start)
        IN  /\ anchor.offset <= call.start /\ call.start <= Len(s)
            /\ call.pc = "scan" => anchor.offset <= call.pos /\ \A i \in seen : call.pos < i
            /\ call.pc = "context" => seen = {}

Looking ==
    /\ call.pc # "done" /\ In("archived_sessions") # {} => "archived" \in call.met
    /\ call.pc = "stat" /\ call.met = {} /\ current \in In("sessions") => current \in call.listed

IInv == TypeOK /\ Order /\ TornRight /\ Anchored /\ Scanning /\ Looking

-----------------------------------------------------------------------------
(* Smallest and largest members. *)

LEMMA MinIs ==
    ASSUME NEW S \in SUBSET Nat, S # {}
    PROVE  Min(S) \in S /\ \A y \in S : Min(S) <= y
<1>1. PICK x \in S : \A y \in S : <<y, x>> \notin OpToRel(<, Nat)
  BY NatLessThanWellFounded, WFMin, Zenon
<1>2. \A y \in S : ~ (y < x)
  BY <1>1, Zenon DEF OpToRel
<1>3. \A y \in S : x <= y
  BY <1>2
<1>4. QED
  BY <1>3 DEF Min

LEMMA MaxIs ==
    ASSUME NEW n \in Nat, NEW S \in SUBSET (1..n), S # {}
    PROVE  Max(S) \in S /\ \A y \in S : y <= Max(S)
<1> DEFINE T == {n - x : x \in S}
<1>0. \A x \in S : x \in 1..n /\ n - x \in Nat
  OBVIOUS
<1>1. T \in SUBSET Nat /\ T # {}
  BY <1>0
<1>2. Min(T) \in T /\ \A y \in T : Min(T) <= y
  BY <1>1, MinIs
<1>3. PICK x \in S : Min(T) = n - x
  BY <1>2
<1>4. \A y \in S : n - x <= n - y
  BY <1>2, <1>3
<1>5. \A y \in S : x >= y
  BY <1>4
<1>6. QED
  BY <1>5 DEF Max

-----------------------------------------------------------------------------
(* The parts of the state. *)

LEMMA Fields ==
    ASSUME TypeOK
    PROVE  /\ \A p \in Path :
                /\ file[p].where \in {"none", "sessions", "archived_sessions", "deleted"}
                /\ file[p].pieces \in Seq(Piece) /\ Size(p) \in Nat
                /\ \A i \in 1..Size(p) :
                     /\ file[p].pieces[i] \in Piece
                     /\ file[p].pieces[i].rec \in RecordType
                     /\ file[p].pieces[i].part \in {"whole", "head", "tail"}
           /\ current \in Path
           /\ anchor # NULL => anchor.path \in Path /\ anchor.offset \in Nat
           /\ call \in Call /\ call.listed \in SUBSET Path /\ call.pos \in Nat
           /\ call.scanned \in Nat /\ call.start \in Nat
           /\ call.met \in SUBSET {"archived", "created"}
<1>1. ASSUME NEW p \in Path
      PROVE  /\ file[p].where \in {"none", "sessions", "archived_sessions", "deleted"}
             /\ file[p].pieces \in Seq(Piece) /\ Size(p) \in Nat
             /\ \A i \in 1..Size(p) : file[p].pieces[i] \in Piece
  <2>1. /\ file[p].where \in {"none", "sessions", "archived_sessions", "deleted"}
        /\ file[p].pieces \in Seq(Piece)
    BY DEF TypeOK, Piece
  <2>2. \A i \in 1..Len(file[p].pieces) : file[p].pieces[i] \in Piece
    BY <2>1, ElementOfSeq
  <2>3. \A s \in Seq(Piece) : Len(s) \in Nat
    OBVIOUS
  <2>4. QED
    BY <2>1, <2>2, <2>3 DEF Size
<1>2. \A x \in Piece : x.rec \in RecordType /\ x.part \in {"whole", "head", "tail"}
  BY EvidenceAssumption DEF Piece
<1>3. call \in Call /\ current \in Path
  BY DEF TypeOK
<1>4. /\ call.listed \in SUBSET Path /\ call.pos \in Nat
      /\ call.scanned \in Nat /\ call.start \in Nat
      /\ call.met \in SUBSET {"archived", "created"}
  BY <1>3 DEF Call
<1>5. anchor # NULL => anchor.path \in Path /\ anchor.offset \in Nat
  BY DEF TypeOK
<1>6. QED
  BY <1>1, <1>2, <1>3, <1>4, <1>5

\* What a record shows is what the properties call the task's exact continue.
LEMMA ObservedIs ==
    ASSUME NEW rec \in RecordType
    PROVE  /\ ObservedContinue(rec) # NULL <=>
                /\ rec.exact /\ rec.turn # NULL
                /\ rec.type \in {"response_item", "event_msg"}
                /\ rec.kind = "user" \/ (rec.kind = "delegation" /\ rec.thread = "own")
           /\ ObservedContinue(rec) # NULL => ObservedContinue(rec) = rec.turn /\ rec.turn \in Turn
BY EvidenceAssumption DEF RecordType, ObservedContinue

\* The continues of the anchored file, seen when it had n pieces.
LEMMA ContinuesAre ==
    ASSUME TypeOK, anchor # NULL, NEW n \in 0..Size(anchor.path)
    PROVE  Continues(n) = Found(file[anchor.path].pieces, anchor.offset, n)
<1> DEFINE s == file[anchor.path].pieces
           read == SubSeq(s, 1, n)
<1>1. /\ anchor.path \in Path /\ anchor.offset \in Nat /\ n \in Nat /\ n <= Len(s)
      /\ Len(s) \in Nat
      /\ \A i \in 1..Len(s) : s[i] \in Piece /\ s[i].rec \in RecordType
  BY Fields DEF Size
<1>2. 1 \in Int /\ n \in Int /\ \A i \in 1..n : s[i] \in Piece
  BY <1>1
<1> HIDE DEF s
<1>3. /\ Len(read) = IF 1 <= n THEN n - 1 + 1 ELSE 0
      /\ \A i \in 1..n - 1 + 1 : read[i] = s[1 + i - 1]
  BY <1>2, SubSeqProperties
<1>4. Len(read) = n /\ \A i \in 1..n : read[i] = s[i]
  <2>1. Len(read) = n
    BY <1>1, <1>3
  <2>2. \A i \in 1..n : i \in 1..n - 1 + 1 /\ 1 + i - 1 = i
    BY <1>1
  <2>3. QED
    BY <1>3, <2>1, <2>2
<1> HIDE DEF read
<1>5. ASSUME NEW i \in (anchor.offset + 1)..n
      PROVE  (/\ Whole(read, i)
              /\ read[i].rec.exact /\ read[i].rec.turn # NULL
              /\ read[i].rec.type \in {"response_item", "event_msg"}
              /\ \/ read[i].rec.kind = "user"
                 \/ read[i].rec.kind = "delegation" /\ read[i].rec.thread = "own")
             <=> /\ s[i].part = "whole" \/ (s[i].part = "head" /\ i < n)
                 /\ ObservedContinue(s[i].rec) # NULL
  <2>1. i \in 1..n /\ i \in 1..Len(s)
    BY <1>1
  <2>2. read[i] = s[i] /\ s[i].rec \in RecordType
    BY <1>1, <1>4, <2>1
  <2>3. QED
    BY <1>4, <2>2, ObservedIs DEF Whole
<1>6. Continues(n) = {i \in (anchor.offset + 1)..Len(read) :
        /\ Whole(read, i)
        /\ read[i].rec.exact /\ read[i].rec.turn # NULL
        /\ read[i].rec.type \in {"response_item", "event_msg"}
        /\ \/ read[i].rec.kind = "user"
           \/ read[i].rec.kind = "delegation" /\ read[i].rec.thread = "own"}
  BY DEF Continues, read, s
<1>7. Continues(n) = Found(s, anchor.offset, n)
  BY <1>4, <1>5, <1>6 DEF Found
<1>8. QED
  BY <1>7 DEF s

-----------------------------------------------------------------------------
(* Desktop's steps. *)

Files == [Path -> [where : {"none", "sessions", "archived_sessions", "deleted"},
                   pieces : Seq(Piece)]]

Anchors == [path : Path, offset : Nat] \cup {NULL}

LEMMA TypeIs ==
    TypeOK <=> /\ file \in Files /\ newer \subseteq Path \X Path /\ current \in Path
               /\ anchor \in Anchors /\ call \in Call
BY DEF TypeOK, Files, Piece, Anchors

LEMMA InvInit == Init => IInv
<1> SUFFICES ASSUME Init PROVE IInv
  OBVIOUS
<1>1. /\ call = [pc |-> "done", op |-> "capture", listed |-> {}, pos |-> 0, scanned |-> 0,
                 outcome |-> "rollout_not_found", turn |-> NULL, start |-> 0, met |-> {}]
      /\ file = [p \in Path |-> [where |-> IF p = FirstPath THEN "sessions" ELSE "none",
                                 pieces |-> <<>>]]
      /\ newer = {<<FirstPath, q>> : q \in Path \ {FirstPath}}
      /\ current = FirstPath /\ anchor = NULL
  BY DEF Init
<1>2. TypeOK
  <2>1. call \in Call
    BY <1>1 DEF Call, Outcome
  <2>2. <<>> \in Seq(Piece)
    OBVIOUS
  <2>3. file \in Files
    BY <1>1, <2>2 DEF Files
  <2>4. newer \subseteq Path \X Path /\ current \in Path /\ anchor \in Anchors
    <3>1. FirstPath \in Path
      BY EvidenceAssumption
    <3>2. newer \subseteq Path \X Path
      BY <1>1, <3>1
    <3>3. QED
      BY <1>1, <3>1, <3>2 DEF Anchors
  <2>5. QED
    BY <2>1, <2>3, <2>4, TypeIs
<1>3. Order
  BY <1>1 DEF Order
<1>4. TornRight
  BY <1>1 DEF TornRight, Size
<1>5. Anchored /\ Scanning /\ Looking
  BY <1>1 DEF Anchored, Scanning, Looking
<1>6. QED
  BY <1>2, <1>3, <1>4, <1>5 DEF IInv

\* A touched file is the newest.
LEMMA TouchKeeps ==
    ASSUME newer \subseteq Path \X Path, NEW p \in Path, Touch(p), current' = p
    PROVE  newer' \subseteq Path \X Path /\ Order'
<1>1. newer' = {pair \in newer : pair[2] # p} \cup {<<p, q>> : q \in Path \ {p}}
  BY DEF Touch
<1>2. newer' \subseteq Path \X Path
  BY <1>1
<1>3. \A q \in Path : <<q, p>> \notin newer' /\ (q # p => <<p, q>> \in newer')
  BY <1>1
<1>4. Order'
  BY <1>3 DEF Order
<1>5. QED
  BY <1>2, <1>4

\* A scan goes on as it was while files only grow.
LEMMA ScanStays ==
    ASSUME TypeOK, Anchored, Scanning, anchor' = anchor,
           call'.pc = call.pc, call'.pos = call.pos, call'.start = call.start,
           \A p \in Path : /\ Len(file[p].pieces) <= Len(file'[p].pieces)
                           /\ Len(file'[p].pieces) \in Nat
                           /\ \A i \in 1..Len(file[p].pieces) :
                                file'[p].pieces[i] = file[p].pieces[i]
    PROVE  Anchored' /\ Scanning'
<1>1. Anchored'
  BY DEF Anchored
<1>2. CASE call.pc \in {"scan", "context"}
  <2> DEFINE s == file[anchor.path].pieces
             t == file'[anchor.path].pieces
  <2>1. /\ anchor # NULL /\ anchor.path \in Path /\ anchor.offset \in Nat
        /\ call.start \in Nat /\ Len(s) \in Nat
    BY <1>2, Fields DEF Anchored, Size
  <2>2. /\ anchor.offset <= call.start /\ call.start <= Len(s) /\ Len(s) <= Len(t)
        /\ Len(t) \in Nat /\ \A i \in 1..Len(s) : t[i] = s[i]
    BY <1>2, <2>1 DEF Scanning
  <2> HIDE DEF s, t
  <2>3. \A i \in 1..call.start : t[i] = s[i]
    BY <2>1, <2>2
  <2>4. Found(t, anchor.offset, call.start) = Found(s, anchor.offset, call.start)
    BY <2>1, <2>3 DEF Found
  <2>5. QED
    BY <1>1, <1>2, <2>1, <2>2, <2>4 DEF Scanning, s, t
<1>3. CASE call.pc \notin {"scan", "context"}
  BY <1>1, <1>3 DEF Scanning
<1>4. QED
  BY <1>2, <1>3

\* A piece is written.
LEMMA WritesKeeps ==
    ASSUME IInv, NEW rec \in Record, NEW part \in {"whole", "head", "tail"}, Writes(rec, part),
           Torn(current) => part = "tail"
    PROVE  IInv'
<1> DEFINE s == file[current].pieces
           x == [rec |-> rec, part |-> part]
<1>1. TypeOK /\ s \in Seq(Piece) /\ x \in Piece /\ current \in Path /\ file \in Files
  BY Fields, TypeIs DEF IInv, Piece
<1>2. /\ file' = [file EXCEPT ![current].pieces = Append(s, x)]
      /\ Touch(current) /\ UNCHANGED <<current, anchor, call>>
  BY <1>1 DEF Writes, Files
<1> DEFINE t == Append(s, x)
<1>3. /\ t \in Seq(Piece) /\ Len(t) = Len(s) + 1 /\ Len(s) \in Nat
      /\ \A i \in 1..Len(s) : t[i] = s[i]
      /\ t[Len(s) + 1] = x
  <2>1. /\ t \in Seq(Piece) /\ Len(t) = Len(s) + 1
        /\ \A i \in 1..Len(s) : t[i] = s[i]
        /\ t[Len(s) + 1] = x
    BY <1>1, AppendProperties
  <2>2. \A q \in Seq(Piece) : Len(q) \in Nat
    OBVIOUS
  <2>3. QED
    BY <1>1, <2>1, <2>2
<1>4. x.part = part
  OBVIOUS
<1>5. Torn(current) <=> Len(s) > 0 /\ s[Len(s)].part = "head"
  BY DEF Torn, Size
<1> HIDE DEF t, x
<1>6. file' = [file EXCEPT ![current].pieces = t]
  BY <1>2 DEF t
<1>7. /\ file' \in Files /\ file'[current].pieces = t
      /\ \A p \in Path : file'[p].where = file[p].where
      /\ \A p \in Path \ {current} : file'[p].pieces = file[p].pieces
  BY <1>1, <1>3, <1>6 DEF Files
<1>8. newer' \subseteq Path \X Path /\ Order'
  BY <1>1, <1>2, TouchKeeps, TypeIs
<1>9. TypeOK'
  BY <1>1, <1>2, <1>7, <1>8, TypeIs DEF TypeOK, Files, Piece
<1>10. TornRight'
  <2>1. ASSUME NEW p \in Path, NEW i \in 1..Len(file'[p].pieces),
               file'[p].pieces[i].part = "head", i < Len(file'[p].pieces)
        PROVE  file'[p].pieces[i + 1].part = "tail"
    <3>1. CASE p # current
      BY <1>7, <2>1, <3>1 DEF IInv, TornRight, Size
    <3>2. CASE p = current /\ i < Len(s)
      <4>1. i \in 1..Len(s) /\ i + 1 \in 1..Len(s) /\ t[i].part = "head"
        BY <1>3, <1>7, <2>1, <3>2
      <4>2. s[i].part = "head" /\ t[i + 1] = s[i + 1]
        BY <1>3, <4>1
      <4>3. s[i + 1].part = "tail"
        BY <1>1, <3>2, <4>1, <4>2 DEF IInv, TornRight, Size
      <4>4. QED
        BY <1>7, <3>2, <4>2, <4>3
    <3>3. CASE p = current /\ i = Len(s)
      <4>1. Len(s) > 0 /\ t[i] = s[i] /\ t[i + 1] = x
        BY <1>3, <1>7, <2>1, <3>3
      <4>2. Torn(current)
        BY <1>5, <1>7, <2>1, <3>3, <4>1
      <4>3. QED
        BY <1>4, <1>7, <3>3, <4>1, <4>2
    <3>4. QED
      BY <1>3, <1>7, <2>1, <3>1, <3>2, <3>3
  <2>2. QED
    BY <2>1 DEF TornRight, Size
<1>11. Anchored' /\ Scanning'
  <2>1. ASSUME NEW p \in Path
        PROVE  /\ Len(file[p].pieces) <= Len(file'[p].pieces)
               /\ Len(file'[p].pieces) \in Nat
               /\ \A i \in 1..Len(file[p].pieces) : file'[p].pieces[i] = file[p].pieces[i]
    <3>1. Len(file[p].pieces) \in Nat
      BY <1>1, Fields DEF Size
    <3>2. CASE p = current
      BY <1>3, <1>7, <3>2
    <3>3. CASE p # current
      BY <1>7, <3>1, <3>3
    <3>4. QED
      BY <3>2, <3>3
  <2>2. QED
    BY <1>1, <1>2, <2>1, ScanStays DEF IInv
<1>12. Looking'
  BY <1>2, <1>7 DEF IInv, Looking, In
<1>13. QED
  BY <1>8, <1>9, <1>10, <1>11, <1>12 DEF IInv

LEMMA AppendsKeeps ==
    ASSUME IInv, (\E rec \in Record : Appends(rec)) \/ Completes
    PROVE  IInv'
<1>1. ASSUME NEW rec \in Record, Appends(rec) PROVE IInv'
  BY <1>1, WritesKeeps DEF Appends
<1>2. ASSUME Completes PROVE IInv'
  <2>1. TypeOK /\ current \in Path /\ Size(current) \in Nat /\ Size(current) > 0
    BY <1>2, Fields DEF IInv, Completes, Torn
  <2>2. file[current].pieces[Size(current)] \in Piece
    BY <2>1, Fields
  <2>3. file[current].pieces[Size(current)].rec \in Record
    BY <2>2 DEF Piece
  <2>4. QED
    BY <1>2, <2>3, WritesKeeps DEF Completes
<1>3. QED
  BY <1>1, <1>2

\* Files change their places, and nothing is written.
LEMMA PiecesStay ==
    ASSUME IInv, file' \in Files, anchor' = anchor,
           \A p \in Path : file'[p].pieces = file[p].pieces,
           call'.pc = call.pc, call'.pos = call.pos, call'.start = call.start
    PROVE  TornRight' /\ Anchored' /\ Scanning'
<1>1. TornRight'
  BY DEF IInv, TornRight, Size
<1>2. \A p \in Path : Len(file[p].pieces) \in Nat
  BY Fields DEF IInv, Size
<1>3. Anchored' /\ Scanning'
  BY <1>2, ScanStays DEF IInv
<1>4. QED
  BY <1>1, <1>3

\* What the call under way lives through.
LEMMA MeetsIs ==
    ASSUME TypeOK, NEW event \in {"archived", "created"}, Meets(event)
    PROVE  /\ call' \in Call /\ call'.pc = call.pc /\ call'.pos = call.pos
           /\ call'.start = call.start /\ call'.listed = call.listed
           /\ call.pc # "done" => call'.met = call.met \cup {event}
<1>1. call \in Call /\ call.met \in SUBSET {"archived", "created"}
  BY Fields
<1> DEFINE met == IF call.pc = "done" THEN call.met ELSE call.met \cup {event}
<1>2. call' = [call EXCEPT !.met = met] /\ met \in SUBSET {"archived", "created"}
  BY <1>1 DEF Meets, Call
<1> HIDE DEF met
<1>3. call' \in Call
  BY <1>1, <1>2 DEF Call
<1>4. /\ call'.pc = call.pc /\ call'.pos = call.pos
      /\ call'.start = call.start /\ call'.listed = call.listed /\ call'.met = met
  BY <1>1, <1>2 DEF Call
<1>5. QED
  BY <1>3, <1>4 DEF met

LEMMA StartsFileKeeps ==
    ASSUME IInv, NEW p \in Path, StartsFile(p)
    PROVE  IInv'
<1>1. TypeOK /\ file \in Files
  BY TypeIs DEF IInv
<1>2. /\ file' = [file EXCEPT ![p].where = "sessions"] /\ file[p].where = "none"
      /\ Touch(p) /\ current' = p /\ Meets("created") /\ anchor' = anchor
  BY DEF StartsFile, In
<1>3. /\ file' \in Files /\ \A q \in Path : file'[q].pieces = file[q].pieces
      /\ \A q \in Path : file'[q].where = IF q = p THEN "sessions" ELSE file[q].where
  BY <1>1, <1>2 DEF Files
<1>4. newer' \subseteq Path \X Path /\ Order'
  BY <1>1, <1>2, TouchKeeps, TypeIs
<1>5. /\ call' \in Call /\ call'.pc = call.pc /\ call'.pos = call.pos
      /\ call'.start = call.start /\ call'.listed = call.listed
      /\ call.pc # "done" => call'.met = call.met \cup {"created"}
  BY <1>1, <1>2, MeetsIs
<1>6. TypeOK'
  BY <1>1, <1>2, <1>3, <1>4, <1>5 DEF TypeOK, Files, Piece
<1>7. TornRight' /\ Anchored' /\ Scanning'
  BY <1>2, <1>3, <1>5, PiecesStay
<1>8. Looking'
  BY <1>3, <1>5 DEF IInv, Looking, In
<1>9. QED
  BY <1>4, <1>6, <1>7, <1>8 DEF IInv

LEMMA MovesKeeps ==
    ASSUME IInv, Archives \/ Unarchives
    PROVE  IInv'
<1>1. TypeOK /\ file \in Files
  BY TypeIs DEF IInv
<1>2. PICK from \in {"sessions", "archived_sessions"}, to \in {"sessions", "archived_sessions"} :
        Moves(from, to)
  BY DEF Archives, Unarchives
<1>3. /\ file' = [p \in Path |-> [file[p] EXCEPT !.where = IF @ = from THEN to ELSE @]]
      /\ Meets("archived") /\ UNCHANGED <<newer, current, anchor>>
  BY <1>2 DEF Moves
<1>4. ASSUME NEW p \in Path
      PROVE  /\ file'[p] \in [where : {"none", "sessions", "archived_sessions", "deleted"},
                              pieces : Seq(Piece)]
             /\ file'[p].pieces = file[p].pieces
  BY <1>1, <1>3 DEF Files
<1>5. file' \in Files /\ \A p \in Path : file'[p].pieces = file[p].pieces
  BY <1>3, <1>4 DEF Files
<1>6. /\ call' \in Call /\ call'.pc = call.pc /\ call'.pos = call.pos
      /\ call'.start = call.start /\ call'.listed = call.listed
      /\ call.pc # "done" => call'.met = call.met \cup {"archived"}
  BY <1>1, <1>3, MeetsIs
<1>7. TypeOK'
  BY <1>1, <1>3, <1>5, <1>6 DEF TypeOK, Files, Piece
<1>8. TornRight' /\ Anchored' /\ Scanning'
  BY <1>3, <1>5, <1>6, PiecesStay
<1>9. Looking'
  BY <1>6 DEF Looking
<1>10. Order'
  BY <1>3 DEF IInv, Order
<1>11. QED
  BY <1>7, <1>8, <1>9, <1>10 DEF IInv

LEMMA DeletesKeeps ==
    ASSUME IInv, NEW p \in Path, Deletes(p)
    PROVE  IInv'
<1>1. TypeOK /\ file \in Files
  BY TypeIs DEF IInv
<1>2. /\ file' = [file EXCEPT ![p].where = "deleted"]
      /\ UNCHANGED <<newer, current, anchor, call>>
  BY DEF Deletes
<1>3. /\ file' \in Files /\ \A q \in Path : file'[q].pieces = file[q].pieces
      /\ \A q \in Path : file'[q].where = IF q = p THEN "deleted" ELSE file[q].where
  BY <1>1, <1>2 DEF Files
<1>4. TypeOK'
  BY <1>1, <1>2, <1>3 DEF TypeOK, Files, Piece
<1>5. TornRight' /\ Anchored' /\ Scanning'
  BY <1>2, <1>3, PiecesStay
<1>6. Looking' /\ Order'
  BY <1>2, <1>3 DEF IInv, Looking, In, Order
<1>7. QED
  BY <1>4, <1>5, <1>6 DEF IInv

LEMMA TruncatesKeeps ==
    ASSUME IInv, Truncates
    PROVE  IInv'
<1> DEFINE s == file[current].pieces
<1>1. /\ TypeOK /\ file \in Files /\ current \in Path /\ s \in Seq(Piece)
      /\ Size(current) = Len(s) /\ Len(s) \in Nat /\ \A i \in 1..Len(s) : s[i] \in Piece
  BY TypeIs, Fields DEF IInv, Size
<1>2. PICK n \in 0..(Size(current) - 1) : file' = [file EXCEPT ![current].pieces = SubSeq(s, 1, n)]
  BY <1>1 DEF Truncates, Files
<1>3. call.pc = "done" /\ Touch(current) /\ UNCHANGED <<current, anchor, call>>
  BY DEF Truncates
<1> DEFINE t == SubSeq(s, 1, n)
<1>4. t \in Seq(Piece) /\ Len(t) = n /\ n \in Nat /\ n <= Len(s) /\ \A i \in 1..n : t[i] = s[i]
  <2>1. n \in Nat /\ n <= Len(s) /\ 1 \in Int /\ n \in Int /\ \A i \in 1..n : s[i] \in Piece
    BY <1>1
  <2> HIDE DEF s
  <2>2. /\ SubSeq(s, 1, n) \in Seq(Piece)
        /\ Len(SubSeq(s, 1, n)) = IF 1 <= n THEN n - 1 + 1 ELSE 0
        /\ \A i \in 1..n - 1 + 1 : SubSeq(s, 1, n)[i] = s[1 + i - 1]
    BY <2>1, SubSeqProperties
  <2>3. \A i \in 1..n : i \in 1..n - 1 + 1 /\ 1 + i - 1 = i
    BY <2>1
  <2>4. QED
    BY <2>1, <2>2, <2>3
<1> HIDE DEF t
<1>5. file' = [file EXCEPT ![current].pieces = t]
  BY <1>2 DEF t
<1>6. /\ file' \in Files /\ file'[current].pieces = t
      /\ \A p \in Path \ {current} : file'[p].pieces = file[p].pieces
  BY <1>1, <1>4, <1>5 DEF Files
<1>7. newer' \subseteq Path \X Path /\ Order'
  BY <1>1, <1>3, TouchKeeps, TypeIs
<1>8. TypeOK'
  BY <1>1, <1>3, <1>6, <1>7 DEF TypeOK, Files, Piece
<1>9. TornRight'
  <2>1. ASSUME NEW p \in Path, NEW i \in 1..Len(file'[p].pieces),
               file'[p].pieces[i].part = "head", i < Len(file'[p].pieces)
        PROVE  file'[p].pieces[i + 1].part = "tail"
    <3>1. CASE p # current
      BY <1>6, <2>1, <3>1 DEF IInv, TornRight, Size
    <3>2. CASE p = current
      <4>1. /\ i \in 1..n /\ i + 1 \in 1..n /\ i \in 1..Len(s) /\ i < Len(s)
            /\ t[i].part = "head"
        BY <1>1, <1>4, <1>6, <2>1, <3>2
      <4>2. s[i].part = "head" /\ t[i + 1] = s[i + 1]
        BY <1>4, <4>1
      <4>3. s[i + 1].part = "tail"
        BY <1>1, <4>1, <4>2 DEF IInv, TornRight, Size
      <4>4. QED
        BY <1>6, <3>2, <4>2, <4>3
    <3>3. QED
      BY <3>1, <3>2
  <2>2. QED
    BY <2>1 DEF TornRight, Size
<1>10. Anchored' /\ Scanning' /\ Looking'
  BY <1>3 DEF Anchored, Scanning, Looking
<1>11. QED
  BY <1>7, <1>8, <1>9, <1>10 DEF IInv

-----------------------------------------------------------------------------
(* The calls. *)

\* A call returns.
LEMMA ReturnsKeeps ==
    ASSUME IInv, NEW outcome \in Outcome, NEW turn \in Turn \cup {NULL}, Returns(outcome, turn),
           UNCHANGED desktopVars, anchor' \in Anchors
    PROVE  IInv'
<1>1. TypeOK /\ call \in Call
  BY DEF IInv, TypeOK
<1>2. /\ call' = [call EXCEPT !.pc = "done", !.outcome = outcome, !.turn = turn, !.listed = {},
                              !.pos = 0, !.scanned = 0, !.start = 0, !.met = {}]
      /\ UNCHANGED <<file, newer, current>>
  BY DEF Returns, desktopVars
<1>3. call' \in Call /\ call'.pc = "done"
  BY <1>1, <1>2 DEF Call
<1>4. TypeOK'
  BY <1>1, <1>2, <1>3 DEF TypeOK, Anchors
<1>5. Order' /\ TornRight'
  BY <1>2 DEF IInv, Order, TornRight, Size
<1>6. Anchored' /\ Scanning' /\ Looking'
  BY <1>3 DEF Anchored, Scanning, Looking
<1>7. QED
  BY <1>4, <1>5, <1>6 DEF IInv

\* A call goes on, Desktop's files and the anchor as they were.
LEMMA GoesOn ==
    ASSUME IInv, UNCHANGED desktopVars, anchor' = anchor, call' \in Call,
           call'.met = call.met, call.pc # "done", Anchored', Scanning',
           call'.pc = "stat" /\ current \in In("sessions") => current \in call'.listed
    PROVE  IInv'
<1>1. UNCHANGED <<file, newer, current>>
  BY DEF desktopVars
<1>2. TypeOK'
  BY <1>1 DEF IInv, TypeOK
<1>3. Order' /\ TornRight'
  BY <1>1 DEF IInv, Order, TornRight, Size
<1>4. Looking'
  BY <1>1 DEF IInv, Looking, In
<1>5. QED
  BY <1>2, <1>3, <1>4 DEF IInv

LEMMA BeginsKeeps ==
    ASSUME IInv, NEW op \in {"capture", "claim", "observe"}, Begins(op)
    PROVE  IInv'
<1> DEFINE met == IF In("archived_sessions") = {} THEN {} ELSE {"archived"}
           pc == IF op = "capture" THEN "sessions" ELSE "validate"
<1>1. TypeOK /\ call \in Call /\ met \in SUBSET {"archived", "created"}
      /\ pc \in {"sessions", "validate"}
  BY DEF IInv, TypeOK
<1>2. /\ call.pc = "done" /\ (op = "capture" <=> anchor = NULL)
      /\ call' = [call EXCEPT !.pc = pc, !.op = op, !.outcome = "absent", !.turn = NULL,
                              !.met = met]
      /\ UNCHANGED <<file, newer, current, anchor>>
  BY DEF Begins, desktopVars
<1>3. In("archived_sessions") # {} => "archived" \in met
  OBVIOUS
<1>4. pc = "validate" => op # "capture"
  OBVIOUS
<1> HIDE DEF met, pc
<1>5. call' \in Call /\ call'.pc = pc /\ call'.met = met
  BY <1>1, <1>2 DEF Call, Outcome
<1>6. TypeOK' /\ Order' /\ TornRight'
  BY <1>2, <1>5 DEF IInv, TypeOK, Order, TornRight, Size
<1>7. Anchored' /\ Scanning'
  BY <1>1, <1>2, <1>4, <1>5 DEF Anchored, Scanning
<1>8. Looking'
  BY <1>1, <1>2, <1>3, <1>5 DEF Looking, In
<1>9. QED
  BY <1>6, <1>7, <1>8 DEF IInv

LEMMA ListSessionsKeeps ==
    ASSUME IInv, ListSessions
    PROVE  IInv'
<1> DEFINE pc == IF In("sessions") = {} THEN "archived_sessions" ELSE "stat"
<1>1. /\ call.pc = "sessions" /\ UNCHANGED <<desktopVars, anchor>>
      /\ call' = [call EXCEPT !.pc = pc, !.listed = In("sessions")]
  BY DEF ListSessions
<1>2. call \in Call /\ In("sessions") \in SUBSET Path /\ pc \in {"archived_sessions", "stat"}
  BY DEF IInv, TypeOK, In
<1> HIDE DEF pc
<1>3. /\ call' \in Call /\ call'.pc = pc /\ call'.listed = In("sessions")
      /\ call'.met = call.met
  BY <1>1, <1>2 DEF Call
<1>4. Anchored' /\ Scanning'
  BY <1>2, <1>3 DEF Anchored, Scanning
<1>5. QED
  BY <1>1, <1>3, <1>4, GoesOn

LEMMA ListArchivedKeeps ==
    ASSUME IInv, ListArchived
    PROVE  IInv'
<1>1. UNCHANGED desktopVars /\ anchor' = anchor /\ anchor' \in Anchors
  BY DEF ListArchived, IInv, TypeOK, Anchors
<1>2. PICK category \in Outcome : Returns(category, NULL)
  BY DEF ListArchived, Raises, Outcome
<1>3. QED
  BY <1>1, <1>2, ReturnsKeeps

LEMMA StatKeeps ==
    ASSUME IInv, Stat
    PROVE  IInv'
<1> DEFINE there == call.listed \cap In("sessions")
<1>1. UNCHANGED desktopVars /\ TypeOK
  BY DEF Stat, IInv
<1>2. CASE there = {}
  <2>1. Returns("rollout_unavailable", NULL) /\ anchor' = anchor
    BY <1>2 DEF Stat, Raises
  <2>2. anchor' \in Anchors /\ "rollout_unavailable" \in Outcome
    BY <1>1, <2>1 DEF TypeOK, Anchors, Outcome
  <2>3. QED
    BY <1>1, <2>1, <2>2, ReturnsKeeps
<1>3. CASE there # {}
  <2>1. PICK p \in Newest(there) :
          anchor' = [path |-> p, offset |-> Size(p)] /\ Returns("anchored", NULL)
    BY <1>3 DEF Stat
  <2>2. p \in Path /\ Size(p) \in Nat
    BY <1>1, Fields DEF Newest, In
  <2>3. anchor' \in Anchors /\ "anchored" \in Outcome
    BY <2>1, <2>2 DEF Anchors, Outcome
  <2>4. QED
    BY <1>1, <2>1, <2>3, ReturnsKeeps
<1>4. QED
  BY <1>2, <1>3

LEMMA ValidateKeeps ==
    ASSUME IInv, Validate
    PROVE  IInv'
<1>1. call.pc = "validate" /\ UNCHANGED <<desktopVars, anchor>> /\ anchor # NULL /\ call \in Call
  BY DEF Validate, IInv, Anchored, TypeOK
<1>2. PICK pc \in {"open", "archived_sessions"} : call' = [call EXCEPT !.pc = pc]
  BY DEF Validate, Goes
<1>3. call' \in Call /\ call'.pc = pc /\ call'.met = call.met
  BY <1>1, <1>2 DEF Call
<1>4. Anchored' /\ Scanning'
  BY <1>1, <1>3 DEF Anchored, Scanning
<1>5. QED
  BY <1>1, <1>3, <1>4, GoesOn

LEMMA OpenKeeps ==
    ASSUME IInv, Open
    PROVE  IInv'
<1>1. /\ call.pc = "open" /\ UNCHANGED desktopVars /\ anchor' = anchor /\ anchor # NULL
      /\ TypeOK /\ anchor \in Anchors
  BY DEF Open, IInv, Anchored, TypeOK, Anchors
<1>2. CASE ~(AnchorThere /\ Size(anchor.path) >= anchor.offset)
  <2>1. /\ anchor.path \in Path /\ anchor.offset \in Nat /\ Size(anchor.path) \in Nat
    BY <1>1, Fields
  <2>2. PICK category \in Outcome : Returns(category, NULL)
    BY <1>2, <2>1 DEF Open, Raises, Outcome
  <2>3. QED
    BY <1>1, <2>2, ReturnsKeeps
<1>3. CASE AnchorThere /\ Size(anchor.path) >= anchor.offset
  <2>1. /\ anchor.path \in Path /\ anchor.offset \in Nat /\ Size(anchor.path) \in Nat
        /\ call \in Call
    BY <1>1, Fields
  <2>2. call' = [call EXCEPT !.pc = "scan", !.pos = anchor.offset, !.start = Size(anchor.path)]
    BY <1>3, <2>1 DEF Open
  <2> DEFINE size == Size(anchor.path)
             offset == anchor.offset
  <2>3. size \in Nat /\ offset \in Nat /\ offset <= size
        /\ call' = [call EXCEPT !.pc = "scan", !.pos = offset, !.start = size]
    BY <1>3, <2>1, <2>2
  <2> HIDE DEF size, offset
  <2>4. /\ call' \in Call /\ call'.pc = "scan" /\ call'.pos = offset
        /\ call'.start = size /\ call'.met = call.met
    BY <2>1, <2>3 DEF Call
  <2>5. size = Len(file[anchor.path].pieces) /\ offset = anchor.offset /\ file' = file
    BY <1>1 DEF Size, size, offset, desktopVars
  <2>6. \A i \in Found(file[anchor.path].pieces, offset, size) : offset < i
    BY <2>3 DEF Found
  <2>7. Anchored' /\ Scanning'
    BY <1>1, <2>3, <2>4, <2>5, <2>6 DEF Anchored, Scanning
  <2>8. QED
    BY <1>1, <2>4, <2>7, GoesOn
<1>4. QED
  BY <1>2, <1>3

\* What a scan knows of the file it reads.
LEMMA ScanIs ==
    ASSUME IInv, call.pc \in {"scan", "context"}
    PROVE  LET s == file[anchor.path].pieces
               seen == Found(s, anchor.offset, call.start)
           IN  /\ anchor # NULL /\ anchor.path \in Path /\ anchor.offset \in Nat
               /\ call.start \in Nat /\ call.pos \in Nat /\ Len(s) \in Nat
               /\ Size(anchor.path) = Len(s)
               /\ \A i \in 1..Len(s) :
                    s[i].rec \in RecordType /\ s[i].part \in {"whole", "head", "tail"}
               /\ \A i \in 1..Len(s) :
                    s[i].part = "head" /\ i < Len(s) => s[i + 1].part = "tail"
               /\ anchor.offset <= call.start /\ call.start <= Len(s)
               /\ seen \subseteq 1..call.start
               /\ seen = Continues(call.start)
               /\ call.pc = "scan" => anchor.offset <= call.pos /\ \A i \in seen : call.pos < i
               /\ call.pc = "context" => seen = {}
<1> DEFINE s == file[anchor.path].pieces
<1>1. TypeOK /\ anchor # NULL
  BY DEF IInv, Anchored
<1>2. /\ anchor.path \in Path /\ anchor.offset \in Nat
      /\ call.start \in Nat /\ call.pos \in Nat /\ Len(s) \in Nat
      /\ Size(anchor.path) = Len(s)
      /\ \A i \in 1..Len(s) : s[i].rec \in RecordType /\ s[i].part \in {"whole", "head", "tail"}
  BY <1>1, Fields DEF Size
<1>3. \A i \in 1..Len(s) : s[i].part = "head" /\ i < Len(s) => s[i + 1].part = "tail"
  BY <1>2 DEF IInv, TornRight
<1>4. /\ anchor.offset <= call.start /\ call.start <= Len(s)
      /\ call.pc = "scan" =>
           /\ anchor.offset <= call.pos
           /\ \A i \in Found(s, anchor.offset, call.start) : call.pos < i
      /\ call.pc = "context" => Found(s, anchor.offset, call.start) = {}
  BY DEF IInv, Scanning
<1>5. Found(s, anchor.offset, call.start) \subseteq 1..call.start
  BY <1>2 DEF Found
<1>6. call.start \in 0..Size(anchor.path)
  BY <1>2, <1>4
<1>7. Found(s, anchor.offset, call.start) = Continues(call.start)
  BY <1>1, <1>6, ContinuesAre
<1>8. QED
  BY <1>1, <1>2, <1>3, <1>4, <1>5, <1>7

\* At the end of the file nothing was overlooked.
LEMMA EndIs ==
    ASSUME IInv, call.pc = "scan", call.pos = Size(anchor.path)
    PROVE  Found(file[anchor.path].pieces, anchor.offset, call.start) = {}
<1>1. /\ \A i \in Found(file[anchor.path].pieces, anchor.offset, call.start) :
           i \in 1..call.start /\ call.pos < i
      /\ call.start \in Nat /\ call.pos \in Nat /\ call.start <= call.pos
  BY ScanIs
<1>2. QED
  BY <1>1

LEMMA ScanEndsKeeps ==
    ASSUME IInv, ScanEnds
    PROVE  IInv'
<1>1. /\ call.pc = "scan" /\ UNCHANGED desktopVars /\ anchor' = anchor /\ anchor \in Anchors
      /\ call \in Call
  BY DEF ScanEnds, IInv, TypeOK, Anchors
<1>2. CASE Returns("rollout_scan_limit", NULL) \/ Returns("absent", NULL)
  BY <1>1, <1>2, ReturnsKeeps DEF Outcome
<1>3. CASE call.pos = Size(anchor.path) /\ call' = [call EXCEPT !.pc = "context"]
  <2>1. Found(file[anchor.path].pieces, anchor.offset, call.start) = {}
    BY <1>1, <1>3, EndIs
  <2>2. /\ call' \in Call /\ call'.pc = "context" /\ call'.met = call.met
        /\ call'.start = call.start
    BY <1>1, <1>3 DEF Call
  <2>3. Anchored' /\ Scanning'
    BY <1>1, <2>1, <2>2 DEF IInv, Anchored, Scanning, desktopVars
  <2>4. QED
    BY <1>1, <2>2, <2>3, GoesOn
<1>4. QED
  BY <1>2, <1>3 DEF ScanEnds, Raises, Goes

\* A read that shows no continue passes none of those seen: it takes one record.
LEMMA ReadOn ==
    ASSUME NEW s, Len(s) \in Nat, NEW offset \in Nat, NEW start \in Nat, start <= Len(s),
           NEW i \in 1..Len(s), \A k \in Found(s, offset, start) : i <= k,
           \A k \in 1..Len(s) : s[k].part = "head" /\ k < Len(s) => s[k + 1].part = "tail",
           ~(Whole(s, i) /\ ObservedContinue(s[i].rec) # NULL)
    PROVE  LET n == IF s[i].part = "head" /\ i < Len(s) THEN 2 ELSE 1 IN
           \A k \in Found(s, offset, start) : i + n - 1 < k
<1> SUFFICES ASSUME NEW k \in Found(s, offset, start)
             PROVE  i < k /\ (s[i].part = "head" /\ i < Len(s) => i + 1 < k)
  BY DEF Found
<1>1. /\ k \in Nat /\ i <= k /\ k <= start
      /\ s[k].part = "whole" \/ (s[k].part = "head" /\ k < start)
      /\ ObservedContinue(s[k].rec) # NULL
  BY DEF Found
<1>2. Whole(s, k)
  BY <1>1 DEF Whole
<1>3. k # i
  BY <1>1, <1>2
<1>4. s[i].part = "head" /\ i < Len(s) => k # i + 1
  BY <1>1
<1>5. QED
  BY <1>1, <1>3, <1>4

LEMMA ReadLineKeeps ==
    ASSUME IInv, ReadLine
    PROVE  IInv'
<1> DEFINE s == file[anchor.path].pieces
           i == call.pos + 1
           n == IF s[i].part = "head" /\ i < Len(s) THEN 2 ELSE 1
           turn == ObservedContinue(s[i].rec)
           seen == Found(s, anchor.offset, call.start)
<1>1. /\ call.pc = "scan" /\ UNCHANGED desktopVars /\ anchor' = anchor /\ anchor \in Anchors
      /\ call \in Call /\ call.pos < Len(s)
  BY DEF ReadLine, IInv, TypeOK, Anchors
<1>2. /\ anchor # NULL /\ anchor.offset \in Nat
      /\ call.start \in Nat /\ call.pos \in Nat /\ Len(s) \in Nat /\ call.scanned \in Nat
      /\ \A k \in 1..Len(s) : s[k].rec \in RecordType
      /\ \A k \in 1..Len(s) : s[k].part = "head" /\ k < Len(s) => s[k + 1].part = "tail"
      /\ anchor.offset <= call.pos /\ \A k \in seen : call.pos < k
      /\ anchor.offset <= call.start /\ call.start <= Len(s)
      /\ seen \subseteq 1..call.start
  BY <1>1, ScanIs, Fields DEF IInv
<1>3. i \in 1..Len(s) /\ s[i].rec \in RecordType
  BY <1>1, <1>2
<1>4. CASE s[i].rec.big /\ Returns("rollout_unreadable", NULL)
  BY <1>1, <1>4, ReturnsKeeps DEF Outcome
<1>5. CASE Whole(s, i) /\ turn # NULL /\ Returns("found", turn)
  <2>1. turn \in Turn
    BY <1>3, <1>5, ObservedIs
  <2>2. QED
    BY <1>1, <1>5, <2>1, ReturnsKeeps DEF Outcome
<1>6. CASE ~(Whole(s, i) /\ turn # NULL) /\ call' = [call EXCEPT !.pos = @ + n, !.scanned = @ + n]
  <2>1. n \in Nat /\ call.pos + n \in Nat /\ call.scanned + n \in Nat
    BY <1>2
  <2>2. call' = [call EXCEPT !.pos = call.pos + n, !.scanned = call.scanned + n]
    BY <1>1, <1>6 DEF Call
  <2> DEFINE pos == call.pos + n
             scanned == call.scanned + n
  <2>3. /\ pos \in Nat /\ scanned \in Nat
        /\ call' = [call EXCEPT !.pos = pos, !.scanned = scanned]
    BY <2>1, <2>2
  <2>4. pos = i + n - 1
    <3>1. call.pos \in Nat /\ n \in Nat
      BY <1>2, <2>1
    <3> HIDE DEF n
    <3>2. QED
      BY <3>1
  <2>5. \A k \in seen : pos < k
    <3>1. \A k \in seen : k \in Nat /\ i <= k
      BY <1>2
    <3>2. /\ ~(Whole(s, i) /\ ObservedContinue(s[i].rec) # NULL)
          /\ anchor.offset \in Nat /\ call.start \in Nat /\ call.start <= Len(s)
          /\ Len(s) \in Nat /\ i \in 1..Len(s)
      BY <1>2, <1>3, <1>6
    <3>3. \A k \in seen : i + n - 1 < k
      <4> HIDE DEF s, i
      <4>1. QED
        BY <1>2, <3>1, <3>2, ReadOn DEF seen, n
    <3>4. QED
      BY <2>4, <3>3
  <2>6. anchor.offset <= pos
    <3>1. /\ anchor.offset \in Nat /\ call.pos \in Nat /\ n \in Nat
          /\ anchor.offset <= call.pos
      BY <1>2, <2>1
    <3> HIDE DEF n
    <3>2. QED
      BY <3>1
  <2> HIDE DEF pos, scanned
  <2>7. /\ call' \in Call /\ call'.pc = "scan" /\ call'.met = call.met
        /\ call'.start = call.start /\ call'.pos = pos
    BY <1>1, <2>3 DEF Call
  <2>8. Anchored'
    BY <1>1, <1>2, <2>7 DEF Anchored
  <2>9. file' = file
    BY <1>1 DEF desktopVars
  <2>10. Scanning'
    BY <1>1, <1>2, <2>5, <2>6, <2>7, <2>9 DEF Scanning
  <2>11. QED
    BY <1>1, <2>7, <2>8, <2>10, GoesOn
<1>7. QED
  BY <1>4, <1>5, <1>6 DEF ReadLine, Raises

\* The turn a window shows is one of the pieces before the offset.
LEMMA ContextIs ==
    ASSUME TypeOK, NEW p \in Path, NEW offset \in 0..Size(p), ContextTurns(p, offset) # {}
    PROVE  LET i == Max(ContextTurns(p, offset)) IN
           i \in 1..offset /\ file[p].pieces[i].rec.turn \in Turn
<1> DEFINE s == file[p].pieces
           read == SubSeq(s, 1, offset)
           start == IF offset > ContextTail THEN offset - ContextTail ELSE 0
           newlines == {i \in (start + 1)..Len(read) : read[i].part # "head"}
           first == IF start = 0 THEN 1
                    ELSE IF newlines = {} THEN offset + 1 ELSE 1 + Min(newlines)
           turns == ContextTurns(p, offset)
<1>1. /\ offset \in Nat /\ offset <= Len(s) /\ Len(s) \in Nat
      /\ \A i \in 1..Len(s) : s[i] \in Piece /\ s[i].rec \in RecordType
  BY Fields DEF Size
<1>2. Len(read) = offset /\ \A i \in 1..offset : read[i] = s[i]
  <2>1. 1 \in Int /\ offset \in Int /\ \A i \in 1..offset : s[i] \in Piece
    BY <1>1
  <2> HIDE DEF s
  <2>2. /\ Len(read) = IF 1 <= offset THEN offset - 1 + 1 ELSE 0
        /\ \A i \in 1..offset - 1 + 1 : read[i] = s[1 + i - 1]
    BY <2>1, SubSeqProperties
  <2>3. \A i \in 1..offset : i \in 1..offset - 1 + 1 /\ 1 + i - 1 = i
    BY <1>1
  <2>4. QED
    BY <1>1, <2>2, <2>3
<1>3. turns = {i \in first..Len(read) : Whole(read, i) /\ read[i].rec.turn # NULL}
  BY DEF ContextTurns
<1> HIDE DEF read, turns
<1>4. start \in Nat
  BY <1>1, EvidenceAssumption
<1> HIDE DEF start
<1>5. newlines \in SUBSET Nat
  BY <1>2, <1>4
<1>6. newlines # {} => Min(newlines) \in Nat
  BY <1>5, MinIs
<1> HIDE DEF newlines
<1>7. first \in Nat /\ first >= 1
  BY <1>1, <1>6
<1> HIDE DEF first
<1>8. turns \in SUBSET (1..offset)
  BY <1>1, <1>2, <1>3, <1>7
<1>9. Max(turns) \in turns
  BY <1>1, <1>8, MaxIs DEF turns
<1>10. \A i \in turns : i \in 1..offset /\ s[i].rec.turn # NULL /\ s[i].rec \in RecordType
  BY <1>1, <1>2, <1>3, <1>8
<1>11. \A rec \in RecordType : rec.turn # NULL => rec.turn \in Turn
  BY DEF RecordType
<1>12. QED
  BY <1>9, <1>10, <1>11 DEF turns

LEMMA ReadContextKeeps ==
    ASSUME IInv, ReadContext
    PROVE  IInv'
<1> DEFINE turns == ContextTurns(anchor.path, anchor.offset)
           turn == file[anchor.path].pieces[Max(turns)].rec.turn
<1>1. /\ call.pc = "context" /\ UNCHANGED desktopVars /\ anchor' = anchor /\ anchor \in Anchors
  BY DEF ReadContext, IInv, TypeOK, Anchors
<1>2. CASE Returns("rollout_unavailable", NULL) \/ Returns("turn_context_unavailable", NULL)
  BY <1>1, <1>2, ReturnsKeeps DEF Outcome
<1>3. CASE turns # {} /\ Returns("claim", turn)
  <2>1. TypeOK /\ anchor.path \in Path /\ anchor.offset \in 0..Size(anchor.path)
    BY <1>1, ScanIs DEF IInv
  <2>2. turn \in Turn
    BY <1>3, <2>1, ContextIs
  <2>3. QED
    BY <1>1, <1>3, <2>2, ReturnsKeeps DEF Outcome
<1>4. QED
  BY <1>2, <1>3 DEF ReadContext, Raises

LEMMA InvStep == IInv /\ [Next]_vars => IInv'
<1> SUFFICES ASSUME IInv, [Next]_vars PROVE IInv'
  OBVIOUS
<1>1. CASE (\E rec \in Record : Appends(rec)) \/ Completes
  BY <1>1, AppendsKeeps
<1>2. ASSUME NEW p \in Path, StartsFile(p) \/ Deletes(p) PROVE IInv'
  BY <1>2, StartsFileKeeps, DeletesKeeps
<1>3. CASE Archives \/ Unarchives
  BY <1>3, MovesKeeps
<1>4. CASE Truncates
  BY <1>4, TruncatesKeeps
<1>5. ASSUME NEW op \in {"capture", "claim", "observe"}, Begins(op) PROVE IInv'
  BY <1>5, BeginsKeeps
<1>6. CASE ListSessions
  BY <1>6, ListSessionsKeeps
<1>7. CASE ListArchived
  BY <1>7, ListArchivedKeeps
<1>8. CASE Stat
  BY <1>8, StatKeeps
<1>9. CASE Validate
  BY <1>9, ValidateKeeps
<1>10. CASE Open
  BY <1>10, OpenKeeps
<1>11. CASE ScanEnds
  BY <1>11, ScanEndsKeeps
<1>12. CASE ReadLine
  BY <1>12, ReadLineKeeps
<1>13. CASE ReadContext
  BY <1>13, ReadContextKeeps
<1>14. CASE UNCHANGED vars
  BY <1>14 DEF vars, IInv, TypeOK, Order, TornRight, Anchored, Scanning, Looking, Size, In
<1>15. QED
  BY <1>1, <1>2, <1>3, <1>4, <1>5, <1>6, <1>7, <1>8, <1>9, <1>10, <1>11, <1>12, <1>13, <1>14
     DEF Next, Desktop, Command

\* The parts of the invariant hold from the start and through every step of Desktop and of
\* the calls.
THEOREM EvidenceInvariant == Spec => []IInv
<1>1. Init => IInv
  BY InvInit
<1>2. IInv /\ [Next]_vars => IInv'
  BY InvStep
<1>3. QED
  BY <1>1, <1>2, PTL DEF Spec

-----------------------------------------------------------------------------
(* What the run checks. *)

\* Every part of the state has its type.
THEOREM EvidenceTyped == Spec => []TypeOK
<1>1. IInv => TypeOK
  BY DEF IInv
<1>2. QED
  BY <1>1, EvidenceInvariant, PTL

\* How a call ends: by which step, and with what.
LEMMA EndsHow ==
    ASSUME IInv, [Next]_vars, NEW S, Ends(S)
    PROVE  /\ call.pc # "done" /\ call'.outcome \in S /\ UNCHANGED desktopVars
           /\ ListArchived \/ Stat \/ Open \/ ScanEnds \/ ReadLine \/ ReadContext
<1>1. call.pc # "done" /\ call'.pc = "done" /\ call'.outcome \in S /\ TypeOK /\ call \in Call
  BY DEF Ends, IInv, TypeOK
<1>2. ~ \E event \in {"archived", "created"} : Meets(event)
  BY <1>1, MeetsIs
<1>3. ~Desktop
  <2>1. ~ \E rec, part : Writes(rec, part)
    BY <1>1 DEF Writes
  <2>2. QED
    BY <1>1, <1>2, <2>1 DEF Desktop, Appends, Completes, StartsFile, Deletes, Archives, Unarchives,
                            Moves, Truncates
<1>4. ~UNCHANGED vars
  BY <1>1 DEF vars
<1>5. ~ListSessions /\ ~Validate /\ ~ \E op \in {"capture", "claim", "observe"} : Begins(op)
  BY <1>1 DEF ListSessions, Validate, Goes, Begins, Call
<1>6. ListArchived \/ Stat \/ Open \/ ScanEnds \/ ReadLine \/ ReadContext
  BY <1>3, <1>4, <1>5 DEF Next, Command
<1>7. UNCHANGED desktopVars
  BY <1>6 DEF ListArchived, Stat, Open, ScanEnds, ReadLine, ReadContext
<1>8. QED
  BY <1>1, <1>6, <1>7

\* What a returned outcome is.
LEMMA ReturnsIs ==
    ASSUME call \in Call, NEW outcome, NEW turn, Returns(outcome, turn)
    PROVE  call'.outcome = outcome /\ call'.turn = turn
BY DEF Returns, Call

\* A scan that finds nothing overlooked nothing that was there when it began, whatever is
\* torn, unreadable or appended: `continue` is not sent again for want of reading.
THEOREM NothingIsOverlooked == Spec => NothingOverlooked
<1>1. ASSUME IInv, [Next]_vars, Ends({"absent", "claim"}) PROVE Continues(call.start) = {}
  <2>1. /\ call.pc # "done" /\ call'.outcome \in {"absent", "claim"}
        /\ ListArchived \/ Stat \/ Open \/ ScanEnds \/ ReadLine \/ ReadContext
        /\ call \in Call
    BY <1>1, EndsHow DEF IInv, TypeOK
  <2>2. \A category \in {"thread_archived", "rollout_not_found", "rollout_unavailable",
                         "rollout_truncated", "rollout_unreadable", "anchored", "found",
                         "rollout_scan_limit", "turn_context_unavailable"} :
          \A turn : ~Returns(category, turn)
    BY <2>1, ReturnsIs
  <2>3. ~ListArchived /\ ~Stat
    BY <2>2 DEF ListArchived, Stat, Raises
  <2>4. CASE Open
    <3>1. call' = [call EXCEPT !.pc = "scan", !.pos = anchor.offset, !.start = Size(anchor.path)]
      BY <2>2, <2>4 DEF Open, Raises
    <3>2. call'.pc = "scan"
      BY <2>1, <3>1 DEF Call
    <3>3. QED
      BY <1>1, <3>2 DEF Ends
  <2>5. CASE ScanEnds
    <3>1. call.pc = "scan" /\ call.pos = Size(anchor.path)
      BY <2>2, <2>5 DEF ScanEnds, Raises
    <3>2. QED
      BY <1>1, <3>1, EndIs, ScanIs
  <2>6. CASE ReadLine
    <3>1. call.pc = "scan" /\ call'.pc = call.pc
      BY <2>1, <2>2, <2>6 DEF ReadLine, Raises, Call
    <3>2. QED
      BY <1>1, <3>1 DEF Ends
  <2>7. CASE ReadContext
    <3>1. call.pc = "context"
      BY <2>7 DEF ReadContext
    <3>2. QED
      BY <1>1, <3>1, ScanIs
  <2>8. QED
    BY <2>1, <2>3, <2>4, <2>5, <2>6, <2>7
<1>2. IInv /\ [Next]_vars => [Ends({"absent", "claim"}) => Continues(call.start) = {}]_vars
  BY <1>1
<1>3. QED
  BY <1>2, EvidenceInvariant, PTL DEF Spec, NothingOverlooked

\* `continue` is reported found at the first one that was whole when the scan began, else at
\* one completed meanwhile; a task is reported archived only if it was while the call looked.
THEOREM FinalAnswersAreTrue == Spec => FinalAnswersTrue
<1>1. ASSUME IInv, [Next]_vars, Ends({"found"})
      PROVE  LET seen == Continues(call.start) IN
             IF seen # {} THEN call'.turn = TurnAt(Min(seen))
             ELSE \E i \in Continues(Size(anchor.path)) : call'.turn = TurnAt(i)
  <2> DEFINE s == file[anchor.path].pieces
             i == call.pos + 1
             seen == Continues(call.start)
             all == Continues(Size(anchor.path))
  <2>1. /\ call.pc # "done" /\ call'.outcome = "found" /\ call'.pc = "done"
        /\ ListArchived \/ Stat \/ Open \/ ScanEnds \/ ReadLine \/ ReadContext
        /\ call \in Call /\ TypeOK
    BY <1>1, EndsHow DEF IInv, TypeOK, Ends
  <2>2. \A category \in Outcome \ {"found"} : \A turn : ~Returns(category, turn)
    BY <2>1, ReturnsIs
  <2>3. \A pc \in {"scan", "context"} : call' # [call EXCEPT !.pc = pc, !.pos = anchor.offset,
                                                             !.start = Size(anchor.path)]
                                        /\ call' # [call EXCEPT !.pc = pc]
    BY <2>1 DEF Call
  <2>4. ~ListArchived /\ ~Stat /\ ~Open /\ ~ScanEnds /\ ~ReadContext
    BY <2>2, <2>3 DEF ListArchived, Stat, Open, ScanEnds, ReadContext, Raises, Goes, Outcome
  <2>5. ReadLine /\ call.pc = "scan"
    BY <2>1, <2>4 DEF ReadLine
  <2>6. /\ anchor # NULL /\ anchor.offset \in Nat /\ call.start \in Nat /\ call.pos \in Nat
        /\ Len(s) \in Nat /\ Size(anchor.path) = Len(s) /\ call.pos < Len(s)
        /\ \A k \in 1..Len(s) : s[k].rec \in RecordType
        /\ anchor.offset <= call.pos /\ call.start <= Len(s)
        /\ seen = Found(s, anchor.offset, call.start) /\ seen \subseteq 1..call.start
        /\ \A k \in seen : call.pos < k
    BY <1>1, <2>5, ScanIs DEF ReadLine
  <2>7. /\ Whole(s, i) /\ ObservedContinue(s[i].rec) # NULL
        /\ Returns("found", ObservedContinue(s[i].rec))
    <3>1. ~Raises("rollout_unreadable")
      BY <2>2 DEF Raises, Outcome
    <3>2. ~ \E n : call' = [call EXCEPT !.pos = @ + n, !.scanned = @ + n]
      BY <2>1, <2>5 DEF Call
    <3>3. QED
      BY <2>5, <3>1, <3>2 DEF ReadLine
  <2>8. i \in 1..Len(s) /\ i \in (anchor.offset + 1)..Len(s) /\ s[i].rec \in RecordType
    BY <2>6
  <2>9. call'.turn = TurnAt(i)
    BY <2>1, <2>7, <2>8, ReturnsIs, ObservedIs DEF TurnAt
  <2>10. CASE seen = {}
    <3>1. all = Found(s, anchor.offset, Len(s))
      BY <2>1, <2>6, ContinuesAre
    <3>2. i \in Found(s, anchor.offset, Len(s))
      BY <2>7, <2>8 DEF Found, Whole
    <3>3. QED
      BY <2>9, <2>10, <3>1, <3>2
  <2>11. CASE seen # {}
    <3>1. seen \in SUBSET Nat
      BY <2>6
    <3>2. Min(seen) \in seen /\ \A k \in seen : Min(seen) <= k
      BY <2>11, <3>1, MinIs
    <3>3. Min(seen) \in 1..call.start /\ i <= Min(seen)
      BY <2>6, <3>2
    <3>4. ASSUME i < Min(seen) PROVE FALSE
      <4>1. i \in (anchor.offset + 1)..call.start /\ i < call.start
        BY <2>6, <2>8, <3>3, <3>4
      <4>2. i \in Found(s, anchor.offset, call.start)
        BY <2>7, <4>1 DEF Found, Whole
      <4>3. Min(seen) <= i
        BY <2>6, <3>2, <4>2
      <4>4. QED
        BY <2>6, <3>3, <3>4, <4>3
    <3>5. i = Min(seen)
      BY <2>6, <3>3, <3>4
    <3>6. QED
      BY <2>9, <2>11, <3>5
  <2>12. QED
    BY <2>10, <2>11
<1>2. ASSUME IInv, [Next]_vars, Ends({"thread_archived"}) PROVE "archived" \in call.met
  <2>1. /\ call.pc # "done" /\ call'.outcome = "thread_archived" /\ call'.pc = "done"
        /\ ListArchived \/ Stat \/ Open \/ ScanEnds \/ ReadLine \/ ReadContext
        /\ call \in Call
    BY <1>2, EndsHow DEF IInv, TypeOK, Ends
  <2>2. \A category \in Outcome \ {"thread_archived"} : \A turn : ~Returns(category, turn)
    BY <2>1, ReturnsIs
  <2>3. \A pc \in {"scan", "context"} : call' # [call EXCEPT !.pc = pc, !.pos = anchor.offset,
                                                             !.start = Size(anchor.path)]
                                        /\ call' # [call EXCEPT !.pc = pc]
    BY <2>1 DEF Call
  <2>4. ~ \E n : call' = [call EXCEPT !.pos = @ + n, !.scanned = @ + n] /\ call.pc = "scan"
    BY <2>1 DEF Call
  <2>5. ~Stat /\ ~Open /\ ~ScanEnds /\ ~ReadLine /\ ~ReadContext
    BY <2>2, <2>3, <2>4
       DEF Stat, Open, ScanEnds, ReadLine, ReadContext, Raises, Goes, Outcome
  <2>6. In("archived_sessions") # {}
    BY <2>1, <2>2, <2>5 DEF ListArchived, Raises, Outcome
  <2>7. QED
    BY <1>2, <2>1, <2>6 DEF IInv, Looking
<1>3. IInv /\ [Next]_vars =>
        [/\ Ends({"found"}) =>
              LET seen == Continues(call.start) IN
              IF seen # {} THEN call'.turn = TurnAt(Min(seen))
              ELSE \E i \in Continues(Size(anchor.path)) : call'.turn = TurnAt(i)
         /\ Ends({"thread_archived"}) => "archived" \in call.met]_vars
  BY <1>1, <1>2
<1>4. QED
  BY <1>3, EvidenceInvariant, PTL DEF Spec, FinalAnswersTrue

\* The anchor is taken in the file Desktop writes to, and the turn a message is sent from was
\* under way before it.
THEOREM AnchorsPart == Spec => AnchorParts
<1>1. ASSUME IInv, [Next]_vars, Ends({"anchored"}), call.met = {}, current \in In("sessions")
      PROVE  anchor'.path = current
  <2>1. /\ call.pc # "done" /\ call'.outcome = "anchored" /\ call'.pc = "done"
        /\ ListArchived \/ Stat \/ Open \/ ScanEnds \/ ReadLine \/ ReadContext
        /\ call \in Call
    BY <1>1, EndsHow DEF IInv, TypeOK, Ends
  <2>2. \A category \in Outcome \ {"anchored"} : \A turn : ~Returns(category, turn)
    BY <2>1, ReturnsIs
  <2>3. \A pc \in {"scan", "context"} : call' # [call EXCEPT !.pc = pc, !.pos = anchor.offset,
                                                             !.start = Size(anchor.path)]
                                        /\ call' # [call EXCEPT !.pc = pc]
    BY <2>1 DEF Call
  <2>4. ~ \E n : call' = [call EXCEPT !.pos = @ + n, !.scanned = @ + n] /\ call.pc = "scan"
    BY <2>1 DEF Call
  <2>5. ~ListArchived /\ ~Open /\ ~ScanEnds /\ ~ReadLine /\ ~ReadContext
    BY <2>2, <2>3, <2>4
       DEF ListArchived, Open, ScanEnds, ReadLine, ReadContext, Raises, Goes, Outcome
  <2> DEFINE there == call.listed \cap In("sessions")
  <2>6. PICK p \in Newest(there) : anchor' = [path |-> p, offset |-> Size(p)]
    BY <2>1, <2>2, <2>5 DEF Stat, Raises, Outcome
  <2>7. call.pc = "stat"
    BY <2>1, <2>5 DEF Stat
  <2>8. current \in there
    BY <1>1, <2>7 DEF IInv, Looking
  <2>9. p \in Path /\ <<current, p>> \notin newer
    BY <2>6, <2>8 DEF Newest, In
  <2>10. p = current
    BY <1>1, <2>9 DEF IInv, Order
  <2>11. QED
    BY <2>6, <2>10
<1>2. ASSUME IInv, [Next]_vars, Ends({"claim"})
      PROVE  \E i \in 1..anchor.offset : TurnAt(i) = call'.turn
  <2>1. /\ call.pc # "done" /\ call'.outcome = "claim" /\ call'.pc = "done"
        /\ ListArchived \/ Stat \/ Open \/ ScanEnds \/ ReadLine \/ ReadContext
        /\ call \in Call
    BY <1>2, EndsHow DEF IInv, TypeOK, Ends
  <2>2. \A category \in Outcome \ {"claim"} : \A turn : ~Returns(category, turn)
    BY <2>1, ReturnsIs
  <2>3. \A pc \in {"scan", "context"} : call' # [call EXCEPT !.pc = pc, !.pos = anchor.offset,
                                                             !.start = Size(anchor.path)]
                                        /\ call' # [call EXCEPT !.pc = pc]
    BY <2>1 DEF Call
  <2>4. ~ \E n : call' = [call EXCEPT !.pos = @ + n, !.scanned = @ + n] /\ call.pc = "scan"
    BY <2>1 DEF Call
  <2>5. ~ListArchived /\ ~Stat /\ ~Open /\ ~ScanEnds /\ ~ReadLine
    BY <2>2, <2>3, <2>4 DEF ListArchived, Stat, Open, ScanEnds, ReadLine, Raises, Goes, Outcome
  <2> DEFINE turns == ContextTurns(anchor.path, anchor.offset)
  <2>6. /\ call.pc = "context" /\ turns # {}
        /\ Returns("claim", file[anchor.path].pieces[Max(turns)].rec.turn)
    BY <2>1, <2>2, <2>5 DEF ReadContext, Raises, Outcome
  <2>7. TypeOK /\ anchor.path \in Path /\ anchor.offset \in 0..Size(anchor.path)
    <3>1. IInv /\ call.pc \in {"scan", "context"}
      BY <1>2, <2>6
    <3>2. /\ anchor.path \in Path /\ anchor.offset \in Nat /\ Size(anchor.path) \in Nat
          /\ anchor.offset <= Size(anchor.path)
      BY <3>1, ScanIs
    <3>3. QED
      BY <3>1, <3>2 DEF IInv
  <2>8. Max(turns) \in 1..anchor.offset
    BY <2>6, <2>7, ContextIs
  <2>9. call'.turn = TurnAt(Max(turns))
    BY <2>1, <2>6, ReturnsIs DEF TurnAt
  <2>10. QED
    BY <2>8, <2>9
<1>3. IInv /\ [Next]_vars =>
        [/\ Ends({"anchored"}) /\ call.met = {} /\ current \in In("sessions") =>
              anchor'.path = current
         /\ Ends({"claim"}) => \E i \in 1..anchor.offset : TurnAt(i) = call'.turn]_vars
  BY <1>1, <1>2
<1>4. QED
  BY <1>3, EvidenceInvariant, PTL DEF Spec, AnchorParts

-----------------------------------------------------------------------------
(* A call comes to its end while Desktop writes on: the scan limit counts  *)
(* what was read, so a file that grows as fast as it is read is given up.  *)

\* The most steps the call under way has left.
StepsLeft(c) ==
    CASE c.pc = "done" -> 0
      [] c.pc \in {"context", "stat", "archived_sessions"} -> 1
      [] c.pc = "sessions" -> 2
      [] c.pc = "scan"     -> IF c.scanned > ScanLimit THEN 2 ELSE ScanLimit + 3 - c.scanned
      [] c.pc = "open"     -> ScanLimit + 4
      [] c.pc = "validate" -> ScanLimit + 5

\* A step of a call brings it nearer to its end; Desktop does not set it back.
Nearer ==
    /\ Command /\ call.pc # "done" => StepsLeft(call') < StepsLeft(call)
    /\ Desktop => StepsLeft(call') = StepsLeft(call)

LEMMA StepsAre == TypeOK => StepsLeft(call) \in 0..(ScanLimit + 5)
<1> SUFFICES ASSUME TypeOK PROVE StepsLeft(call) \in 0..(ScanLimit + 5)
  OBVIOUS
<1>1. /\ ScanLimit \in Nat /\ call.scanned \in Nat
      /\ call.pc \in {"sessions", "archived_sessions", "stat", "validate", "open", "scan",
                     "context", "done"}
  BY EvidenceAssumption DEF TypeOK, Call
<1>2. CASE call.pc = "scan"
  BY <1>1, <1>2 DEF StepsLeft
<1>3. CASE call.pc # "scan"
  BY <1>1, <1>3 DEF StepsLeft
<1>4. QED
  BY <1>2, <1>3

LEMMA ReturnsDone ==
    ASSUME TypeOK, NEW outcome, NEW turn, Returns(outcome, turn)
    PROVE  StepsLeft(call') = 0
BY DEF Returns, StepsLeft, TypeOK, Call

LEMMA GoesLeft ==
    ASSUME TypeOK, NEW pc, Goes(pc)
    PROVE  call'.pc = pc /\ call'.scanned = call.scanned
BY DEF Goes, TypeOK, Call

LEMMA NearerStep == TypeOK /\ Next => Nearer
<1> SUFFICES ASSUME TypeOK, Next PROVE Nearer
  OBVIOUS
<1>1. ScanLimit \in Nat /\ call \in Call /\ call.scanned \in Nat /\ call.pos \in Nat
  BY EvidenceAssumption DEF TypeOK, Call
<1>2. ASSUME Desktop PROVE StepsLeft(call') = StepsLeft(call)
  <2>1. CASE call' = call
    BY <2>1
  <2>2. ASSUME NEW event, Meets(event) PROVE StepsLeft(call') = StepsLeft(call)
    BY <1>1, <2>2 DEF Meets, Call, StepsLeft
  <2>3. QED
    BY <1>2, <2>1, <2>2
       DEF Desktop, Appends, Completes, Writes, StartsFile, Deletes, Archives, Unarchives,
           Moves, Truncates
<1>3. ASSUME Command, call.pc # "done" PROVE StepsLeft(call') < StepsLeft(call)
  <2>1. StepsLeft(call) > 0
    BY <1>1, <1>3 DEF StepsLeft, Call
  <2>2. ASSUME NEW outcome, NEW turn, Returns(outcome, turn)
        PROVE  StepsLeft(call') < StepsLeft(call)
    BY <2>1, <2>2, ReturnsDone
  <2>3. CASE ListSessions
    <3>1. call.pc = "sessions" /\ call'.pc \in {"stat", "archived_sessions"}
      BY <1>1, <2>3 DEF ListSessions, Call
    <3>2. QED
      BY <3>1 DEF StepsLeft
  <2>4. CASE ListArchived \/ Stat
    BY <2>2, <2>4 DEF ListArchived, Stat, Raises
  <2>5. CASE Validate
    <3>1. call.pc = "validate" /\ call'.pc \in {"open", "archived_sessions"}
      BY <2>5, GoesLeft DEF Validate
    <3>2. QED
      BY <1>1, <3>1 DEF StepsLeft
  <2>6. CASE Open
    <3>1. CASE /\ call.pc = "open"
               /\ call' = [call EXCEPT !.pc = "scan", !.pos = anchor.offset,
                                       !.start = Size(anchor.path)]
      <4>1. call'.pc = "scan" /\ call'.scanned = call.scanned
        BY <1>1, <3>1 DEF Call
      <4>2. QED
        BY <1>1, <3>1, <4>1 DEF StepsLeft
    <3>2. QED
      BY <2>2, <2>6, <3>1 DEF Open, Raises
  <2>7. CASE ScanEnds
    <3>1. CASE call.pc = "scan" /\ Goes("context")
      <4>1. call'.pc = "context"
        BY <3>1, GoesLeft
      <4>2. StepsLeft(call') = 1 /\ StepsLeft(call) > 1
        BY <1>1, <3>1, <4>1 DEF StepsLeft
      <4>3. QED
        BY <4>2
    <3>2. QED
      BY <2>2, <2>7, <3>1 DEF ScanEnds, Raises
  <2>8. CASE ReadLine
    <3>1. ASSUME NEW n \in {1, 2}, call.pc = "scan", call.scanned <= ScanLimit,
                 call' = [call EXCEPT !.pos = @ + n, !.scanned = @ + n]
          PROVE  StepsLeft(call') < StepsLeft(call)
      <4>1. call'.pc = "scan" /\ call'.scanned = call.scanned + n
        BY <1>1, <3>1 DEF Call
      <4>2. QED
        BY <1>1, <3>1, <4>1 DEF StepsLeft
    <3>2. QED
      BY <2>2, <2>8, <3>1 DEF ReadLine, Raises
  <2>9. CASE ReadContext
    BY <2>2, <2>9 DEF ReadContext, Raises
  <2>10. QED
    BY <1>3, <2>3, <2>4, <2>5, <2>6, <2>7, <2>8, <2>9 DEF Command, Begins
<1>4. QED
  BY <1>2, <1>3 DEF Nearer

\* find_continue_after reads until the file ends, while Desktop appends to it, and a call
\* looks at the disk again and again while files move.  Whatever Desktop does in between, a
\* call returns within ScanLimit + 5 steps of its own: each one brings it nearer to its end.
THEOREM CallsEnd == Spec => [][Nearer]_vars /\ [](StepsLeft(call) \in 0..(ScanLimit + 5))
<1>1. TypeOK /\ [Next]_vars => [Nearer]_vars
  BY NearerStep
<1> DEFINE Bounded == StepsLeft(call) \in 0..(ScanLimit + 5)
<1>2. TypeOK => Bounded
  BY StepsAre
<1> HIDE DEF Bounded
<1>3. Spec => [][Nearer]_vars /\ []Bounded
  BY <1>1, <1>2, EvidenceTyped, PTL DEF Spec
<1>4. QED
  BY <1>3 DEF Bounded

=============================================================================
