-------------------------- MODULE NativePipeProofs --------------------------
(***************************************************************************)
(* Proofs about module NativePipe, for any number of attempts, connections *)
(* and frames, whatever Desktop answers, and when.                         *)
(*                                                                         *)
(* That no success is reported on another request's answer rests on ids:   *)
(* they are never used twice (Numbered), so the request an answer names is *)
(* the one that was asked, and what Desktop says of it was true when it    *)
(* said it (Truthful).  That an attempt is written once rests on where its *)
(* caller is (CalledOnce).  Both need that the stream is read in step,     *)
(* through every way of cutting it and every reconnection (Connection).    *)
(***************************************************************************)
EXTENDS NativePipe, FiniteSetTheorems, SequenceTheorems, TLAPS

-----------------------------------------------------------------------------
(* The inductive invariant. *)

Typed ==
    /\ outcome \in [Claim -> {"unsent", "sending", "sent", "failed"}]
    /\ caller \in [pc : {"idle", "connecting", "answer", "listed"}, claim : SUBSET Claim,
                   id : Ids \cup {0}, method : Methods, catalogue : Catalogue \cup {NoTools}]
    /\ client \in [socket : Sockets \cup {NoSocket}, destroyed : BOOLEAN, reading : BOOLEAN,
                   pendingData : Seq(Unit), pending : SUBSET Ids, nextId : Nat \ {0},
                   tools : Catalogue \cup {NoTools}]
    /\ asked \subseteq [id : Ids, method : Methods, claim : Claim, socket : Sockets]
    /\ desktop \in [accepted : 0..MaxConnections, open : BOOLEAN, wire : Seq(Unit),
                    frames : 0..MaxFrames, spoiled : SUBSET Sockets, performed : SUBSET Claim]

\* Who calls, and for which attempt.
OneAttempt ==
    /\ caller.claim = {c \in Claim : outcome[c] = "sending"}
    /\ IF caller.pc = "idle" THEN caller.claim = {} ELSE \E c \in Claim : caller.claim = {c}

\* A sequence of units is one of whole frames.
Aligned(s) ==
    /\ Len(s) % 2 = 0
    /\ \A i \in 1..Len(s) :
         i % 2 = 1 => s[i] = Units(s[i].frame)[1] /\ s[i + 1] = Units(s[i].frame)[2]

\* What is left of the stream on the current connection.
Stream == client.pendingData \o desktop.wire

Connection ==
    /\ client.destroyed \/ client.reading => client.socket # NoSocket
    /\ desktop.open => desktop.accepted \in Sockets
    /\ IF client.socket = NoSocket THEN client.pendingData = <<>>
       ELSE client.socket = desktop.accepted /\ Aligned(Stream)

\* What a frame says of its request was so when it was written, and is.
GoodFrame(f, requests, peer) ==
    /\ Bad(f) => peer.accepted \in peer.spoiled
    /\ f.id # 0 => \E r \in requests :
                      /\ r.id = f.id
                      /\ f.body = "success" => r.method = "tools/call" /\ r.claim \in peer.performed

Truthful ==
    client.socket # NoSocket =>
        \A i \in 1..Len(Stream) : GoodFrame(Stream[i].frame, asked, desktop)

Awaited ==
    /\ client.pending = IF caller.pc = "answer" THEN {caller.id} ELSE {}
    /\ caller.pc = "answer" =>
         \E r \in asked : /\ r.id = caller.id /\ r.method = caller.method
                          /\ r.socket = client.socket /\ caller.claim = {r.claim}

\* No id is used twice.
Numbered ==
    /\ \A r \in asked : r.id < client.nextId
    /\ \A r, q \in asked : r.id = q.id => r = q

\* An attempt is written once, and its caller knows.
CalledOnce ==
    /\ \A r \in asked : r.method = "tools/call" =>
         /\ outcome[r.claim] # "unsent"
         /\ outcome[r.claim] = "sending" => caller.pc = "answer" /\ caller.method = "tools/call"
    /\ \A r, q \in asked :
         r.method = "tools/call" /\ q.method = "tools/call" /\ r.claim = q.claim => r = q

Recent(catalogue) == catalogue.from = client.socket \/ catalogue.from \in desktop.spoiled

Catalogues ==
    /\ client.tools # NoTools => Recent(client.tools)
    /\ caller.pc = "listed" => caller.catalogue \in Catalogue /\ Recent(caller.catalogue)

IInv ==
    /\ Typed /\ OneAttempt /\ Connection /\ Truthful
    /\ Awaited /\ Numbered /\ CalledOnce /\ Catalogues

-----------------------------------------------------------------------------
(* Sequences of anything. *)

\* Two elements written at the end.
LEMMA ConcatTwo ==
    ASSUME NEW S, NEW s \in Seq(S), NEW u \in Seq(S)
    PROVE  Len(u) = 2 =>
           /\ s \o u \in Seq(S) /\ Len(s \o u) = Len(s) + 2
           /\ \A i \in 1..Len(s) : (s \o u)[i] = s[i]
           /\ (s \o u)[Len(s) + 1] = u[1]
           /\ (s \o u)[Len(s) + 2] = u[2]
<1>1. /\ s \o u \in Seq(S) /\ Len(s \o u) = Len(s) + Len(u) /\ Len(s) \in Nat
      /\ \A i \in 1..Len(s) + Len(u) :
           (s \o u)[i] = IF i <= Len(s) THEN s[i] ELSE u[i - Len(s)]
  BY ConcatProperties
<1> HAVE Len(u) = 2
<1> DEFINE t == s \o u
<1> HIDE DEF t
<1>2. /\ t \in Seq(S) /\ Len(t) = Len(s) + 2
      /\ \A i \in 1..Len(s) + 2 : t[i] = IF i <= Len(s) THEN s[i] ELSE u[i - Len(s)]
  BY <1>1 DEF t
<1>3. /\ \A i \in 1..Len(s) : t[i] = s[i]
      /\ t[Len(s) + 1] = u[1] /\ t[Len(s) + 2] = u[2]
  BY <1>1, <1>2
<1>4. QED
  BY <1>2, <1>3 DEF t

\* Writing at the end, in either order.
LEMMA ConcatRegroup ==
    \A S : \A s, a, b \in Seq(S) : (s \o a) \o b = s \o (a \o b)
<1>1. ASSUME NEW S, NEW s \in Seq(S), NEW a \in Seq(S), NEW b \in Seq(S)
      PROVE  (s \o a) \o b = s \o (a \o b)
  BY ConcatAssociative
<1>2. QED
  BY <1>1

\* The first two elements taken away.
LEMMA DropTwo ==
    ASSUME NEW S, NEW s \in Seq(S), Len(s) >= 2
    PROVE  /\ SubSeq(s, 3, Len(s)) \in Seq(S) /\ Len(SubSeq(s, 3, Len(s))) = Len(s) - 2
           /\ \A i \in 1..Len(s) - 2 : SubSeq(s, 3, Len(s))[i] = s[i + 2]
<1> DEFINE n == Len(s)
<1>1. n \in Nat /\ n >= 2 /\ \A i \in 3..n : s[i] \in S
  BY ElementOfSeq
<1> HIDE DEF n
<1>2. n \in Int /\ 3 \in Int
  BY <1>1
<1>3. /\ SubSeq(s, 3, n) \in Seq(S)
      /\ Len(SubSeq(s, 3, n)) = IF 3 <= n THEN n - 3 + 1 ELSE 0
      /\ \A i \in 1..n - 3 + 1 : SubSeq(s, 3, n)[i] = s[3 + i - 1]
  BY <1>1, <1>2, SubSeqProperties
<1> DEFINE t == SubSeq(s, 3, n)
<1> HIDE DEF t
<1>4. /\ t \in Seq(S) /\ Len(t) = n - 2
      /\ \A i \in 1..n - 2 : t[i] = s[i + 2]
  <2>1. t \in Seq(S) /\ Len(t) = n - 2
    BY <1>1, <1>3 DEF t
  <2>2. ASSUME NEW i \in 1..n - 2 PROVE t[i] = s[i + 2]
    <3>1. i \in 1..n - 3 + 1 /\ 3 + i - 1 = i + 2
      BY <1>1
    <3>2. t[i] = s[3 + i - 1]
      BY <1>3, <3>1 DEF t
    <3>3. QED
      BY <3>1, <3>2
  <2>3. QED
    BY <2>1, <2>2
<1>5. QED
  BY <1>4 DEF n, t

\* What two sequences, one after the other, hold.
LEMMA ConcatIs ==
    ASSUME NEW S, NEW s \in Seq(S), NEW w \in Seq(S)
    PROVE  /\ s \o w \in Seq(S) /\ Len(s \o w) = Len(s) + Len(w)
           /\ \A i \in 1..Len(s) + Len(w) :
                (s \o w)[i] = IF i <= Len(s) THEN s[i] ELSE w[i - Len(s)]
BY ConcatProperties

(* The stream. *)

\* Every second position begins a frame.
LEMMA Parity ==
    \A n \in Nat : /\ (n + 2) % 2 = n % 2
                   /\ n % 2 = 0 => (n + 1) % 2 = 1
                   /\ n % 2 \in {0, 1}
OBVIOUS

\* The two halves of a frame.
LEMMA UnitsTyped ==
    ASSUME NEW f \in Frame
    PROVE  /\ Units(f) \in Seq(Unit) /\ Len(Units(f)) = 2
           /\ Units(f)[1].part = "head" /\ Units(f)[1].frame = f
           /\ Units(f)[2].part = "tail" /\ Units(f)[2].frame = f
BY DEF Units, Unit

\* A frame written at the end keeps a stream in step.
LEMMA AlignedWrite ==
    ASSUME NEW s \in Seq(Unit), Aligned(s), NEW f \in Frame
    PROVE  /\ s \o Units(f) \in Seq(Unit)
           /\ Len(s \o Units(f)) = Len(s) + 2
           /\ \A i \in 1..Len(s) : (s \o Units(f))[i] = s[i]
           /\ (s \o Units(f))[Len(s) + 1] = Units(f)[1]
           /\ (s \o Units(f))[Len(s) + 2] = Units(f)[2]
           /\ Aligned(s \o Units(f))
<1> DEFINE u == Units(f)
           t == s \o u
<1>0. u \in Seq(Unit) /\ Len(u) = 2
  BY UnitsTyped
<1> HIDE DEF u
<1>1. /\ t \in Seq(Unit) /\ Len(t) = Len(s) + 2 /\ Len(s) \in Nat
      /\ \A i \in 1..Len(s) : t[i] = s[i]
      /\ t[Len(s) + 1] = u[1] /\ t[Len(s) + 2] = u[2]
  BY <1>0, ConcatTwo
<1> HIDE DEF t
<1>2. /\ \A i \in 1..Len(s) : t[i] = s[i]
      /\ t[Len(s) + 1] = u[1] /\ t[Len(s) + 2] = u[2]
  BY <1>1
<1>3. Len(t) % 2 = 0 /\ Len(s) % 2 = 0
  BY <1>1, Parity DEF Aligned
<1>4. ASSUME NEW i \in 1..Len(t), i % 2 = 1
      PROVE  t[i] = Units(t[i].frame)[1] /\ t[i + 1] = Units(t[i].frame)[2]
  <2>1. i # Len(s) /\ i # Len(s) + 2
    BY <1>1, <1>3, <1>4
  <2>2. CASE i < Len(s)
    <3>1. i \in 1..Len(s) /\ i + 1 \in 1..Len(s)
      BY <1>1, <1>4, <2>2
    <3>2. t[i] = s[i] /\ t[i + 1] = s[i + 1]
      BY <1>2, <3>1
    <3>3. QED
      BY <1>4, <3>1, <3>2 DEF Aligned
  <2>3. CASE i = Len(s) + 1
    BY <1>1, <1>2, <2>3, UnitsTyped DEF u
  <2>4. QED
    BY <1>1, <1>4, <2>1, <2>2, <2>3
<1>5. QED
  BY <1>1, <1>2, <1>3, <1>4 DEF t, u, Aligned

\* A frame taken from the front leaves a stream in step.
LEMMA AlignedRead ==
    ASSUME NEW s \in Seq(Unit), Aligned(s), NEW t \in Seq(Unit), Len(s) = Len(t) + 2,
           \A i \in 1..Len(t) : t[i] = s[i + 2]
    PROVE  Aligned(t)
<1>1. Len(s) \in Nat /\ Len(t) \in Nat
  OBVIOUS
<1>2. Len(t) % 2 = 0
  BY <1>1, Parity DEF Aligned
<1>3. ASSUME NEW i \in 1..Len(t), i % 2 = 1
      PROVE  t[i] = Units(t[i].frame)[1] /\ t[i + 1] = Units(t[i].frame)[2]
  <2>1. i + 2 \in 1..Len(s) /\ (i + 2) % 2 = 1 /\ i # Len(t)
    BY <1>1, <1>2, <1>3, Parity
  <2>2. t[i] = s[i + 2] /\ t[i + 1] = s[i + 3] /\ (i + 2) + 1 = i + 3
    BY <1>1, <1>3, <2>1
  <2>3. QED
    BY <2>1, <2>2 DEF Aligned
<1>4. QED
  BY <1>2, <1>3 DEF Aligned

LEMMA UnitsRegroup == \A s, a, b \in Seq(Unit) : (s \o a) \o b = s \o (a \o b)
<1> DEFINE S == Unit
<1> HIDE DEF S
<1>1. \A s, a, b \in Seq(S) : (s \o a) \o b = s \o (a \o b)
  BY ConcatRegroup
<1>2. QED
  BY <1>1 DEF S

\* A chunk moves from the wire to the buffer: the stream is the same.
LEMMA ChunkMoves ==
    ASSUME NEW s \in Seq(Unit), NEW w \in Seq(Unit), NEW n \in 1..Len(w)
    PROVE  /\ SubSeq(w, 1, n) \in Seq(Unit) /\ SubSeq(w, n + 1, Len(w)) \in Seq(Unit)
           /\ (s \o SubSeq(w, 1, n)) \o SubSeq(w, n + 1, Len(w)) = s \o w
<1>1. Len(w) \in Nat /\ n \in Nat /\ \A i \in 1..Len(w) : w[i] \in Unit
  BY ElementOfSeq
<1>2. SubSeq(w, 1, n) \in Seq(Unit) /\ SubSeq(w, n + 1, Len(w)) \in Seq(Unit)
  BY <1>1, SubSeqProperties
<1>3. SubSeq(w, 1, n) \o SubSeq(w, n + 1, Len(w)) = w
  <2>1. SubSeq(w, 1, n) \o SubSeq(w, n + 1, Len(w)) = SubSeq(w, 1, Len(w))
    BY <1>1, ConcatAdjacentSubSeq
  <2>2. SubSeq(w, 1, Len(w)) = w
    BY SubSeqFull
  <2>3. QED
    BY <2>1, <2>2
<1>4. \A a, b \in Seq(Unit) : (s \o a) \o b = s \o (a \o b)
  BY UnitsRegroup, Zenon
<1> DEFINE p == SubSeq(w, 1, n)
           q == SubSeq(w, n + 1, Len(w))
<1>5. p \in Seq(Unit) /\ q \in Seq(Unit) /\ p \o q = w
  BY <1>2, <1>3
<1> HIDE DEF p, q
<1>6. (s \o p) \o q = s \o (p \o q)
  BY <1>4, <1>5, Zenon
<1>7. (s \o p) \o q = s \o w
  BY <1>5, <1>6, Zenon
<1>8. QED
  BY <1>2, <1>7 DEF p, q

\* The frame at the front of a buffer is that of the stream.
LEMMA FrameRead ==
    ASSUME NEW s \in Seq(Unit), NEW w \in Seq(Unit), Len(s) >= 2
    PROVE  LET t == SubSeq(s, 3, Len(s)) IN
           /\ t \in Seq(Unit) /\ t \o w \in Seq(Unit)
           /\ Len(s \o w) = Len(t \o w) + 2
           /\ \A i \in 1..Len(t \o w) : (t \o w)[i] = (s \o w)[i + 2]
<1> DEFINE t == SubSeq(s, 3, Len(s))
<1>1. Len(s) \in Nat /\ Len(w) \in Nat
  OBVIOUS
<1>2. /\ t \in Seq(Unit) /\ Len(t) = Len(s) - 2
      /\ \A i \in 1..Len(s) - 2 : t[i] = s[i + 2]
  BY DropTwo
<1> HIDE DEF t
<1>3. /\ t \o w \in Seq(Unit) /\ Len(t \o w) = Len(t) + Len(w)
      /\ \A i \in 1..Len(t) + Len(w) : (t \o w)[i] = IF i <= Len(t) THEN t[i] ELSE w[i - Len(t)]
  BY <1>2, ConcatIs
<1>4. /\ Len(s \o w) = Len(s) + Len(w)
      /\ \A i \in 1..Len(s) + Len(w) : (s \o w)[i] = IF i <= Len(s) THEN s[i] ELSE w[i - Len(s)]
  BY ConcatIs
<1>5. ASSUME NEW i \in 1..Len(t \o w) PROVE (t \o w)[i] = (s \o w)[i + 2]
  <2>1. i \in Nat /\ i + 2 \in 1..Len(s) + Len(w) /\ i \in 1..Len(t) + Len(w)
    BY <1>1, <1>2, <1>3
  <2>2. CASE i <= Len(t)
    BY <1>1, <1>2, <1>3, <1>4, <2>1, <2>2
  <2>3. CASE i > Len(t)
    <3>1. (t \o w)[i] = w[i - Len(t)] /\ (s \o w)[i + 2] = w[(i + 2) - Len(s)]
      BY <1>1, <1>2, <1>3, <1>4, <2>1, <2>3
    <3>2. (i + 2) - Len(s) = i - Len(t)
      BY <1>1, <1>2, <2>1
    <3>3. QED
      BY <3>1, <3>2
  <2>4. QED
    BY <1>1, <1>2, <2>1, <2>2, <2>3
<1>6. /\ t \in Seq(Unit) /\ t \o w \in Seq(Unit)
      /\ Len(s \o w) = Len(t \o w) + 2
  BY <1>1, <1>2, <1>3, <1>4
<1>7. QED
  BY <1>5, <1>6, Zenon DEF t

-----------------------------------------------------------------------------
(* What steps do to the parts of the invariant. *)

Outcomes == [Claim -> {"unsent", "sending", "sent", "failed"}]

CallerState == [pc : {"idle", "connecting", "answer", "listed"}, claim : SUBSET Claim,
                id : Ids \cup {0}, method : Methods, catalogue : Catalogue \cup {NoTools}]

Requests == [id : Ids, method : Methods, claim : Claim, socket : Sockets]

ClientState == [socket : Sockets \cup {NoSocket}, destroyed : BOOLEAN, reading : BOOLEAN,
                pendingData : Seq(Unit), pending : SUBSET Ids, nextId : Nat \ {0},
                tools : Catalogue \cup {NoTools}]

DesktopState == [accepted : 0..MaxConnections, open : BOOLEAN, wire : Seq(Unit),
                 frames : 0..MaxFrames, spoiled : SUBSET Sockets, performed : SUBSET Claim]

\* The fields of the records have their types.
LEMMA Fields ==
    ASSUME Typed
    PROVE  /\ client \in ClientState /\ desktop \in DesktopState
           /\ client.socket \in Sockets \cup {NoSocket}
           /\ client.destroyed \in BOOLEAN /\ client.reading \in BOOLEAN
           /\ client.pendingData \in Seq(Unit) /\ client.pending \in SUBSET Ids
           /\ client.nextId \in Nat \ {0} /\ client.tools \in Catalogue \cup {NoTools}
           /\ desktop.accepted \in 0..MaxConnections /\ desktop.wire \in Seq(Unit)
           /\ desktop.frames \in 0..MaxFrames /\ desktop.spoiled \in SUBSET Sockets
           /\ desktop.performed \in SUBSET Claim /\ desktop.open \in BOOLEAN
           /\ caller.claim \in SUBSET Claim /\ caller.method \in Methods
           /\ caller.id \in Ids \cup {0}
           /\ caller.catalogue \in Catalogue \cup {NoTools}
           /\ caller.pc \in {"idle", "connecting", "answer", "listed"}
<1>1. client \in ClientState
  BY DEF Typed, ClientState
<1>2. desktop \in DesktopState
  BY DEF Typed, DesktopState
<1>3. /\ caller.claim \in SUBSET Claim /\ caller.method \in Methods
      /\ caller.id \in Ids \cup {0}
      /\ caller.catalogue \in Catalogue \cup {NoTools}
      /\ caller.pc \in {"idle", "connecting", "answer", "listed"}
  BY DEF Typed
<1>4. /\ client.socket \in Sockets \cup {NoSocket}
      /\ client.destroyed \in BOOLEAN /\ client.reading \in BOOLEAN
      /\ client.pendingData \in Seq(Unit) /\ client.pending \in SUBSET Ids
      /\ client.nextId \in Nat \ {0} /\ client.tools \in Catalogue \cup {NoTools}
  BY <1>1 DEF ClientState
<1>5. /\ desktop.accepted \in 0..MaxConnections /\ desktop.wire \in Seq(Unit)
      /\ desktop.frames \in 0..MaxFrames /\ desktop.spoiled \in SUBSET Sockets
      /\ desktop.performed \in SUBSET Claim /\ desktop.open \in BOOLEAN
  BY <1>2 DEF DesktopState
<1>6. QED
  BY <1>1, <1>2, <1>3, <1>4, <1>5

\* Frames stay true.
LEMMA GoodStays ==
    ASSUME NEW f, NEW a, NEW b, a \subseteq b, NEW p, NEW q, p.accepted = q.accepted,
           p.spoiled \subseteq q.spoiled, p.performed \subseteq q.performed, GoodFrame(f, a, p)
    PROVE  GoodFrame(f, b, q)
BY DEF GoodFrame

\* The stream, where nothing is read and nothing written.
LEMMA StreamStays ==
    ASSUME Connection, Truthful,
           client'.socket = client.socket, client'.pendingData = client.pendingData,
           client'.destroyed \/ client'.reading => client'.socket # NoSocket,
           desktop'.wire = desktop.wire, desktop'.accepted = desktop.accepted,
           desktop'.open => desktop.open, desktop.spoiled \subseteq desktop'.spoiled,
           desktop.performed \subseteq desktop'.performed, asked \subseteq asked'
    PROVE  Connection' /\ Truthful'
<1>1. Stream' = Stream
  BY DEF Stream
<1>2. Connection'
  BY <1>1 DEF Connection
<1>3. \A f : GoodFrame(f, asked, desktop) => GoodFrame(f, asked', desktop')
  BY GoodStays
<1>4. Truthful'
  BY <1>1, <1>3 DEF Truthful
<1>5. QED
  BY <1>2, <1>4

\* The one attempt.
LEMMA CurrentIs ==
    ASSUME NEW c \in Claim, caller.claim = {c}
    PROVE  Current = c
BY DEF Current

\* The caller has come back, and no request is pending.
LEMMA RestKeeps ==
    ASSUME IInv, outcome' \in Outcomes, caller' = AtRest, asked' = asked,
           \A c \in Claim : /\ outcome'[c] # "sending"
                            /\ outcome[c] # "unsent" => outcome'[c] # "unsent",
           client'.pending = {}, client'.nextId = client.nextId
    PROVE  caller' \in CallerState /\ OneAttempt' /\ Awaited' /\ Numbered' /\ CalledOnce'
<1>1. caller'.pc = "idle" /\ caller'.claim = {}
  BY DEF AtRest
<1>2. caller' \in CallerState
  BY DEF AtRest, Methods, CallerState
<1>3. OneAttempt'
  BY <1>1 DEF OneAttempt
<1>4. Awaited'
  BY <1>1 DEF Awaited
<1>5. Numbered'
  BY DEF IInv, Numbered
<1>6. CalledOnce'
  <2>1. \A r \in asked : r.claim \in Claim
    BY DEF IInv, Typed
  <2>2. QED
    BY <2>1 DEF IInv, CalledOnce
<1>7. QED
  BY <1>2, <1>3, <1>4, <1>5, <1>6

\* An attempt is settled.
LEMMA SettledIs ==
    ASSUME IInv, NEW result \in {"sent", "failed"}, outcome' = Settled(result)
    PROVE  /\ outcome' \in Outcomes
           /\ \A c \in Claim : outcome'[c] = IF c \in caller.claim THEN result ELSE outcome[c]
           /\ \A c \in Claim : /\ outcome'[c] # "sending"
                               /\ outcome[c] # "unsent" => outcome'[c] # "unsent"
<1>1. /\ outcome \in Outcomes
      /\ \A c \in Claim : c \in caller.claim <=> outcome[c] = "sending"
  BY DEF IInv, Typed, OneAttempt, Outcomes
<1>2. \A c \in Claim : outcome'[c] = IF c \in caller.claim THEN result ELSE outcome[c]
  BY DEF Settled
<1>3. \A c \in Claim : /\ outcome'[c] # "sending"
                       /\ outcome[c] # "unsent" => outcome'[c] # "unsent"
  BY <1>1, <1>2
<1>4. outcome' \in Outcomes
  BY <1>1 DEF Settled, Outcomes
<1>5. QED
  BY <1>2, <1>3, <1>4

\* The connection is gone, and with it what was pending.
LEMMA DisconnectKeeps ==
    ASSUME IInv, OnDisconnect, asked' = asked, desktop' \in DesktopState,
           desktop'.open => desktop.open, desktop'.accepted = desktop.accepted,
           desktop.spoiled \subseteq desktop'.spoiled,
           caller.pc = "listed" => client.socket \in desktop.spoiled
    PROVE  IInv'
<1>1. Typed
  BY DEF IInv
<1>2. /\ client'.socket = NoSocket /\ ~client'.destroyed /\ ~client'.reading
      /\ client'.tools = NoTools /\ client'.pendingData = <<>> /\ client'.pending = {}
      /\ client'.nextId = client.nextId
      /\ client' \in ClientState
  <2>1. client \in ClientState /\ <<>> \in Seq(Unit)
    BY <1>1, Fields
  <2>2. client' = [client EXCEPT !.socket = NoSocket, !.destroyed = FALSE, !.reading = FALSE,
                                 !.tools = NoTools, !.pendingData = <<>>, !.pending = {}]
    BY DEF OnDisconnect
  <2>3. client' \in ClientState
    BY <2>1, <2>2 DEF ClientState
  <2>4. QED
    BY <2>1, <2>2, <2>3 DEF ClientState
<1>3. Connection' /\ Truthful'
  BY <1>2 DEF IInv, Connection, Truthful
<1>4. CASE caller.pc = "answer"
  <2>1. outcome' = Settled("failed") /\ caller' = AtRest
    BY <1>4 DEF OnDisconnect
  <2>2. /\ outcome' \in Outcomes /\ caller' \in CallerState
        /\ OneAttempt' /\ Awaited' /\ Numbered' /\ CalledOnce'
    BY <1>2, <2>1, SettledIs, RestKeeps
  <2>3. Catalogues'
    BY <1>2, <2>1 DEF Catalogues, AtRest
  <2>4. Typed'
    BY <1>1, <1>2, <2>2 DEF Typed, ClientState, DesktopState, CallerState, Outcomes
  <2>5. QED
    BY <1>3, <2>2, <2>3, <2>4 DEF IInv
<1>5. CASE caller.pc # "answer"
  <2>1. outcome' = outcome /\ caller' = caller
    BY <1>5 DEF OnDisconnect
  <2>2. Typed'
    BY <1>1, <1>2, <2>1 DEF Typed, ClientState, DesktopState
  <2>3. OneAttempt' /\ Awaited' /\ Numbered'
    BY <1>2, <1>5, <2>1 DEF IInv, OneAttempt, Awaited, Numbered
  <2>4. CalledOnce'
    BY <2>1 DEF IInv, CalledOnce
  <2>5. Catalogues'
    BY <1>2, <2>1 DEF IInv, Catalogues, Recent
  <2>6. QED
    BY <1>3, <2>2, <2>3, <2>4, <2>5 DEF IInv
<1>6. QED
  BY <1>4, <1>5

\* A request is written for the one attempt, none pending before it.
LEMMA WrittenKeeps ==
    ASSUME IInv, NEW now \in ClientState, now.pending = {}, now.nextId = client.nextId,
           NEW claim \in Claim, NEW method \in Methods, NEW socket \in Sockets,
           now.socket = socket, Written(now, claim, method, socket),
           \A c \in Claim : outcome[c] = "sending" => c = claim,
           outcome' = [outcome EXCEPT ![claim] = "sending"],
           outcome[claim] \in {"unsent", "sending"}, caller.pc # "answer"
    PROVE  /\ outcome' \in Outcomes /\ caller' \in CallerState /\ client' \in ClientState
           /\ asked' \subseteq Requests /\ asked \subseteq asked'
           /\ OneAttempt' /\ Awaited' /\ Numbered' /\ CalledOnce'
           /\ caller'.pc = "answer"
           /\ client'.socket = now.socket /\ client'.destroyed = now.destroyed
           /\ client'.reading = now.reading /\ client'.pendingData = now.pendingData
           /\ client'.tools = now.tools
<1> DEFINE id == client.nextId
           new == [id |-> id, method |-> method, claim |-> claim, socket |-> socket]
<1>0. Typed /\ id \in Ids /\ id \in Nat
  BY Fields DEF IInv, Ids
<1>1. /\ client' = [now EXCEPT !.pending = {id}, !.nextId = id + 1]
      /\ asked' = asked \cup {new}
      /\ caller' = [AtRest EXCEPT !.pc = "answer", !.claim = {claim}, !.id = id,
                                  !.method = method]
  <2>1. now.pending \cup {now.nextId} = {id} /\ now.nextId + 1 = id + 1
    OBVIOUS
  <2>2. QED
    BY <2>1 DEF Written
<1>2. /\ new.id = id /\ new.method = method /\ new.claim = claim /\ new.socket = socket
      /\ new \in Requests
  BY <1>0 DEF Requests
<1> HIDE DEF new
<1>3. /\ client' \in ClientState /\ client'.pending = {id} /\ client'.nextId = id + 1
      /\ client'.socket = socket /\ client'.destroyed = now.destroyed
      /\ client'.reading = now.reading /\ client'.pendingData = now.pendingData
      /\ client'.tools = now.tools
  <2>1. id \in Nat \ {0} /\ id + 1 \in Nat \ {0} /\ {id} \in SUBSET Ids
    BY <1>0 DEF Ids
  <2>2. client' = [now EXCEPT !.pending = {id}, !.nextId = id + 1]
    BY <1>1
  <2> HIDE DEF id
  <2>3. client' \in ClientState
    BY <2>1, <2>2 DEF ClientState
  <2>4. QED
    BY <2>1, <2>2, <2>3 DEF ClientState
<1>4. /\ caller'.pc = "answer" /\ caller'.claim = {claim} /\ caller'.id = id
      /\ caller'.method = method
      /\ caller' \in CallerState
  BY <1>0, <1>1 DEF AtRest, CallerState
<1>5. outcome' \in Outcomes
  BY <1>0 DEF Typed, Outcomes
<1>6. \A c \in Claim : outcome'[c] = IF c = claim THEN "sending" ELSE outcome[c]
  BY <1>0 DEF Typed
<1>7. asked' \subseteq Requests
  BY <1>0, <1>1, <1>2 DEF Typed, Requests
<1>8. OneAttempt'
  BY <1>4, <1>6 DEF OneAttempt
<1>9. Awaited'
  BY <1>1, <1>2, <1>3, <1>4 DEF Awaited
<1>10. Numbered'
  <2>1. /\ \A r \in asked : r.id < id /\ r.id \in Nat
        /\ \A r, q \in asked : r.id = q.id => r = q
    BY <1>0 DEF IInv, Numbered, Typed, Ids
  <2>2. \A r \in asked' : r.id < id + 1
    BY <1>0, <1>1, <1>2, <2>1
  <2>3. \A r, q \in asked' : r.id = q.id => r = q
    BY <1>0, <1>1, <1>2, <2>1
  <2>4. QED
    BY <1>3, <2>2, <2>3 DEF Numbered
<1>11. CalledOnce'
  <2>1. /\ \A r \in asked : r.method = "tools/call" =>
             /\ outcome[r.claim] # "unsent"
             /\ outcome[r.claim] = "sending" => caller.pc = "answer"
        /\ \A r, q \in asked :
             r.method = "tools/call" /\ q.method = "tools/call" /\ r.claim = q.claim => r = q
        /\ \A r \in asked : r.claim \in Claim
    BY <1>0 DEF IInv, CalledOnce, Typed
  <2>2. \A r \in asked : r.method = "tools/call" => r.claim # claim
    BY <2>1
  <2>3. ASSUME NEW r \in asked', r.method = "tools/call"
        PROVE  /\ outcome'[r.claim] # "unsent"
               /\ outcome'[r.claim] = "sending" =>
                    caller'.pc = "answer" /\ caller'.method = "tools/call"
    <3>1. CASE r = new
      BY <1>2, <1>4, <1>6, <2>3, <3>1
    <3>2. CASE r \in asked
      <4>1. /\ outcome[r.claim] # "sending" /\ outcome[r.claim] # "unsent"
            /\ r.claim \in Claim /\ r.claim # claim
        BY <2>1, <2>2, <2>3, <3>2
      <4>2. QED
        BY <1>6, <4>1
    <3>3. QED
      BY <1>1, <3>1, <3>2
  <2>4. ASSUME NEW r \in asked', NEW q \in asked', r.method = "tools/call",
               q.method = "tools/call", r.claim = q.claim
        PROVE  r = q
    BY <1>1, <1>2, <2>1, <2>2, <2>4
  <2>5. QED
    BY <2>3, <2>4 DEF CalledOnce
<1>12. QED
  BY <1>1, <1>3, <1>4, <1>5, <1>7, <1>8, <1>9, <1>10, <1>11


\* Every part is typed.
LEMMA TypedIs ==
    Typed <=> /\ outcome \in Outcomes /\ caller \in CallerState /\ client \in ClientState
              /\ asked \subseteq Requests /\ desktop \in DesktopState
BY DEF Typed, Outcomes, CallerState, ClientState, Requests, DesktopState

\* A request of the one attempt, written or waiting for its connection.
LEMMA RequestKeeps ==
    ASSUME IInv, NEW tools \in Catalogue \cup {NoTools}, tools # NoTools => Recent(tools),
           NEW claim \in Claim, NEW method \in Methods, caller.pc \in {"idle", "listed"},
           Request([client EXCEPT !.tools = tools], claim, method),
           \A c \in Claim : outcome[c] = "sending" => c = claim,
           outcome[claim] \in {"unsent", "sending"},
           outcome' = [outcome EXCEPT ![claim] = "sending"], desktop' = desktop
    PROVE  IInv'
<1> DEFINE now == [client EXCEPT !.tools = tools]
<1>1. Typed
  BY DEF IInv
<1>2. now \in ClientState /\ now.pending = {}
  BY <1>1, Fields DEF ClientState, IInv, Awaited
<1>3. /\ now.nextId = client.nextId /\ now.socket = client.socket
      /\ now.destroyed = client.destroyed /\ now.reading = client.reading
      /\ now.pendingData = client.pendingData /\ now.tools = tools
      /\ now.pending = client.pending
  BY <1>1, Fields DEF ClientState
<1>4. Request(now, claim, method)
  OBVIOUS
<1> HIDE DEF now
<1>5. CASE now.socket # NoSocket /\ ~now.destroyed
  <2>1. Written(now, claim, method, now.socket)
    BY <1>4, <1>5 DEF Request
  <2>2. now.socket \in Sockets
    BY <1>1, <1>3, <1>5, Fields
  <2>3. /\ outcome' \in Outcomes /\ caller' \in CallerState /\ client' \in ClientState
        /\ asked' \subseteq Requests /\ asked \subseteq asked'
        /\ OneAttempt' /\ Awaited' /\ Numbered' /\ CalledOnce'
        /\ caller'.pc = "answer"
        /\ client'.socket = now.socket /\ client'.destroyed = now.destroyed
        /\ client'.reading = now.reading /\ client'.pendingData = now.pendingData
        /\ client'.tools = now.tools
    BY <1>2, <1>3, <2>1, <2>2, WrittenKeeps
  <2>4. Connection' /\ Truthful'
    BY <1>3, <1>5, <2>3, StreamStays DEF IInv
  <2>5. Catalogues'
    BY <1>3, <2>3 DEF Catalogues, Recent
  <2>6. Typed'
    BY <1>1, <2>3 DEF Typed, Outcomes, CallerState, ClientState, Requests
  <2>7. QED
    BY <2>3, <2>4, <2>5, <2>6 DEF IInv
<1>6. CASE ~(now.socket # NoSocket /\ ~now.destroyed)
  <2>1. /\ caller' = [AtRest EXCEPT !.pc = "connecting", !.claim = {claim}, !.method = method]
        /\ client' = now /\ asked' = asked
    BY <1>4, <1>6 DEF Request
  <2>2. caller' \in CallerState /\ caller'.pc = "connecting" /\ caller'.claim = {claim}
    BY <2>1 DEF AtRest, CallerState
  <2>3. /\ outcome \in Outcomes /\ outcome' \in Outcomes
        /\ \A c \in Claim : outcome'[c] = IF c = claim THEN "sending" ELSE outcome[c]
    BY <1>1 DEF Typed, Outcomes
  <2>4. OneAttempt'
    BY <2>2, <2>3 DEF OneAttempt
  <2>5. Awaited'
    BY <1>2, <2>1, <2>2 DEF Awaited
  <2>6. Numbered'
    BY <1>3, <2>1 DEF IInv, Numbered
  <2>7. CalledOnce'
    <3>1. /\ \A r \in asked : r.claim \in Claim
          /\ \A r \in asked : r.method = "tools/call" =>
               /\ outcome[r.claim] # "unsent"
               /\ outcome[r.claim] = "sending" => caller.pc = "answer"
      BY <1>1 DEF IInv, CalledOnce, Typed
    <3>2. \A r \in asked : r.method = "tools/call" =>
               outcome'[r.claim] # "unsent" /\ outcome'[r.claim] # "sending"
      BY <2>3, <3>1
    <3>3. QED
      BY <2>1, <3>2 DEF IInv, CalledOnce
  <2>8. Connection' /\ Truthful'
    BY <1>3, <2>1, StreamStays DEF IInv, Connection
  <2>9. Catalogues'
    BY <1>3, <2>1, <2>2 DEF Catalogues, Recent
  <2>10. Typed'
    BY <1>1, <1>2, <2>1, <2>2, <2>3 DEF Typed, Outcomes, CallerState, ClientState
  <2>11. QED
    BY <2>4, <2>5, <2>6, <2>7, <2>8, <2>9, <2>10 DEF IInv
<1>7. QED
  BY <1>5, <1>6

\* sendContinue with a catalogue in hand.
LEMMA CallToolKeeps ==
    ASSUME IInv, NEW tools \in Catalogue, Recent(tools),
           NEW claim \in Claim, caller.pc \in {"idle", "listed"},
           CallTool([client EXCEPT !.tools = tools], claim, tools),
           \A c \in Claim : outcome[c] = "sending" => c = claim,
           outcome[claim] \in {"unsent", "sending"}, desktop' = desktop
    PROVE  IInv'
<1>1. CASE tools.offers
  BY <1>1, RequestKeeps DEF CallTool, Methods
<1>2. CASE ~tools.offers
  <2>1. Typed
    BY DEF IInv
  <2>2. /\ outcome' = [outcome EXCEPT ![claim] = "failed"] /\ caller' = AtRest
        /\ client' = [client EXCEPT !.tools = tools] /\ asked' = asked
    BY <1>2 DEF CallTool
  <2>3. /\ client' \in ClientState /\ client'.pending = {}
        /\ client'.nextId = client.nextId /\ client'.socket = client.socket
        /\ client'.destroyed = client.destroyed /\ client'.reading = client.reading
        /\ client'.pendingData = client.pendingData /\ client'.tools = tools
    BY <2>1, <2>2, Fields DEF ClientState, IInv, Awaited
  <2>4. /\ outcome \in Outcomes /\ outcome' \in Outcomes
        /\ \A c \in Claim : outcome'[c] = IF c = claim THEN "failed" ELSE outcome[c]
    BY <2>1, <2>2 DEF Typed, Outcomes
  <2>5. /\ caller' \in CallerState
        /\ OneAttempt' /\ Awaited' /\ Numbered' /\ CalledOnce'
    BY <2>2, <2>3, <2>4, RestKeeps
  <2>6. Connection' /\ Truthful'
    BY <2>2, <2>3, StreamStays DEF IInv, Connection
  <2>7. Catalogues'
    BY <2>2, <2>3 DEF Catalogues, Recent, AtRest
  <2>8. Typed'
    BY <2>1, <2>2, <2>3, <2>4, <2>5 DEF Typed, Outcomes, CallerState, ClientState
  <2>9. QED
    BY <2>5, <2>6, <2>7, <2>8 DEF IInv
<1>3. QED
  BY <1>1, <1>2


-----------------------------------------------------------------------------
(* The steps. *)

LEMMA InvInit == Init => IInv
<1> SUFFICES ASSUME Init PROVE IInv
  OBVIOUS
<1>1. Typed
  <2>1. /\ {} \in SUBSET Claim /\ <<>> \in Seq(Unit) /\ 0 \in 0..MaxConnections
        /\ 0 \in 0..MaxFrames /\ {} \in SUBSET Ids /\ {} \in SUBSET Sockets
        /\ 1 \in Nat \ {0}
    BY NativePipeAssumption
  <2>2. client \in ClientState /\ desktop \in DesktopState
    BY <2>1 DEF Init, ClientState, DesktopState
  <2>3. outcome \in Outcomes /\ caller \in CallerState
    BY <2>1 DEF Init, AtRest, Outcomes, CallerState, Methods
  <2>4. asked \subseteq Requests
    BY DEF Init
  <2>5. QED
    BY <2>2, <2>3, <2>4, TypedIs
<1>2. OneAttempt /\ Connection /\ Truthful
  BY DEF Init, AtRest, OneAttempt, Connection, Truthful
<1>3. Awaited /\ Numbered /\ CalledOnce /\ Catalogues
  BY DEF Init, AtRest, Awaited, Numbered, CalledOnce, Catalogues
<1>4. QED
  BY <1>1, <1>2, <1>3 DEF IInv

LEMMA SendContinueKeeps ==
    ASSUME IInv, NEW claim \in Claim, SendContinue(claim)
    PROVE  IInv'
<1>1. /\ caller.pc = "idle" /\ outcome[claim] = "unsent" /\ desktop' = desktop
      /\ \A c \in Claim : outcome[c] # "sending"
  BY DEF SendContinue, IInv, OneAttempt
<1>2. /\ client.tools \in Catalogue \cup {NoTools}
      /\ [client EXCEPT !.tools = client.tools] = client
      /\ client.tools # NoTools => Recent(client.tools)
  BY Fields DEF IInv, Catalogues, ClientState
<1>3. CASE client.tools # NoTools
  <2>1. CallTool([client EXCEPT !.tools = client.tools], claim, client.tools)
    BY <1>2, <1>3 DEF SendContinue
  <2>2. QED
    BY <1>1, <1>2, <1>3, <2>1, CallToolKeeps
<1>4. CASE client.tools = NoTools
  <2>1. /\ Request([client EXCEPT !.tools = client.tools], claim, "tools/list")
        /\ outcome' = [outcome EXCEPT ![claim] = "sending"]
    BY <1>2, <1>4 DEF SendContinue
  <2>2. "tools/list" \in Methods
    BY DEF Methods
  <2>3. QED
    BY <1>1, <1>2, <2>1, <2>2, RequestKeeps
<1>5. QED
  BY <1>3, <1>4

\* Whose attempt is under way.
LEMMA UnderWay ==
    ASSUME IInv, caller.pc # "idle"
    PROVE  /\ Current \in Claim /\ caller.claim = {Current} /\ outcome[Current] = "sending"
           /\ \A c \in Claim : outcome[c] = "sending" => c = Current
<1>1. PICK c \in Claim : caller.claim = {c}
  BY DEF IInv, OneAttempt
<1>2. Current = c
  BY <1>1, CurrentIs
<1>3. QED
  BY <1>1, <1>2 DEF IInv, OneAttempt

LEMMA ListedKeeps ==
    ASSUME IInv, Listed
    PROVE  IInv'
<1>1. /\ caller.pc = "listed" /\ desktop' = desktop
      /\ CallTool([client EXCEPT !.tools = caller.catalogue], Current, caller.catalogue)
  BY DEF Listed
<1>2. caller.catalogue \in Catalogue /\ Recent(caller.catalogue)
  BY <1>1 DEF IInv, Catalogues
<1>3. QED
  BY <1>1, <1>2, UnderWay, CallToolKeeps

LEMMA ConnectedKeeps ==
    ASSUME IInv, Connected
    PROVE  IInv'
<1> DEFINE socket == desktop.accepted + 1
           now == [client EXCEPT !.socket = socket]
<1>1. Typed
  BY DEF IInv
<1>2. /\ ~client.reading /\ caller.pc = "connecting" /\ client.socket = NoSocket
      /\ desktop.accepted < MaxConnections /\ outcome' = outcome
      /\ Written(now, Current, caller.method, socket)
      /\ desktop' = [desktop EXCEPT !.accepted = socket, !.open = TRUE, !.wire = <<>>]
  BY DEF Connected, Quiet
<1>3. socket \in Sockets /\ socket \in 0..MaxConnections
  BY <1>1, <1>2, Fields, NativePipeAssumption DEF Sockets
<1> HIDE DEF socket
<1>4. /\ now \in ClientState /\ now.pending = {} /\ now.nextId = client.nextId
      /\ now.socket = socket /\ now.destroyed = client.destroyed
      /\ now.reading = client.reading /\ now.pendingData = client.pendingData
      /\ now.tools = client.tools
  BY <1>1, <1>2, <1>3, Fields DEF ClientState, IInv, Awaited
<1>5. /\ Current \in Claim /\ outcome[Current] = "sending" /\ caller.method \in Methods
      /\ \A c \in Claim : outcome[c] = "sending" => c = Current
  BY <1>1, <1>2, UnderWay, Fields
<1>6. outcome' = [outcome EXCEPT ![Current] = "sending"]
  BY <1>1, <1>2, <1>5 DEF Typed
<1> HIDE DEF now
<1>7. /\ outcome' \in Outcomes /\ caller' \in CallerState /\ client' \in ClientState
      /\ asked' \subseteq Requests /\ asked \subseteq asked'
      /\ OneAttempt' /\ Awaited' /\ Numbered' /\ CalledOnce'
      /\ caller'.pc = "answer"
      /\ client'.socket = now.socket /\ client'.destroyed = now.destroyed
      /\ client'.reading = now.reading /\ client'.pendingData = now.pendingData
      /\ client'.tools = now.tools
  BY <1>2, <1>3, <1>4, <1>5, <1>6, WrittenKeeps
<1>8. /\ desktop' \in DesktopState /\ desktop'.wire = <<>> /\ desktop'.accepted = socket
      /\ desktop'.spoiled = desktop.spoiled
  <2>1. desktop \in DesktopState /\ <<>> \in Seq(Unit)
    BY <1>1, Fields
  <2>2. desktop' \in DesktopState
    BY <1>2, <1>3, <2>1 DEF DesktopState
  <2>3. QED
    BY <1>2, <2>1, <2>2 DEF DesktopState
<1>9. Typed'
  BY <1>7, <1>8 DEF Typed, Outcomes, CallerState, ClientState, Requests, DesktopState
<1>10. ~client.destroyed /\ ~client.reading /\ client.pendingData = <<>>
  BY <1>2, Fields, <1>1 DEF IInv, Connection
<1>11. Stream' = <<>>
  BY <1>4, <1>7, <1>8, <1>10 DEF Stream
<1>12. Aligned(<<>>)
  BY DEF Aligned
<1>13. Connection' /\ Truthful'
  <2>1. client'.socket = socket /\ ~client'.destroyed /\ ~client'.reading
    BY <1>4, <1>7, <1>10
  <2>2. socket # NoSocket
    BY <1>3 DEF Sockets, NoSocket
  <2>3. Connection'
    BY <1>3, <1>8, <1>11, <1>12, <2>1, <2>2 DEF Connection
  <2>4. Truthful'
    BY <1>11 DEF Truthful
  <2>5. QED
    BY <2>3, <2>4
<1>14. Catalogues'
  <2>1. client.tools # NoTools => client.tools.from # NoSocket
    BY <1>1, Fields DEF Catalogue, Sockets, NoSocket
  <2>2. client.tools # NoTools => client.tools.from \in desktop.spoiled
    BY <1>2, <2>1 DEF IInv, Catalogues, Recent
  <2>3. QED
    BY <1>4, <1>7, <1>8, <2>2 DEF Catalogues, Recent
<1>15. QED
  BY <1>7, <1>9, <1>13, <1>14 DEF IInv

\* The caller comes back, the connection as it was.
LEMMA FailsKeeps ==
    ASSUME IInv, outcome' = Settled("failed"), caller' = AtRest,
           client' = [client EXCEPT !.pending = {}], UNCHANGED <<asked, desktop>>
    PROVE  IInv'
<1>1. Typed
  BY DEF IInv
<1>2. /\ client' \in ClientState /\ client'.pending = {} /\ client'.nextId = client.nextId
      /\ client'.socket = client.socket /\ client'.destroyed = client.destroyed
      /\ client'.reading = client.reading /\ client'.pendingData = client.pendingData
      /\ client'.tools = client.tools
  BY <1>1, Fields DEF ClientState
<1>3. /\ outcome' \in Outcomes /\ caller' \in CallerState
      /\ OneAttempt' /\ Awaited' /\ Numbered' /\ CalledOnce'
  BY <1>2, SettledIs, RestKeeps
<1>4. Connection' /\ Truthful'
  BY <1>2, StreamStays DEF IInv, Connection
<1>5. Catalogues'
  BY <1>2 DEF IInv, Catalogues, Recent, AtRest
<1>6. Typed'
  BY <1>1, <1>2, <1>3 DEF Typed, Outcomes, CallerState, ClientState
<1>7. QED
  BY <1>3, <1>4, <1>5, <1>6 DEF IInv

LEMMA ConnectFailsKeeps ==
    ASSUME IInv, ConnectFails
    PROVE  IInv'
<1>1. client.pending = {}
  BY DEF ConnectFails, IInv, Awaited
<1>2. [client EXCEPT !.pending = {}] = client
  BY <1>1, Fields DEF IInv, ClientState
<1>3. QED
  BY <1>2, FailsKeeps DEF ConnectFails

LEMMA TimeoutKeeps ==
    ASSUME IInv, Timeout
    PROVE  IInv'
<1>1. client.pending \ {caller.id} = {}
  BY DEF Timeout, IInv, Awaited
<1>2. client' = [client EXCEPT !.pending = {}]
  BY <1>1 DEF Timeout
<1>3. QED
  BY <1>2, FailsKeeps DEF Timeout


LEMMA OnDataKeeps ==
    ASSUME IInv, OnData
    PROVE  IInv'
<1> DEFINE s == client.pendingData
           w == desktop.wire
<1>1. Typed /\ s \in Seq(Unit) /\ w \in Seq(Unit)
  BY Fields DEF IInv
<1>2. PICK n \in 1..Len(w) :
        /\ client' = [client EXCEPT !.pendingData = s \o SubSeq(w, 1, n), !.reading = TRUE]
        /\ desktop' = [desktop EXCEPT !.wire = SubSeq(w, n + 1, Len(w))]
  BY <1>1, Fields DEF OnData, ClientState, DesktopState
<1>3. UNCHANGED <<outcome, caller, asked>> /\ client.socket # NoSocket
  BY DEF OnData, Open
<1>4. /\ s \o SubSeq(w, 1, n) \in Seq(Unit) /\ SubSeq(w, n + 1, Len(w)) \in Seq(Unit)
      /\ (s \o SubSeq(w, 1, n)) \o SubSeq(w, n + 1, Len(w)) = s \o w
  <2>1. /\ SubSeq(w, 1, n) \in Seq(Unit) /\ SubSeq(w, n + 1, Len(w)) \in Seq(Unit)
        /\ (s \o SubSeq(w, 1, n)) \o SubSeq(w, n + 1, Len(w)) = s \o w
    BY <1>1, ChunkMoves
  <2>2. s \o SubSeq(w, 1, n) \in Seq(Unit)
    BY <1>1, <2>1, ConcatIs
  <2>3. QED
    BY <2>1, <2>2
<1> DEFINE buffer == s \o SubSeq(w, 1, n)
           rest == SubSeq(w, n + 1, Len(w))
<1>5. buffer \in Seq(Unit) /\ rest \in Seq(Unit) /\ buffer \o rest = Stream
  BY <1>4 DEF Stream
<1>6. /\ client' = [client EXCEPT !.pendingData = buffer, !.reading = TRUE]
      /\ desktop' = [desktop EXCEPT !.wire = rest]
  BY <1>2
<1> HIDE DEF buffer, rest
<1>7. /\ client' \in ClientState /\ client'.socket = client.socket
      /\ client'.pendingData = buffer /\ client'.pending = client.pending
      /\ client'.nextId = client.nextId /\ client'.tools = client.tools
      /\ desktop' \in DesktopState /\ desktop'.wire = rest
      /\ desktop'.accepted = desktop.accepted /\ desktop'.open = desktop.open
      /\ desktop'.spoiled = desktop.spoiled /\ desktop'.performed = desktop.performed
  BY <1>1, <1>5, <1>6, Fields DEF ClientState, DesktopState
<1>8. Stream' = Stream
  BY <1>5, <1>7 DEF Stream
<1>9. Connection'
  BY <1>3, <1>7, <1>8 DEF IInv, Connection
<1>10. Truthful'
  BY <1>3, <1>7, <1>8 DEF IInv, Truthful, GoodFrame
<1>11. Typed'
  BY <1>1, <1>3, <1>7, TypedIs DEF Typed, ClientState, DesktopState
<1>12. OneAttempt' /\ Awaited' /\ Numbered' /\ CalledOnce' /\ Catalogues'
  BY <1>3, <1>7 DEF IInv, OneAttempt, Awaited, Numbered, CalledOnce, Catalogues, Recent
<1>13. QED
  BY <1>9, <1>10, <1>11, <1>12 DEF IInv

\* What the reader finds at the front of the buffer begins a frame.
LEMMA FrontIs ==
    ASSUME IInv, client.reading, client.pendingData # <<>>
    PROVE  LET s == client.pendingData
               f == s[1].frame
           IN  /\ client.socket # NoSocket /\ client.socket = desktop.accepted
               /\ f \in Frame /\ s[1].part = "head" /\ GoodFrame(f, asked, desktop)
               /\ Len(s) >= 2 => s[2] = Units(f)[2]
<1> DEFINE s == client.pendingData
           w == desktop.wire
           f == s[1].frame
<1>1. s \in Seq(Unit) /\ w \in Seq(Unit) /\ Len(s) \in Nat /\ Len(s) >= 1 /\ Len(w) \in Nat
  BY Fields DEF IInv
<1>2. /\ client.socket # NoSocket /\ client.socket = desktop.accepted
      /\ Aligned(s \o w) /\ \A i \in 1..Len(s \o w) : GoodFrame((s \o w)[i].frame, asked, desktop)
  BY DEF IInv, Connection, Truthful, Stream
<1> HIDE DEF s, w
<1>3. /\ Len(s \o w) = Len(s) + Len(w) /\ (s \o w)[1] = s[1]
      /\ Len(s) >= 2 => (s \o w)[2] = s[2]
  <2>1. /\ Len(s \o w) = Len(s) + Len(w)
        /\ \A i \in 1..Len(s) + Len(w) : (s \o w)[i] = IF i <= Len(s) THEN s[i] ELSE w[i - Len(s)]
    BY <1>1, ConcatIs
  <2>2. QED
    BY <1>1, <2>1
<1>4. s[1] \in Unit
  BY <1>1, ElementOfSeq
<1>5. f \in Frame
  BY <1>4 DEF Unit
<1>6. 1 \in 1..Len(s \o w) /\ 1 % 2 = 1 /\ 1 + 1 = 2
  BY <1>1, <1>3
<1>7. s[1] = Units(f)[1] /\ (s \o w)[2] = Units(f)[2] /\ GoodFrame(f, asked, desktop)
  BY <1>2, <1>3, <1>6 DEF Aligned
<1>8. s[1].part = "head"
  BY <1>5, <1>7, UnitsTyped
<1>9. QED
  BY <1>2, <1>3, <1>5, <1>7, <1>8 DEF s

LEMMA OnFrameKeeps ==
    ASSUME IInv, OnFrame
    PROVE  IInv'
<1> DEFINE s == client.pendingData
           w == desktop.wire
           f == s[1].frame
           header == s # <<>> /\ s[1].part = "head" /\ f.body # "oversized"
           complete == header /\ Len(s) >= 2
           parsed == complete /\ s[2] = Units(f)[2] /\ f.body # "invalid"
<1>1. /\ Typed /\ s \in Seq(Unit) /\ w \in Seq(Unit) /\ desktop \in DesktopState
      /\ client.reading /\ client.socket # NoSocket
  BY Fields DEF OnFrame, IInv, Connection
<1>2. UNCHANGED <<asked, desktop>>
  BY DEF OnFrame
<1>3. CASE s = <<>> \/ (header /\ ~complete)
  <2>1. client' = [client EXCEPT !.reading = FALSE] /\ UNCHANGED <<outcome, caller>>
    BY <1>3 DEF OnFrame
  <2>2. /\ client' \in ClientState /\ client'.socket = client.socket /\ ~client'.reading
        /\ client'.destroyed = client.destroyed /\ client'.tools = client.tools
        /\ client'.pendingData = client.pendingData /\ client'.pending = client.pending
        /\ client'.nextId = client.nextId
    BY <1>1, <2>1, Fields DEF ClientState
  <2>3. Connection' /\ Truthful'
    BY <1>2, <2>2, StreamStays DEF IInv, Connection
  <2>4. Typed'
    BY <1>1, <1>2, <2>1, <2>2 DEF Typed, ClientState
  <2>5. OneAttempt' /\ Awaited' /\ Numbered' /\ CalledOnce' /\ Catalogues'
    BY <1>2, <2>1, <2>2 DEF IInv, OneAttempt, Awaited, Numbered, CalledOnce, Catalogues, Recent
  <2>6. QED
    BY <2>3, <2>4, <2>5 DEF IInv
<1>4. CASE s # <<>> /\ ~(header /\ ~complete) /\ ~parsed
  <2>1. OnDisconnect
    BY <1>4 DEF OnFrame
  <2>2. /\ client.socket = desktop.accepted
        /\ f \in Frame /\ s[1].part = "head" /\ GoodFrame(f, asked, desktop)
        /\ Len(s) >= 2 => s[2] = Units(f)[2]
    BY <1>1, <1>4, FrontIs
  <2>3. Bad(f)
    BY <1>4, <2>2 DEF Bad
  <2>4. client.socket \in desktop.spoiled
    BY <2>2, <2>3 DEF GoodFrame
  <2>5. QED
    BY <1>1, <1>2, <2>1, <2>4, DisconnectKeeps
<1>5. CASE parsed
  <2>1. /\ client' = [client EXCEPT !.pendingData = SubSeq(s, 3, Len(s)),
                                    !.pending = client.pending \ {f.id}]
        /\ IF f.id \in client.pending THEN Resolve(f.body) ELSE UNCHANGED <<outcome, caller>>
    BY <1>5 DEF OnFrame
  <2>2. /\ client.socket = desktop.accepted
        /\ f \in Frame /\ GoodFrame(f, asked, desktop)
    BY <1>1, <1>5, FrontIs
  <2> DEFINE t == SubSeq(s, 3, Len(s))
  <2>3. /\ t \in Seq(Unit) /\ t \o w \in Seq(Unit)
        /\ Len(s \o w) = Len(t \o w) + 2
        /\ \A i \in 1..Len(t \o w) : (t \o w)[i] = (s \o w)[i + 2]
    BY <1>1, <1>5, FrameRead
  <2> HIDE DEF t
  <2>4. /\ client' \in ClientState /\ client'.socket = client.socket
        /\ client'.destroyed = client.destroyed /\ client'.tools = client.tools
        /\ client'.pendingData = t /\ client'.pending = client.pending \ {f.id}
        /\ client'.nextId = client.nextId
    <3>1. client' = [client EXCEPT !.pendingData = t, !.pending = client.pending \ {f.id}]
      BY <2>1 DEF t
    <3>2. client.pending \ {f.id} \in SUBSET Ids /\ client \in ClientState
      BY <1>1, Fields
    <3>3. QED
      BY <2>3, <3>1, <3>2 DEF ClientState
  <2>5. Stream' = t \o w /\ Stream = s \o w
    BY <1>2, <2>4 DEF Stream
  <2>6. Aligned(s \o w) /\ s \o w \in Seq(Unit)
    BY <1>1, <2>5, ConcatIs DEF IInv, Connection
  <2>7. Aligned(t \o w)
    BY <2>3, <2>6, AlignedRead
  <2>8. Connection'
    BY <1>1, <1>2, <2>2, <2>4, <2>5, <2>7 DEF IInv, Connection
  <2>9. Truthful'
    <3>1. \A i \in 1..Len(s \o w) : GoodFrame((s \o w)[i].frame, asked, desktop)
      BY <1>1, <2>5 DEF IInv, Truthful
    <3>2. \A i \in 1..Len(t \o w) : i + 2 \in 1..Len(s \o w)
      BY <2>3, <2>6
    <3>3. \A i \in 1..Len(t \o w) : GoodFrame((t \o w)[i].frame, asked, desktop)
      BY <2>3, <3>1, <3>2
    <3>4. QED
      BY <1>2, <2>5, <3>3 DEF Truthful
  <2>10. CASE f.id \notin client.pending
    <3>1. client'.pending = client.pending /\ UNCHANGED <<outcome, caller>>
      BY <2>1, <2>4, <2>10
    <3>2. Typed'
      BY <1>1, <1>2, <2>4, <3>1 DEF Typed, ClientState
    <3>3. OneAttempt' /\ Awaited' /\ Numbered' /\ CalledOnce' /\ Catalogues'
      BY <1>2, <2>4, <3>1 DEF IInv, OneAttempt, Awaited, Numbered, CalledOnce, Catalogues, Recent
    <3>4. QED
      BY <2>8, <2>9, <3>2, <3>3 DEF IInv
  <2>11. CASE f.id \in client.pending
    <3>1. /\ caller.pc = "answer" /\ client.pending = {caller.id} /\ client'.pending = {}
          /\ Resolve(f.body)
      BY <2>1, <2>4, <2>11 DEF IInv, Awaited
    <3>2. CASE caller.method = "tools/list" /\ f.body \in {"tool", "no tool"}
      <4> DEFINE catalogue == [from |-> client.socket, offers |-> f.body = "tool"]
      <4>1. /\ caller' = [caller EXCEPT !.pc = "listed", !.catalogue = catalogue]
            /\ outcome' = outcome
        BY <3>1, <3>2 DEF Resolve
      <4>2. catalogue \in Catalogue /\ catalogue.from = client.socket
        BY <1>1, Fields DEF Catalogue
      <4> HIDE DEF catalogue
      <4>3. /\ caller' \in CallerState /\ caller'.pc = "listed" /\ caller'.claim = caller.claim
            /\ caller'.catalogue = catalogue
        BY <1>1, <4>1, <4>2, TypedIs DEF CallerState
      <4>4. OneAttempt' /\ Awaited' /\ Numbered'
        BY <1>2, <2>4, <3>1, <4>1, <4>3 DEF IInv, OneAttempt, Awaited, Numbered
      <4>5. CalledOnce'
        BY <1>2, <3>2, <4>1 DEF IInv, CalledOnce
      <4>6. Catalogues'
        BY <1>2, <2>4, <4>2, <4>3 DEF IInv, Catalogues, Recent
      <4>7. Typed'
        BY <1>1, <1>2, <2>4, <4>1, <4>3 DEF Typed, CallerState, ClientState
      <4>8. QED
        BY <2>8, <2>9, <4>4, <4>5, <4>6, <4>7 DEF IInv
    <3>3. CASE ~(caller.method = "tools/list" /\ f.body \in {"tool", "no tool"})
      <4>1. /\ caller' = AtRest
            /\ \E result \in {"sent", "failed"} : outcome' = Settled(result)
        BY <3>1, <3>3 DEF Resolve
      <4>2. /\ outcome' \in Outcomes /\ caller' \in CallerState
            /\ OneAttempt' /\ Awaited' /\ Numbered' /\ CalledOnce'
        BY <1>2, <2>4, <3>1, <4>1, SettledIs, RestKeeps
      <4>3. Catalogues'
        BY <1>2, <2>4, <4>1 DEF IInv, Catalogues, Recent, AtRest
      <4>4. Typed'
        BY <1>1, <1>2, <2>4, <4>2 DEF Typed, Outcomes, CallerState, ClientState
      <4>5. QED
        BY <2>8, <2>9, <4>2, <4>3, <4>4 DEF IInv
    <3>4. QED
      BY <3>2, <3>3
  <2>12. QED
    BY <2>10, <2>11
<1>6. QED
  BY <1>3, <1>4, <1>5


LEMMA OnEndKeeps ==
    ASSUME IInv, OnEnd
    PROVE  IInv'
<1>1. Typed /\ client.socket # NoSocket
  BY DEF OnEnd, Open, IInv
<1>2. client' = [client EXCEPT !.destroyed = TRUE] /\ UNCHANGED <<outcome, caller, asked, desktop>>
  BY DEF OnEnd
<1>3. /\ client' \in ClientState /\ client'.socket = client.socket
      /\ client'.tools = client.tools /\ client'.nextId = client.nextId
      /\ client'.pendingData = client.pendingData /\ client'.pending = client.pending
  BY <1>1, <1>2, Fields DEF ClientState
<1>4. Connection' /\ Truthful'
  BY <1>1, <1>2, <1>3, StreamStays DEF IInv
<1>5. Typed'
  BY <1>1, <1>2, <1>3 DEF Typed, ClientState
<1>6. OneAttempt' /\ Awaited' /\ Numbered' /\ CalledOnce' /\ Catalogues'
  BY <1>2, <1>3 DEF IInv, OneAttempt, Awaited, Numbered, CalledOnce, Catalogues, Recent
<1>7. QED
  BY <1>4, <1>5, <1>6 DEF IInv

LEMMA OnCloseKeeps ==
    ASSUME IInv, OnClose
    PROVE  IInv'
<1>1. OnDisconnect /\ caller.pc # "listed" /\ UNCHANGED <<asked, desktop>>
  BY DEF OnClose, Quiet
<1>2. desktop \in DesktopState
  BY Fields DEF IInv
<1>3. QED
  BY <1>1, <1>2, DisconnectKeeps

LEMMA OnErrorKeeps ==
    ASSUME IInv, OnError
    PROVE  IInv'
<1>1. /\ OnDisconnect /\ caller.pc # "listed" /\ asked' = asked
      /\ desktop' = [desktop EXCEPT !.open = FALSE, !.wire = <<>>]
  BY DEF OnError, Quiet
<1>2. desktop \in DesktopState /\ <<>> \in Seq(Unit)
  BY Fields DEF IInv
<1>3. /\ desktop' \in DesktopState /\ desktop'.spoiled = desktop.spoiled
      /\ desktop'.accepted = desktop.accepted /\ ~desktop'.open
  BY <1>1, <1>2 DEF DesktopState
<1>4. QED
  BY <1>1, <1>3, DisconnectKeeps

LEMMA PerformsKeeps ==
    ASSUME IInv, NEW r \in asked, Performs(r)
    PROVE  IInv'
<1>1. /\ desktop' = [desktop EXCEPT !.performed = @ \cup {r.claim}]
      /\ UNCHANGED <<outcome, caller, client, asked>>
  BY DEF Performs
<1>2. Typed /\ r.claim \in Claim /\ desktop \in DesktopState
  BY Fields DEF IInv, Typed
<1>3. /\ desktop' \in DesktopState /\ desktop'.wire = desktop.wire
      /\ desktop'.accepted = desktop.accepted /\ desktop'.open = desktop.open
      /\ desktop'.spoiled = desktop.spoiled /\ desktop.performed \subseteq desktop'.performed
  BY <1>1, <1>2 DEF DesktopState
<1>4. Connection' /\ Truthful'
  BY <1>1, <1>3, StreamStays DEF IInv, Connection
<1>5. Typed'
  BY <1>1, <1>2, <1>3, TypedIs DEF Typed, DesktopState
<1>6. OneAttempt' /\ Awaited' /\ Numbered' /\ CalledOnce' /\ Catalogues'
  BY <1>1, <1>3 DEF IInv, OneAttempt, Awaited, Numbered, CalledOnce, Catalogues, Recent
<1>7. QED
  BY <1>4, <1>5, <1>6 DEF IInv

\* Desktop writes a frame, and what the frame says of its request is so.
LEMMA WritesKeeps ==
    ASSUME IInv, NEW f \in Frame, DesktopWrites(f),
           f.id # 0 => \E r \in asked :
                         /\ r.id = f.id
                         /\ f.body = "success" =>
                              r.method = "tools/call" /\ r.claim \in desktop.performed
    PROVE  IInv'
<1> DEFINE s == client.pendingData
           w == desktop.wire
           u == Units(f)
<1>1. /\ desktop' = [desktop EXCEPT !.wire = w \o u, !.frames = @ + 1,
                                    !.spoiled = IF Bad(f) THEN @ \cup {desktop.accepted} ELSE @]
      /\ UNCHANGED <<outcome, caller, client, asked>>
      /\ desktop.open /\ desktop.frames < MaxFrames
  BY DEF DesktopWrites
<1>2. /\ Typed /\ desktop \in DesktopState /\ desktop.accepted \in Sockets
      /\ s \in Seq(Unit) /\ w \in Seq(Unit) /\ desktop.frames \in 0..MaxFrames
      /\ desktop.spoiled \in SUBSET Sockets
  BY <1>1, Fields DEF IInv, Connection
<1>3. u \in Seq(Unit) /\ w \o u \in Seq(Unit)
  BY <1>2, UnitsTyped, ConcatIs
<1> DEFINE wire == w \o u
           spoiled == IF Bad(f) THEN desktop.spoiled \cup {desktop.accepted} ELSE desktop.spoiled
           frames == desktop.frames + 1
<1>4. wire \in Seq(Unit) /\ spoiled \in SUBSET Sockets /\ frames \in 0..MaxFrames
  BY <1>1, <1>2, <1>3, NativePipeAssumption
<1>5. desktop' = [desktop EXCEPT !.wire = wire, !.frames = frames, !.spoiled = spoiled]
  BY <1>1, <1>2 DEF DesktopState
<1>6. /\ desktop.spoiled \subseteq spoiled
      /\ Bad(f) => desktop.accepted \in spoiled
  OBVIOUS
<1> HIDE DEF wire, spoiled, frames
<1>7. /\ desktop' \in DesktopState /\ desktop'.wire = wire
      /\ desktop'.accepted = desktop.accepted /\ desktop'.open = desktop.open
      /\ desktop'.spoiled = spoiled /\ desktop'.performed = desktop.performed
  BY <1>2, <1>4, <1>5 DEF DesktopState
<1>8. Typed'
  BY <1>1, <1>2, <1>7, TypedIs DEF Typed, DesktopState
<1>9. OneAttempt' /\ Awaited' /\ Numbered' /\ CalledOnce' /\ Catalogues'
  BY <1>1, <1>6, <1>7 DEF IInv, OneAttempt, Awaited, Numbered, CalledOnce, Catalogues, Recent
<1>10. CASE client.socket = NoSocket
  BY <1>1, <1>7, <1>8, <1>9, <1>10 DEF IInv, Connection, Truthful
<1>11. CASE client.socket # NoSocket
  <2>1. /\ client.socket = desktop.accepted /\ Aligned(Stream)
        /\ \A i \in 1..Len(Stream) : GoodFrame(Stream[i].frame, asked, desktop)
    BY <1>11 DEF IInv, Connection, Truthful
  <2>2. Stream \in Seq(Unit) /\ Len(Stream) \in Nat
    <3>1. s \o w \in Seq(Unit)
      BY <1>2, ConcatIs
    <3>2. \A q \in Seq(Unit) : Len(q) \in Nat
      OBVIOUS
    <3>3. QED
      BY <3>1, <3>2, Zenon DEF Stream
  <2>3. Stream' = Stream \o u
    <3>1. Stream' = s \o (w \o u)
      BY <1>1, <1>7 DEF Stream, wire
    <3>2. (s \o w) \o u = s \o (w \o u)
      BY <1>2, <1>3, UnitsRegroup, Zenon
    <3>3. QED
      BY <3>1, <3>2, Zenon DEF Stream
  <2> DEFINE z == Stream
  <2>4. /\ Len(z \o u) = Len(z) + 2
        /\ \A i \in 1..Len(z) : (z \o u)[i] = z[i]
        /\ (z \o u)[Len(z) + 1] = u[1]
        /\ (z \o u)[Len(z) + 2] = u[2]
        /\ Aligned(z \o u)
    BY <2>1, <2>2, AlignedWrite
  <2>5. GoodFrame(f, asked', desktop')
    BY <1>1, <1>6, <1>7 DEF GoodFrame
  <2>6. u[1].frame = f /\ u[2].frame = f
    BY UnitsTyped
  <2>7. \A g : GoodFrame(g, asked, desktop) => GoodFrame(g, asked', desktop')
    <3>1. /\ asked \subseteq asked' /\ desktop.accepted = desktop'.accepted
          /\ desktop.spoiled \subseteq desktop'.spoiled
          /\ desktop.performed \subseteq desktop'.performed
      BY <1>1, <1>6, <1>7
    <3>2. QED
      BY <3>1, GoodStays
  <2> HIDE DEF u, z
  <2>8. \A i \in 1..Len(z \o u) : GoodFrame((z \o u)[i].frame, asked', desktop')
    <3>1. ASSUME NEW i \in 1..Len(z \o u)
          PROVE  GoodFrame((z \o u)[i].frame, asked', desktop')
      <4>1. i \in 1..Len(z) \/ i = Len(z) + 1 \/ i = Len(z) + 2
        BY <2>2, <2>4, <3>1 DEF z
      <4>2. CASE i \in 1..Len(z)
        BY <2>1, <2>4, <2>7, <4>2 DEF z
      <4>3. CASE i = Len(z) + 1 \/ i = Len(z) + 2
        BY <2>4, <2>5, <2>6, <4>3
      <4>4. QED
        BY <4>1, <4>2, <4>3
    <3>2. QED
      BY <3>1
  <2>9. Truthful'
    BY <2>3, <2>8 DEF Truthful, z
  <2>10. Connection'
    BY <1>1, <1>7, <2>1, <2>3, <2>4 DEF IInv, Connection, z
  <2>11. QED
    BY <1>8, <1>9, <2>9, <2>10 DEF IInv
<1>12. QED
  BY <1>10, <1>11

LEMMA AnswersKeeps ==
    ASSUME IInv, NEW r \in asked, Answers(r)
    PROVE  IInv'
<1>1. PICK body \in {"tool", "no tool", "success", "refused", "error"} :
        /\ DesktopWrites([id |-> r.id, body |-> body])
        /\ body = "success" => r.method = "tools/call" /\ r.claim \in desktop.performed
  <2>1. r.method \in {"tools/list", "tools/call"}
    BY DEF IInv, Typed, Methods
  <2>2. QED
    BY <2>1 DEF Answers
<1> DEFINE f == [id |-> r.id, body |-> body]
<1>2. f \in Frame /\ f.id = r.id /\ f.body = body
  BY DEF IInv, Typed, Frame
<1> HIDE DEF f
<1>3. DesktopWrites(f)
  BY <1>1 DEF f
<1>4. QED
  BY <1>1, <1>2, <1>3, WritesKeeps

LEMMA BabblesKeeps ==
    ASSUME IInv, Babbles
    PROVE  IInv'
<1>1. PICK body \in {"error", "invalid", "oversized"} : DesktopWrites([id |-> 0, body |-> body])
  BY DEF Babbles
<1> DEFINE f == [id |-> 0, body |-> body]
<1>2. f \in Frame /\ f.id = 0
  BY DEF Frame
<1> HIDE DEF f
<1>3. DesktopWrites(f)
  BY <1>1 DEF f
<1>4. QED
  BY <1>2, <1>3, WritesKeeps

LEMMA ClosesKeeps ==
    ASSUME IInv, Closes
    PROVE  IInv'
<1>1. /\ desktop' = [desktop EXCEPT !.open = FALSE]
      /\ UNCHANGED <<outcome, caller, client, asked>>
  BY DEF Closes
<1>2. Typed /\ desktop \in DesktopState
  BY Fields DEF IInv
<1>3. /\ desktop' \in DesktopState /\ desktop'.wire = desktop.wire
      /\ desktop'.accepted = desktop.accepted /\ ~desktop'.open
      /\ desktop'.spoiled = desktop.spoiled /\ desktop'.performed = desktop.performed
  BY <1>1, <1>2 DEF DesktopState
<1>4. Connection' /\ Truthful'
  BY <1>1, <1>3, StreamStays DEF IInv, Connection
<1>5. Typed'
  BY <1>1, <1>2, <1>3, TypedIs DEF Typed, DesktopState
<1>6. OneAttempt' /\ Awaited' /\ Numbered' /\ CalledOnce' /\ Catalogues'
  BY <1>1, <1>3 DEF IInv, OneAttempt, Awaited, Numbered, CalledOnce, Catalogues, Recent
<1>7. QED
  BY <1>4, <1>5, <1>6 DEF IInv

LEMMA InvStep == IInv /\ [Next]_vars => IInv'
<1> SUFFICES ASSUME IInv, [Next]_vars PROVE IInv'
  OBVIOUS
<1>1. ASSUME NEW c \in Claim, SendContinue(c) PROVE IInv'
  BY <1>1, SendContinueKeeps
<1>2. CASE Listed
  BY <1>2, ListedKeeps
<1>3. CASE Connected
  BY <1>3, ConnectedKeeps
<1>4. CASE ConnectFails
  BY <1>4, ConnectFailsKeeps
<1>5. CASE Timeout
  BY <1>5, TimeoutKeeps
<1>6. CASE OnData
  BY <1>6, OnDataKeeps
<1>7. CASE OnFrame
  BY <1>7, OnFrameKeeps
<1>8. CASE OnEnd
  BY <1>8, OnEndKeeps
<1>9. CASE OnClose
  BY <1>9, OnCloseKeeps
<1>10. CASE OnError
  BY <1>10, OnErrorKeeps
<1>11. ASSUME NEW r \in asked, Performs(r) \/ Answers(r) PROVE IInv'
  BY <1>11, PerformsKeeps, AnswersKeeps
<1>12. CASE Babbles
  BY <1>12, BabblesKeeps
<1>13. CASE Closes
  BY <1>13, ClosesKeeps
<1>14. CASE UNCHANGED vars
  BY <1>14 DEF vars, IInv, Typed, OneAttempt, Connection, Truthful, Awaited, Numbered, CalledOnce,
               Catalogues, Stream, GoodFrame, Recent
<1>15. QED
  BY <1>1, <1>2, <1>3, <1>4, <1>5, <1>6, <1>7, <1>8, <1>9, <1>10, <1>11, <1>12, <1>13, <1>14
     DEF Next

\* The parts of the invariant hold from the start and through every step of the client and
\* of Desktop.
THEOREM NativePipeInvariant == Spec => []IInv
<1>1. Init => IInv
  BY InvInit
<1>2. IInv /\ [Next]_vars => IInv'
  BY InvStep
<1>3. QED
  BY <1>1, <1>2, PTL DEF Spec


-----------------------------------------------------------------------------
(* What the runs check. *)

\* The client at rest or not: its types hold, one attempt is under way while the caller is
\* not idle, the stream is whole frames however it was cut, and the request pending is the
\* one the caller waits for.
THEOREM PipeConsistent == Spec => []Consistent
<1>1. IInv => Consistent
  <2> SUFFICES ASSUME IInv PROVE Consistent
    OBVIOUS
  <2>1. TypeOK
    <3>1. Cardinality(caller.claim) = IF caller.pc = "idle" THEN 0 ELSE 1
      <4>1. CASE caller.pc = "idle"
        BY <4>1, FS_EmptySet DEF IInv, OneAttempt
      <4>2. CASE caller.pc # "idle"
        <5>1. PICK c \in Claim : caller.claim = {c}
          BY <4>2 DEF IInv, OneAttempt
        <5>2. Cardinality({c}) = 1
          BY FS_Singleton
        <5>3. QED
          BY <4>2, <5>1, <5>2
      <4>3. QED
        BY <4>1, <4>2
    <3>2. QED
      BY <3>1 DEF IInv, Typed, OneAttempt, TypeOK
  <2>2. InStep
    <3>1. CASE client.socket # NoSocket
      <4> DEFINE s == client.pendingData \o desktop.wire
      <4>1. Aligned(s)
        BY <3>1 DEF IInv, Connection, Stream
      <4>2. s \in Seq(Unit)
        BY ConcatIs, Fields DEF IInv
      <4> HIDE DEF s
      <4>3. Len(s) \in Nat /\ DOMAIN s = 1..Len(s)
        BY <4>2
      <4>4. ASSUME NEW i \in DOMAIN s, i % 2 = 1
            PROVE  i < Len(s) /\ <<s[i], s[i + 1]>> = Units(s[i].frame)
        <5>1. i # Len(s) /\ i \in 1..Len(s)
          BY <4>1, <4>3, <4>4 DEF Aligned
        <5>2. i < Len(s)
          BY <4>3, <5>1
        <5>3. s[i] = Units(s[i].frame)[1] /\ s[i + 1] = Units(s[i].frame)[2]
          BY <4>1, <4>4, <5>1 DEF Aligned
        <5>4. <<s[i], s[i + 1]>> = <<Units(s[i].frame)[1], Units(s[i].frame)[2]>>
          BY <5>3, Zenon
        <5>5. <<Units(s[i].frame)[1], Units(s[i].frame)[2]>> = Units(s[i].frame)
          BY DEF Units
        <5>6. QED
          BY <5>2, <5>4, <5>5
      <4>5. QED
        BY <4>4 DEF InStep, s
    <3>2. CASE client.socket = NoSocket
      BY <3>2 DEF InStep
    <3>3. QED
      BY <3>1, <3>2
  <2>3. PendingIsAwaited
    BY DEF IInv, Awaited, PendingIsAwaited
  <2>4. QED
    BY <2>1, <2>2, <2>3 DEF Consistent
<1>2. QED
  BY <1>1, NativePipeInvariant, PTL

\* The cached catalogue is that of the current connection, or of one that Desktop spoiled.
THEOREM CataloguesCurrent == Spec => []CatalogueCurrent
<1>1. IInv => CatalogueCurrent
  BY DEF IInv, Catalogues, Recent, CatalogueCurrent
<1>2. QED
  BY <1>1, NativePipeInvariant, PTL

-----------------------------------------------------------------------------
(* The refinement.  The requests written for one attempt are counted in a set of at most   *)
(* one.                                                                                    *)

LEMMA CountIs ==
    ASSUME NEW A, NEW c,
           \A r, q \in A :
             r.method = "tools/call" /\ q.method = "tools/call" /\ r.claim = q.claim => r = q
    PROVE  Cardinality({r \in A : r.claim = c /\ r.method = "tools/call"}) =
             IF \E r \in A : r.claim = c /\ r.method = "tools/call" THEN 1 ELSE 0
<1> DEFINE written == {r \in A : r.claim = c /\ r.method = "tools/call"}
<1>1. CASE \E r \in A : r.claim = c /\ r.method = "tools/call"
  <2>1. PICK r \in A : r.claim = c /\ r.method = "tools/call"
    BY <1>1
  <2>2. written = {r}
    BY <2>1
  <2>3. Cardinality({r}) = 1
    BY FS_Singleton
  <2>4. QED
    BY <1>1, <2>2, <2>3
<1>2. CASE ~\E r \in A : r.claim = c /\ r.method = "tools/call"
  <2>1. written = {}
    BY <1>2
  <2>2. QED
    BY <1>2, <2>1, FS_EmptySet
<1>3. QED
  BY <1>1, <1>2

\* Each attempt's calls are none or one, before a step and after it.
LEMMA CallsAre ==
    ASSUME IInv
    PROVE  Calls = [c \in Claim |-> IF \E r \in asked : r.claim = c /\ r.method = "tools/call"
                                    THEN 1 ELSE 0]
BY CountIs DEF IInv, CalledOnce, Calls

LEMMA CallsWillBe ==
    ASSUME IInv'
    PROVE  Calls' = [c \in Claim |-> IF \E r \in asked' : r.claim = c /\ r.method = "tools/call"
                                     THEN 1 ELSE 0]
<1>1. \A r, q \in asked' :
        r.method = "tools/call" /\ q.method = "tools/call" /\ r.claim = q.claim => r = q
  BY DEF IInv, CalledOnce
<1>2. \A c \in Claim :
        Cardinality({r \in asked' : r.claim = c /\ r.method = "tools/call"}) =
          IF \E r \in asked' : r.claim = c /\ r.method = "tools/call" THEN 1 ELSE 0
  BY <1>1, CountIs
<1>3. QED
  BY <1>2 DEF Calls

\* A request counts as a call of its attempt, the first, when it is one.
LEMMA WrittenCalls ==
    ASSUME IInv, IInv', NEW now, NEW claim \in Claim, NEW method \in Methods, NEW socket,
           Written(now, claim, method, socket), caller.pc # "answer",
           outcome[claim] \in {"unsent", "sending"}
    PROVE  IF method = "tools/call"
           THEN Calls[claim] = 0 /\ Calls' = [Calls EXCEPT ![claim] = 1]
           ELSE Calls' = Calls
<1> DEFINE new == [id |-> now.nextId, method |-> method, claim |-> claim, socket |-> socket]
<1>1. asked' = asked \cup {new} /\ new.method = method /\ new.claim = claim
  BY DEF Written
<1> HIDE DEF new
<1>2. \A r \in asked : r.method = "tools/call" => r.claim # claim
  BY DEF IInv, CalledOnce
<1>3. Calls[claim] = 0
  BY <1>2, CallsAre
<1>4. CASE method = "tools/call"
  <2>1. \A c \in Claim :
          (\E r \in asked' : r.claim = c /\ r.method = "tools/call") <=>
            c = claim \/ \E r \in asked : r.claim = c /\ r.method = "tools/call"
    BY <1>1, <1>4
  <2>2. Calls' = [Calls EXCEPT ![claim] = 1]
    BY <2>1, CallsAre, CallsWillBe
  <2>3. QED
    BY <1>3, <1>4, <2>2
<1>5. CASE method # "tools/call"
  <2>1. \A c \in Claim :
          (\E r \in asked' : r.claim = c /\ r.method = "tools/call") <=>
            \E r \in asked : r.claim = c /\ r.method = "tools/call"
    BY <1>1, <1>5
  <2>2. Calls' = Calls
    BY <2>1, CallsAre, CallsWillBe
  <2>3. QED
    BY <1>5, <2>2
<1>6. QED
  BY <1>4, <1>5

\* A request that waits for its connection counts for nothing yet.
LEMMA RequestCalls ==
    ASSUME IInv, IInv', NEW now, NEW claim \in Claim, NEW method \in Methods,
           Request(now, claim, method), caller.pc # "answer",
           outcome[claim] \in {"unsent", "sending"}
    PROVE  \/ Calls' = Calls
           \/ Calls[claim] = 0 /\ Calls' = [Calls EXCEPT ![claim] = 1]
<1>1. CASE now.socket # NoSocket /\ ~now.destroyed
  <2>1. Written(now, claim, method, now.socket)
    BY <1>1 DEF Request
  <2>2. QED
    BY <2>1, WrittenCalls
<1>2. CASE ~(now.socket # NoSocket /\ ~now.destroyed)
  BY <1>2 DEF Request, Calls
<1>3. QED
  BY <1>1, <1>2

\* An attempt that fails is one that was under way.
LEMMA FailMaps ==
    ASSUME IInv, caller.pc # "idle", outcome' = Settled("failed"), asked' = asked,
           desktop'.performed = desktop.performed
    PROVE  \E c \in Claim : Sends!Fail(c)
<1>1. /\ Current \in Claim /\ caller.claim = {Current} /\ outcome[Current] = "sending"
      /\ outcome \in Outcomes
  BY UnderWay DEF IInv, Typed, Outcomes
<1>2. outcome' = [outcome EXCEPT ![Current] = "failed"]
  BY <1>1 DEF Settled, Outcomes
<1>3. Calls' = Calls
  BY DEF Calls
<1>4. QED
  BY <1>1, <1>2, <1>3 DEF Sends!Fail

LEMMA DisconnectMaps ==
    ASSUME IInv, OnDisconnect, asked' = asked, desktop'.performed = desktop.performed
    PROVE  (\E c \in Claim : Sends!Fail(c)) \/ UNCHANGED Sends!vars
<1>1. CASE caller.pc = "answer"
  BY <1>1, FailMaps DEF OnDisconnect
<1>2. CASE caller.pc # "answer"
  BY <1>2 DEF OnDisconnect, Calls, Sends!vars
<1>3. QED
  BY <1>1, <1>2

LEMMA SendContinueMaps ==
    ASSUME IInv, IInv', NEW claim \in Claim, SendContinue(claim)
    PROVE  Sends!Begin(claim) \/ Sends!Refuse(claim)
<1>1. /\ caller.pc = "idle" /\ outcome[claim] = "unsent" /\ desktop' = desktop
      /\ \A c \in Claim : outcome[c] # "sending"
  BY DEF SendContinue, IInv, OneAttempt
<1>2. ASSUME NEW method \in Methods, Request(client, claim, method),
             outcome' = [outcome EXCEPT ![claim] = "sending"]
      PROVE  Sends!Begin(claim)
  <2>1. Calls' = Calls \/ Calls' = [Calls EXCEPT ![claim] = 1]
    BY <1>1, <1>2, RequestCalls
  <2>2. QED
    BY <1>1, <1>2, <2>1 DEF Sends!Begin
<1>3. CASE client.tools = NoTools
  BY <1>2, <1>3 DEF SendContinue, Methods
<1>4. CASE client.tools # NoTools /\ client.tools.offers
  BY <1>2, <1>4 DEF SendContinue, CallTool, Methods
<1>5. CASE client.tools # NoTools /\ ~client.tools.offers
  <2>1. outcome' = [outcome EXCEPT ![claim] = "failed"] /\ asked' = asked
    BY <1>5 DEF SendContinue, CallTool
  <2>2. Calls' = Calls
    BY <2>1 DEF Calls
  <2>3. QED
    BY <1>1, <2>1, <2>2 DEF Sends!Refuse
<1>6. QED
  BY <1>3, <1>4, <1>5

LEMMA ListedMaps ==
    ASSUME IInv, IInv', Listed
    PROVE  (\E c \in Claim : Sends!Write(c) \/ Sends!Fail(c)) \/ UNCHANGED Sends!vars
<1> DEFINE now == [client EXCEPT !.tools = caller.catalogue]
<1>1. /\ caller.pc = "listed" /\ desktop' = desktop
      /\ CallTool(now, Current, caller.catalogue)
  BY DEF Listed
<1> HIDE DEF now
<1>2. /\ Current \in Claim /\ outcome[Current] = "sending" /\ outcome \in Outcomes
  BY <1>1, UnderWay DEF IInv, Typed, Outcomes
<1>3. CASE caller.catalogue.offers
  <2>1. /\ Request(now, Current, "tools/call") /\ "tools/call" \in Methods
        /\ outcome' = [outcome EXCEPT ![Current] = "sending"]
    BY <1>1, <1>3 DEF CallTool, Methods
  <2>2. outcome' = outcome
    BY <1>2, <2>1 DEF Outcomes
  <2>3. \/ Calls' = Calls
        \/ Calls[Current] = 0 /\ Calls' = [Calls EXCEPT ![Current] = 1]
    BY <1>1, <1>2, <2>1, RequestCalls
  <2>4. QED
    BY <1>1, <1>2, <2>2, <2>3 DEF Sends!Write, Sends!vars
<1>4. CASE ~caller.catalogue.offers
  <2>1. outcome' = [outcome EXCEPT ![Current] = "failed"] /\ asked' = asked
    BY <1>1, <1>4 DEF CallTool
  <2>2. Calls' = Calls
    BY <2>1 DEF Calls
  <2>3. QED
    BY <1>1, <1>2, <2>1, <2>2 DEF Sends!Fail
<1>5. QED
  BY <1>3, <1>4

LEMMA ConnectedMaps ==
    ASSUME IInv, IInv', Connected
    PROVE  (\E c \in Claim : Sends!Write(c)) \/ UNCHANGED Sends!vars
<1> DEFINE socket == desktop.accepted + 1
           now == [client EXCEPT !.socket = socket]
<1>1. /\ caller.pc = "connecting" /\ outcome' = outcome
      /\ Written(now, Current, caller.method, socket)
      /\ desktop' = [desktop EXCEPT !.accepted = socket, !.open = TRUE, !.wire = <<>>]
  BY DEF Connected
<1>2. desktop'.performed = desktop.performed
  BY <1>1, Fields DEF IInv, DesktopState
<1> HIDE DEF now, socket
<1>3. /\ Current \in Claim /\ outcome[Current] = "sending" /\ caller.method \in Methods
  BY <1>1, UnderWay, Fields DEF IInv
<1>4. \/ Calls' = Calls
      \/ Calls[Current] = 0 /\ Calls' = [Calls EXCEPT ![Current] = 1]
  BY <1>1, <1>3, WrittenCalls
<1>5. QED
  BY <1>1, <1>2, <1>3, <1>4 DEF Sends!Write, Sends!vars

\* The frame that settles a request is the answer to that very request.
LEMMA OnFrameMaps ==
    ASSUME IInv, OnFrame
    PROVE  (\E c \in Claim : Sends!Succeed(c) \/ Sends!Fail(c)) \/ UNCHANGED Sends!vars
<1> DEFINE s == client.pendingData
           f == s[1].frame
           header == s # <<>> /\ s[1].part = "head" /\ f.body # "oversized"
           complete == header /\ Len(s) >= 2
           parsed == complete /\ s[2] = Units(f)[2] /\ f.body # "invalid"
<1>1. client.reading /\ UNCHANGED <<asked, desktop>>
  BY DEF OnFrame
<1>2. Calls' = Calls
  BY <1>1 DEF Calls
<1>3. CASE s = <<>> \/ (header /\ ~complete)
  BY <1>1, <1>2, <1>3 DEF OnFrame, Sends!vars
<1>4. CASE s # <<>> /\ ~(header /\ ~complete) /\ ~parsed
  <2>1. OnDisconnect
    BY <1>4 DEF OnFrame
  <2>2. QED
    BY <1>1, <2>1, DisconnectMaps
<1>5. CASE parsed
  <2>1. IF f.id \in client.pending THEN Resolve(f.body) ELSE UNCHANGED <<outcome, caller>>
    BY <1>5 DEF OnFrame
  <2>2. GoodFrame(f, asked, desktop)
    BY <1>1, <1>5, FrontIs
  <2>3. CASE f.id \notin client.pending
    BY <1>1, <1>2, <2>1, <2>3 DEF Sends!vars
  <2>4. CASE f.id \in client.pending
    <3>1. /\ caller.pc = "answer" /\ f.id = caller.id /\ f.id # 0
          /\ Resolve(f.body)
      BY <2>1, <2>4, Fields DEF IInv, Awaited, Ids
    <3>2. PICK q \in asked : /\ q.id = caller.id /\ q.method = caller.method
                             /\ caller.claim = {q.claim}
      BY <3>1 DEF IInv, Awaited
    <3>3. PICK r \in asked :
            /\ r.id = f.id
            /\ f.body = "success" => r.method = "tools/call" /\ r.claim \in desktop.performed
      BY <2>2, <3>1 DEF GoodFrame
    <3>4. r = q
      BY <3>1, <3>2, <3>3 DEF IInv, Numbered
    <3>5. CASE caller.method = "tools/list" /\ f.body \in {"tool", "no tool"}
      BY <1>1, <1>2, <3>1, <3>5 DEF Resolve, Sends!vars
    <3>6. CASE caller.method = "tools/call" /\ f.body = "success"
      <4>1. outcome' = Settled("sent")
        BY <3>1, <3>6 DEF Resolve
      <4>2. /\ Current \in Claim /\ caller.claim = {Current} /\ outcome[Current] = "sending"
            /\ outcome \in Outcomes
        BY <3>1, UnderWay DEF IInv, Typed, Outcomes
      <4>3. outcome' = [outcome EXCEPT ![Current] = "sent"]
        BY <4>1, <4>2 DEF Settled, Outcomes
      <4>4. Current \in desktop.performed
        BY <3>2, <3>3, <3>4, <3>6, <4>2
      <4>5. QED
        BY <1>1, <1>2, <4>2, <4>3, <4>4 DEF Sends!Succeed
    <3>7. CASE /\ ~(caller.method = "tools/list" /\ f.body \in {"tool", "no tool"})
               /\ ~(caller.method = "tools/call" /\ f.body = "success")
      <4>1. outcome' = Settled("failed")
        BY <3>1, <3>7 DEF Resolve
      <4>2. QED
        BY <1>1, <3>1, <4>1, FailMaps
    <3>8. QED
      BY <3>5, <3>6, <3>7
  <2>5. QED
    BY <2>3, <2>4
<1>6. QED
  BY <1>3, <1>4, <1>5

LEMMA PerformsMaps ==
    ASSUME IInv, NEW r \in asked, Performs(r)
    PROVE  Sends!Perform(r.claim) /\ r.claim \in Claim
<1>1. /\ r.method = "tools/call" /\ UNCHANGED <<outcome, asked>>
      /\ desktop' = [desktop EXCEPT !.performed = @ \cup {r.claim}]
      /\ r.claim \in Claim
  BY DEF Performs, IInv, Typed
<1>2. desktop'.performed = desktop.performed \cup {r.claim}
  BY <1>1, Fields DEF IInv, DesktopState
<1>3. Calls' = Calls /\ Calls[r.claim] = 1
  <2>1. Calls' = Calls
    BY <1>1 DEF Calls
  <2>2. Calls[r.claim] = 1
    BY <1>1, CallsAre
  <2>3. QED
    BY <2>1, <2>2
<1>4. QED
  BY <1>1, <1>2, <1>3 DEF Sends!Perform

\* Desktop's other steps are its own.
LEMMA DesktopMaps ==
    ASSUME IInv, (\E r \in asked : Answers(r)) \/ Babbles \/ Closes
    PROVE  UNCHANGED Sends!vars
<1>1. UNCHANGED <<outcome, asked>> /\ desktop'.performed = desktop.performed
  BY Fields DEF IInv, Answers, Babbles, Closes, DesktopWrites, DesktopState
<1>2. QED
  BY <1>1 DEF Sends!vars, Calls

LEMMA StepMaps == IInv /\ IInv' /\ [Next]_vars => [Sends!Next]_Sends!vars
<1> SUFFICES ASSUME IInv, IInv', [Next]_vars PROVE [Sends!Next]_Sends!vars
  OBVIOUS
<1>1. ASSUME NEW c \in Claim, SendContinue(c) PROVE Sends!Next
  BY <1>1, SendContinueMaps DEF Sends!Next
<1>2. CASE Listed
  BY <1>2, ListedMaps DEF Sends!Next
<1>3. CASE Connected
  BY <1>3, ConnectedMaps DEF Sends!Next
<1>4. CASE ConnectFails
  BY <1>4, FailMaps DEF ConnectFails, Sends!Next
<1>5. CASE Timeout
  BY <1>5, FailMaps DEF Timeout, Sends!Next
<1>6. CASE OnData \/ OnEnd
  <2>1. UNCHANGED <<outcome, asked>> /\ desktop'.performed = desktop.performed
    BY <1>6, Fields DEF IInv, OnData, OnEnd, DesktopState
  <2>2. QED
    BY <2>1 DEF Sends!vars, Calls
<1>7. CASE OnFrame
  BY <1>7, OnFrameMaps DEF Sends!Next
<1>8. CASE OnClose \/ OnError
  <2>1. OnDisconnect /\ asked' = asked /\ desktop'.performed = desktop.performed
    BY <1>8, Fields DEF IInv, OnClose, OnError, DesktopState
  <2>2. QED
    BY <2>1, DisconnectMaps DEF Sends!Next
<1>9. ASSUME NEW r \in asked, Performs(r) PROVE Sends!Next
  BY <1>9, PerformsMaps DEF Sends!Next
<1>10. CASE (\E r \in asked : Answers(r)) \/ Babbles \/ Closes
  BY <1>10, DesktopMaps
<1>11. CASE UNCHANGED vars
  BY <1>11 DEF vars, Sends!vars, Calls
<1>12. QED
  BY <1>1, <1>2, <1>3, <1>4, <1>5, <1>6, <1>7, <1>8, <1>9, <1>10, <1>11 DEF Next

\* Seen through its calls, the client is what the dispatcher expects of it: no attempt is
\* written twice, whatever broke in between, and a success is one Desktop stands behind.
THEOREM PipeImplementsSend == Spec => ImplementsSend
<1>1. Init => Sends!Init
  BY FS_EmptySet DEF Init, Sends!Init, Calls
<1>2. IInv /\ IInv' /\ [Next]_vars => [Sends!Next]_Sends!vars
  BY StepMaps
<1>3. QED
  BY <1>1, <1>2, NativePipeInvariant, PTL DEF Spec, Sends!Spec, ImplementsSend

-----------------------------------------------------------------------------
(* An attempt on the pipe goes forward only: whatever Desktop answers, and *)
(* however often the connection breaks, its caller passes at most five     *)
(* waits, and no wait twice.                                               *)

\* The waits an attempt has left.
Waits(k) ==
    CASE k.pc = "idle"       -> 0
      [] k.pc = "answer"     -> IF k.method = "tools/call" THEN 1 ELSE 4
      [] k.pc = "connecting" -> IF k.method = "tools/call" THEN 2 ELSE 5
      [] k.pc = "listed"     -> 3

\* The caller waits for what it waited for, or for less; and while onData reads, it comes to
\* its end.
Onward ==
    /\ caller.pc # "idle" => caller' = caller \/ Waits(caller') < Waits(caller)
    /\ client.reading =>
         \/ client' = client
         \/ ~client'.reading
         \/ Len(client'.pendingData) < Len(client.pendingData)

\* A callback that is no read: nothing is being read.
LEMMA QuietOnward ==
    ASSUME ~client.reading,
           caller.pc # "idle" => caller' = caller \/ Waits(caller') < Waits(caller)
    PROVE  Onward
BY DEF Onward

LEMMA RestWaits == Waits(AtRest) = 0 /\ AtRest.pc = "idle"
BY DEF Waits, AtRest

LEMMA CallerWaits ==
    ASSUME Typed
    PROVE  /\ Waits(caller) \in 0..5
           /\ caller.pc # "idle" => Waits(caller) > 0
           /\ client.pendingData \in Seq(Unit)
BY DEF Typed, Waits

LEMMA WrittenWaits ==
    ASSUME NEW now, NEW claim, NEW method, NEW socket, Written(now, claim, method, socket)
    PROVE  Waits(caller') = IF method = "tools/call" THEN 1 ELSE 4
BY DEF Written, AtRest, Waits

\* The call that follows the catalogue.
LEMMA CallWaits ==
    ASSUME NEW now, NEW claim, NEW tools, CallTool(now, claim, tools)
    PROVE  Waits(caller') \in 0..2
<1>1. CASE caller' = AtRest
  BY <1>1, RestWaits
<1>2. CASE Request(now, claim, "tools/call")
  <2>1. CASE Written(now, claim, "tools/call", now.socket)
    BY <2>1, WrittenWaits
  <2>2. CASE caller' = [AtRest EXCEPT !.pc = "connecting", !.claim = {claim}, !.method = "tools/call"]
    BY <2>2 DEF AtRest, Waits
  <2>3. QED
    BY <1>2, <2>1, <2>2 DEF Request
<1>3. QED
  BY <1>1, <1>2 DEF CallTool

LEMMA DisconnectWaits ==
    ASSUME Typed, OnDisconnect
    PROVE  /\ caller.pc # "idle" => caller' = caller \/ Waits(caller') < Waits(caller)
           /\ ~client'.reading
<1>1. ~client'.reading
  BY DEF OnDisconnect, Typed
<1>2. QED
  BY <1>1, RestWaits, CallerWaits DEF OnDisconnect

\* A frame settles the request the caller waits for, or changes nothing for the caller.
LEMMA FrameOnward == ASSUME IInv, OnFrame PROVE Onward
<1> DEFINE data == client.pendingData
           f == data[1].frame
           header == data # <<>> /\ data[1].part = "head" /\ f.body # "oversized"
           complete == header /\ Len(data) >= 2
           parsed == complete /\ data[2] = Units(f)[2] /\ f.body # "invalid"
<1>1. /\ Typed /\ Waits(caller) \in 0..5 /\ data \in Seq(Unit)
      /\ caller.pc # "idle" => Waits(caller) > 0
      /\ client.pending # {} => caller.pc = "answer"
  BY CallerWaits DEF IInv, Awaited
<1>2. CASE client' = [client EXCEPT !.reading = FALSE] /\ UNCHANGED <<outcome, caller>>
  <2>1. ~client'.reading
    BY <1>1, <1>2 DEF Typed
  <2>2. QED
    BY <1>2, <2>1 DEF Onward
<1>3. CASE OnDisconnect
  BY <1>1, <1>3, DisconnectWaits DEF Onward
<1>4. CASE /\ parsed
           /\ client' = [client EXCEPT !.pendingData = SubSeq(@, 3, Len(@)),
                                       !.pending = @ \ {f.id}]
           /\ IF f.id \in client.pending THEN Resolve(f.body) ELSE UNCHANGED <<outcome, caller>>
  <2>1. Len(client'.pendingData) < Len(data)
    <3>1. client'.pendingData = SubSeq(data, 3, Len(data))
      BY <1>1, <1>4 DEF Typed
    <3>2. Len(data) >= 2
      BY <1>4
    <3> HIDE DEF data
    <3>3. QED
      BY <1>1, <3>1, <3>2
  <2>2. CASE UNCHANGED caller
    BY <2>1, <2>2 DEF Onward
  <2>3. CASE f.id \in client.pending /\ Resolve(f.body)
    <3>1. caller.pc = "answer"
      BY <1>1, <2>3
    <3>2. CASE caller' = AtRest
      BY <1>1, <2>1, <3>2, RestWaits DEF Onward
    <3>3. CASE /\ caller.method = "tools/list"
               /\ caller' = [caller EXCEPT !.pc = "listed",
                                !.catalogue = [from |-> client.socket, offers |-> f.body = "tool"]]
      <4>1. Waits(caller) = 4
        BY <3>1, <3>3 DEF Waits
      <4>2. caller'.pc = "listed"
        BY <1>1, <3>3 DEF Typed
      <4>3. Waits(caller') = 3
        BY <4>2 DEF Waits
      <4>4. QED
        BY <2>1, <4>1, <4>3 DEF Onward
    <3>4. QED
      BY <2>3, <3>2, <3>3 DEF Resolve
  <2>4. QED
    BY <1>4, <2>2, <2>3
<1>5. QED
  BY <1>2, <1>3, <1>4 DEF OnFrame

LEMMA StepOnward == ASSUME IInv, [Next]_vars PROVE Onward
<1>1. /\ Typed /\ Waits(caller) \in 0..5
      /\ caller.pc # "idle" => Waits(caller) > 0
  BY CallerWaits DEF IInv
<1>2. CASE UNCHANGED <<caller, client>>
  BY <1>2 DEF Onward
<1>3. ASSUME NEW c \in Claim, SendContinue(c) PROVE Onward
  BY <1>3, QuietOnward DEF SendContinue, Quiet
<1>4. CASE Listed
  <2>1. CallTool([client EXCEPT !.tools = caller.catalogue], Current, caller.catalogue)
    BY <1>4 DEF Listed
  <2>2. Waits(caller') \in 0..2
    BY <2>1, CallWaits
  <2>3. Waits(caller) = 3 /\ ~client.reading
    BY <1>4 DEF Listed, Waits
  <2>4. QED
    BY <2>2, <2>3, QuietOnward
<1>5. CASE Connected
  <2>1. /\ ~client.reading /\ caller.pc = "connecting"
        /\ \E socket : Written([client EXCEPT !.socket = socket], Current, caller.method, socket)
    BY <1>5 DEF Connected, Quiet
  <2>2. Waits(caller') = IF caller.method = "tools/call" THEN 1 ELSE 4
    BY <2>1, WrittenWaits
  <2>3. Waits(caller) = IF caller.method = "tools/call" THEN 2 ELSE 5
    BY <2>1 DEF Waits
  <2>4. QED
    BY <2>1, <2>2, <2>3, QuietOnward
<1>6. CASE ConnectFails \/ Timeout
  <2>1. ~client.reading /\ caller' = AtRest
    BY <1>6 DEF ConnectFails, Timeout, Quiet
  <2>2. QED
    BY <1>1, <2>1, RestWaits, QuietOnward
<1>7. CASE OnData \/ OnEnd
  BY <1>7, QuietOnward DEF OnData, OnEnd, Quiet
<1>8. CASE OnClose \/ OnError
  <2>1. ~client.reading /\ OnDisconnect
    BY <1>8 DEF OnClose, OnError, Quiet
  <2>2. QED
    BY <1>1, <2>1, DisconnectWaits, QuietOnward
<1>9. CASE OnFrame
  BY <1>9, FrameOnward
<1>10. CASE (\E r \in asked : Performs(r) \/ Answers(r)) \/ Babbles \/ Closes \/ UNCHANGED vars
  BY <1>2, <1>10 DEF Performs, Answers, Babbles, Closes, DesktopWrites, vars
<1>11. QED
  BY <1>3, <1>4, <1>5, <1>6, <1>7, <1>8, <1>9, <1>10 DEF Next

\* Whatever Desktop answers and however often the connection breaks, an attempt waits for at
\* most five things, each of which ends by its own timer or failure, and reading what arrived
\* comes to an end: all that AttemptSettles asks of the scheduler is that callbacks run.
THEOREM PipeAttemptsAdvance == Spec => [][Onward]_vars
<1>1. IInv /\ [Next]_vars => [Onward]_vars
  BY StepOnward
<1>2. QED
  BY <1>1, NativePipeInvariant, PTL DEF Spec

=============================================================================
