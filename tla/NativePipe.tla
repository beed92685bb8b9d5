----------------------------- MODULE NativePipe ------------------------------
(***************************************************************************)
(* The client of Codex Desktop's native pipe (native_pipe_client.mjs): one *)
(* connection at a time, numbered requests, answers framed by their length *)
(* and cut into chunks anywhere, a cached tool catalogue, timers that run  *)
(* beside it all.                                                          *)
(*                                                                         *)
(* One dispatcher uses it, one sendContinue at a time (`dispatching`).     *)
(* JavaScript runs one callback after another; settled promises resume     *)
(* when the callback has returned (Quiet), errors of a destroyed socket    *)
(* are emitted before that.                                                *)
(***************************************************************************)
EXTENDS Naturals, Sequences, FiniteSets

CONSTANTS
    Claim,              \* the attempts
    MaxConnections,     \* bounds the connections Desktop accepts
    MaxFrames           \* bounds the frames Desktop writes

ASSUME NativePipeAssumption == {MaxConnections, MaxFrames} \subseteq Nat

VARIABLES
    outcome,    \* of each attempt
    caller,     \* the sendContinue under way
    client,     \* the NativePipeClient
    asked,      \* the requests written to the pipe, ever
    desktop     \* Desktop's side of the connections

vars == <<outcome, caller, client, asked, desktop>>

Methods == {"tools/list", "tools/call"}
NoSocket == 0
Sockets == 1..MaxConnections
NoTools == [from |-> NoSocket, offers |-> FALSE]
Catalogue == [from : Sockets, offers : BOOLEAN]
Ids == Nat \ {0}

\* A frame and its two halves: the length arrives with the head.
Frame == [id : Ids \cup {0}, body : {"tool", "no tool", "success", "refused", "error",
                                     "invalid", "oversized"}]
Unit == [part : {"head", "tail"}, frame : Frame]
Units(f) == <<[part |-> "head", frame |-> f], [part |-> "tail", frame |-> f]>>
Bad(f) == f.body \in {"invalid", "oversized"}

AtRest == [pc |-> "idle", claim |-> {}, id |-> 0, method |-> "tools/list", catalogue |-> NoTools]

TypeOK ==
    /\ outcome \in [Claim -> {"unsent", "sending", "sent", "failed"}]
    /\ caller \in [pc : {"idle", "connecting", "answer", "listed"}, claim : SUBSET Claim,
                   id : Ids \cup {0}, method : Methods, catalogue : Catalogue \cup {NoTools}]
    /\ client \in [socket : Sockets \cup {NoSocket}, destroyed : BOOLEAN, reading : BOOLEAN,
                   pendingData : Seq(Unit), pending : SUBSET Ids, nextId : Nat \ {0},
                   tools : Catalogue \cup {NoTools}]
    /\ asked \subseteq [id : Ids, method : Methods, claim : Claim, socket : Sockets]
    /\ desktop \in [accepted : 0..MaxConnections, open : BOOLEAN, wire : Seq(Unit),
                    frames : 0..MaxFrames, spoiled : SUBSET Sockets, performed : SUBSET Claim]
    \* One attempt is under way while the caller is not idle, and only then.
    /\ caller.claim = {c \in Claim : outcome[c] = "sending"}
    /\ Cardinality(caller.claim) = IF caller.pc = "idle" THEN 0 ELSE 1

-----------------------------------------------------------------------------
(* The client. *)

Open == client.socket # NoSocket /\ ~client.destroyed
Quiet == ~client.reading /\ caller.pc # "listed"
Current == CHOOSE c \in Claim : c \in caller.claim
Settled(result) == [c \in Claim |-> IF c \in caller.claim THEN result ELSE outcome[c]]

\* Mutant: the id is the number of requests pending.
MutWritten(now, claim, method, socket) ==
    LET id == Cardinality(now.pending) + 1 IN
    /\ client' = [now EXCEPT !.pending = @ \cup {id}, !.nextId = @ + 1]
    /\ asked' = asked \cup {[id |-> id, method |-> method, claim |-> claim, socket |-> socket]}
    /\ caller' = [AtRest EXCEPT !.pc = "answer", !.claim = {claim}, !.id = id, !.method = method]

\* request, from `const id` on: `now` is the client when the pipe is connected.
Written(now, claim, method, socket) ==
    /\ client' = [now EXCEPT !.pending = @ \cup {now.nextId}, !.nextId = @ + 1]
    /\ asked' = asked \cup {[id |-> now.nextId, method |-> method, claim |-> claim,
                             socket |-> socket]}
    /\ caller' = [AtRest EXCEPT !.pc = "answer", !.claim = {claim}, !.id = now.nextId,
                                !.method = method]

\* request: connect() resolves at once or opens a new connection.
Request(now, claim, method) ==
    IF now.socket # NoSocket /\ ~now.destroyed
    THEN Written(now, claim, method, now.socket)
    ELSE /\ caller' = [AtRest EXCEPT !.pc = "connecting", !.claim = {claim}, !.method = method]
         /\ client' = now
         /\ UNCHANGED asked

\* sendContinue with the catalogue in hand.
CallTool(now, claim, tools) ==
    IF tools.offers
    THEN Request(now, claim, "tools/call") /\ outcome' = [outcome EXCEPT ![claim] = "sending"]
    ELSE /\ outcome' = [outcome EXCEPT ![claim] = "failed"]
         /\ caller' = AtRest /\ client' = now
         /\ UNCHANGED asked

\* sendContinue; listTools uses the cached catalogue, destroyed socket or not.
SendContinue(claim) ==
    /\ Quiet /\ caller.pc = "idle" /\ outcome[claim] = "unsent"
    /\ IF client.tools # NoTools
       THEN CallTool(client, claim, client.tools)
       ELSE Request(client, claim, "tools/list") /\ outcome' = [outcome EXCEPT ![claim] = "sending"]
    /\ UNCHANGED desktop

\* listTools and sendContinue resume, after the callback that settled the request.
Listed ==
    /\ caller.pc = "listed" /\ ~client.reading
    /\ CallTool([client EXCEPT !.tools = caller.catalogue], Current, caller.catalogue)
    /\ UNCHANGED desktop

\* The connect event.  A destroyed socket's close event comes before it: it belongs to
\* the event loop's iteration in which the socket was destroyed.
Connected ==
    /\ Quiet /\ caller.pc = "connecting" /\ client.socket = NoSocket
    /\ desktop.accepted < MaxConnections
    /\ LET socket == desktop.accepted + 1 IN
         /\ Written([client EXCEPT !.socket = socket], Current, caller.method, socket)
         /\ desktop' = [desktop EXCEPT !.accepted = socket, !.open = TRUE, !.wire = <<>>]
    /\ UNCHANGED outcome

\* No such pipe, or nobody listens.
ConnectFails ==
    /\ Quiet /\ caller.pc = "connecting"
    /\ outcome' = Settled("failed")
    /\ caller' = AtRest
    /\ UNCHANGED <<client, asked, desktop>>

\* Mutant: the timer forgets the request but does not reject.
MutTimeout ==
    /\ Quiet /\ caller.pc = "answer"
    /\ client' = [client EXCEPT !.pending = @ \ {caller.id}]
    /\ UNCHANGED <<outcome, caller, asked, desktop>>

\* The timer of a request; the cancellation it writes asks for no answer.
Timeout ==
    /\ Quiet /\ caller.pc = "answer"
    /\ client' = [client EXCEPT !.pending = @ \ {caller.id}]
    /\ outcome' = Settled("failed")
    /\ caller' = AtRest
    /\ UNCHANGED <<asked, desktop>>

\* onData, up to the loop; destroyed sockets emit nothing.
OnData ==
    /\ Quiet /\ Open
    /\ \E n \in 1..Len(desktop.wire) :
         /\ client' = [client EXCEPT !.pendingData = @ \o SubSeq(desktop.wire, 1, n),
                                     !.reading = TRUE]
         /\ desktop' = [desktop EXCEPT !.wire = SubSeq(@, n + 1, Len(@))]
    /\ UNCHANGED <<outcome, caller, asked>>

\* Mutant: the rest of a frame that was cut off is kept.
MutOnDisconnectKeepsData ==
    /\ client' = [client EXCEPT !.socket = NoSocket, !.destroyed = FALSE, !.reading = FALSE,
                                !.tools = NoTools, !.pending = {}]
    /\ IF caller.pc = "answer"
       THEN outcome' = Settled("failed") /\ caller' = AtRest
       ELSE UNCHANGED <<outcome, caller>>

\* Mutant: the catalogue is kept.
MutOnDisconnectKeepsTools ==
    /\ client' = [client EXCEPT !.socket = NoSocket, !.destroyed = FALSE, !.reading = FALSE,
                                !.pendingData = <<>>, !.pending = {}]
    /\ IF caller.pc = "answer"
       THEN outcome' = Settled("failed") /\ caller' = AtRest
       ELSE UNCHANGED <<outcome, caller>>

\* onDisconnect of the current socket.
OnDisconnect ==
    /\ client' = [client EXCEPT !.socket = NoSocket, !.destroyed = FALSE, !.reading = FALSE,
                                !.tools = NoTools, !.pendingData = <<>>, !.pending = {}]
    /\ IF caller.pc = "answer"
       THEN outcome' = Settled("failed") /\ caller' = AtRest
       ELSE UNCHANGED <<outcome, caller>>

\* A request is settled by its answer.
Resolve(body) ==
    CASE caller.method = "tools/list" /\ body \in {"tool", "no tool"} ->
            /\ caller' = [caller EXCEPT !.pc = "listed",
                              !.catalogue = [from |-> client.socket, offers |-> body = "tool"]]
            /\ UNCHANGED outcome
      [] caller.method = "tools/call" /\ body = "success" ->
            outcome' = Settled("sent") /\ caller' = AtRest
      [] OTHER -> outcome' = Settled("failed") /\ caller' = AtRest

\* One turn of onData's loop.  What is out of step with the frames reads as garbage.
OnFrame ==
    LET data == client.pendingData
        f == data[1].frame
        header == data # <<>> /\ data[1].part = "head" /\ f.body # "oversized"
        complete == header /\ Len(data) >= 2
        parsed == complete /\ data[2] = Units(f)[2] /\ f.body # "invalid"
    IN
    /\ client.reading
    /\ IF data = <<>> \/ (header /\ ~complete)
       THEN client' = [client EXCEPT !.reading = FALSE] /\ UNCHANGED <<outcome, caller>>
       ELSE IF ~parsed THEN OnDisconnect
       ELSE /\ client' = [client EXCEPT !.pendingData = SubSeq(@, 3, Len(@)),
                                        !.pending = @ \ {f.id}]
            /\ IF f.id \in client.pending THEN Resolve(f.body) ELSE UNCHANGED <<outcome, caller>>
    /\ UNCHANGED <<asked, desktop>>

\* The end of the stream destroys the socket; the close event follows.
OnEnd ==
    /\ Quiet /\ Open /\ ~desktop.open /\ desktop.wire = <<>>
    /\ client' = [client EXCEPT !.destroyed = TRUE]
    /\ UNCHANGED <<outcome, caller, asked, desktop>>

OnClose ==
    /\ Quiet /\ client.destroyed
    /\ OnDisconnect
    /\ UNCHANGED <<asked, desktop>>

\* A broken connection: the error event, with what was on its way lost.
OnError ==
    /\ Quiet /\ Open
    /\ OnDisconnect
    /\ desktop' = [desktop EXCEPT !.open = FALSE, !.wire = <<>>]
    /\ UNCHANGED asked

-----------------------------------------------------------------------------
(* Codex Desktop: it answers what it was asked in any order, late, twice or not at *)
(* all, and may write frames that answer nothing or that are no frames.            *)

Performs(r) ==
    /\ r.method = "tools/call"
    /\ desktop' = [desktop EXCEPT !.performed = @ \cup {r.claim}]
    /\ UNCHANGED <<outcome, caller, client, asked>>

DesktopWrites(f) ==
    /\ desktop.open /\ desktop.frames < MaxFrames
    /\ desktop' = [desktop EXCEPT !.wire = @ \o Units(f), !.frames = @ + 1,
                                  !.spoiled = IF Bad(f) THEN @ \cup {desktop.accepted} ELSE @]
    /\ UNCHANGED <<outcome, caller, client, asked>>

Answers(r) ==
    /\ r.socket = desktop.accepted
    /\ \E body \in {"error"} \cup (IF r.method = "tools/list" THEN {"tool", "no tool"}
                                   ELSE {"refused"} \cup
                                        (IF r.claim \in desktop.performed THEN {"success"} ELSE {})) :
         DesktopWrites([id |-> r.id, body |-> body])

Babbles == \E body \in {"error", "invalid", "oversized"} : DesktopWrites([id |-> 0, body |-> body])

Closes ==
    /\ desktop.open
    /\ desktop' = [desktop EXCEPT !.open = FALSE]
    /\ UNCHANGED <<outcome, caller, client, asked>>

-----------------------------------------------------------------------------

Init ==
    /\ outcome = [c \in Claim |-> "unsent"]
    /\ caller = AtRest
    /\ client = [socket |-> NoSocket, destroyed |-> FALSE, reading |-> FALSE,
                 pendingData |-> <<>>, pending |-> {}, nextId |-> 1, tools |-> NoTools]
    /\ asked = {}
    /\ desktop = [accepted |-> 0, open |-> FALSE, wire |-> <<>>, frames |-> 0,
                  spoiled |-> {}, performed |-> {}]

Next ==
    \/ \E c \in Claim : SendContinue(c)
    \/ Listed \/ Connected \/ ConnectFails \/ Timeout
    \/ OnData \/ OnFrame \/ OnEnd \/ OnClose \/ OnError
    \/ \E r \in asked : Performs(r) \/ Answers(r)
    \/ Babbles \/ Closes

\* Timers fire, callbacks run to their end, and opening a pipe succeeds or fails.
\* Nothing is assumed of Desktop.
Fairness ==
    /\ WF_vars(Listed) /\ WF_vars(OnFrame) /\ WF_vars(Timeout)
    /\ WF_vars(Connected \/ ConnectFails) /\ WF_vars(OnClose)

Spec == Init /\ [][Next]_vars

FairSpec == Spec /\ Fairness

-----------------------------------------------------------------------------

\* What is left of the stream on the current connection is whole frames, however
\* they were cut and wherever the connections before it broke off.
InStep ==
    client.socket # NoSocket =>
        LET stream == client.pendingData \o desktop.wire IN
        \A i \in DOMAIN stream :
            i % 2 = 1 => i < Len(stream) /\ <<stream[i], stream[i + 1]>> = Units(stream[i].frame)

\* The requests pending are the one the caller waits for: it was written on the current
\* connection, and nothing that can no longer be answered is waited for or kept.
PendingIsAwaited ==
    /\ client.pending = IF caller.pc = "answer" THEN {caller.id} ELSE {}
    /\ caller.pc = "answer" =>
         \E r \in asked : r.id = caller.id /\ r.method = caller.method /\ r.socket = client.socket

\* The client at rest or not: its types, the stream and the requests agree.
Consistent == TypeOK /\ InStep /\ PendingIsAwaited

\* The cached catalogue is that of the current connection, or of one on which Desktop sent
\* bytes that are no frame.  Of those nothing is said: when the bytes come in one chunk with
\* the catalogue, the connection is gone before listTools stores it.
CatalogueCurrent ==
    client.tools # NoTools =>
        client.tools.from = client.socket \/ client.tools.from \in desktop.spoiled

\* Seen through its calls, the client is what the dispatcher expects: no attempt is
\* written twice, reconnected or not, and no success is reported on the answer to
\* another request.
Calls == [c \in Claim |-> Cardinality({r \in asked : r.claim = c /\ r.method = "tools/call"})]

Sends == INSTANCE Send WITH calls <- Calls, performed <- desktop.performed

ImplementsSend == Sends!Spec

\* Every attempt comes back to the dispatcher, whatever Desktop does.
AttemptSettles == \A c \in Claim : outcome[c] = "sending" ~> outcome[c] # "sending"
=============================================================================
