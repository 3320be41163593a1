---------------------------- MODULE CommandLink ----------------------------
(***************************************************************************)
(* One AbletonTcpAdapter (client), the Remote Script's handler thread of   *)
(* each connection (bridge) and Live's main thread.                        *)
(*                                                                         *)
(* A write is handed to the main thread and the handler waits ten seconds  *)
(* for it; the client waits eight. Neither gives the command up: the       *)
(* scheduled task still runs, and its reply still arrives, after both have *)
(* stopped waiting. Reads are answered by the handler itself.              *)
(***************************************************************************)
EXTENDS Naturals, Sequences, FiniteSets

CONSTANTS
    Command,    \* the calls of _command
    SideEffect, \* those made with side_effect=True: they run on the main thread
    MaxConn,    \* bound: connections opened one after another
    Nobody      \* no command: an idle handler, a reply without request_id

ASSUME CommandAssumption ==
    SideEffect \subseteq Command /\ MaxConn \in Nat \ {0} /\ Nobody \notin Command

VARIABLES
    now,      \* the client's connection
    verdict,  \* outcome of each call, as _command raised or returned it
    at, era, clock, \* order of issue and connection of each call (history)
    requests, \* requests[k]: bytes from client to bridge, one element a request
    replies,  \* replies[k]: bytes from bridge to client
    open,     \* open[k]: the bridge's end of connection k
    jammed,   \* jammed[k]: the handler's buffer holds two requests run together
    serving,  \* serving[k]: the write whose response_queue handler k waits on
    mainQ,    \* tasks given to schedule_message, not yet run
    done      \* done[c]: how Live ended c

clientVars == <<now, verdict, at, era, clock>>
bridgeVars == <<requests, replies, open, jammed, serving>>
liveVars == <<mainQ, done>>
vars == <<clientVars, bridgeVars, liveVars>>

Conn == 1..MaxConn
Reply == [id : Command \cup {Nobody}, ok : BOOLEAN]
Verdict == {"none", "waiting", "result", "refused", "in_doubt", "no_reply", "mismatch"}

\* How a handler in Live ends: it returns, it raises with a part of its effect
\* in Live, or it raises having changed nothing.
End == {"applied", "partial", "raised"}

TypeOK ==
    /\ now \in Conn
    /\ verdict \in [Command -> Verdict]
    /\ at \in [Command -> Nat]
    /\ era \in [Command -> 0..MaxConn]
    /\ clock \in Nat
    /\ requests \in [Conn -> Seq(Command)]
    /\ replies \in [Conn -> Seq(Reply)]
    /\ open \in [Conn -> BOOLEAN]
    /\ jammed \in [Conn -> BOOLEAN]
    /\ serving \in [Conn -> SideEffect \cup {Nobody}]
    /\ mainQ \in Seq(SideEffect)
    /\ done \in [Command -> End \cup {"no"}]

Init ==
    /\ now = 1
    /\ verdict = [c \in Command |-> "none"]
    /\ at = [c \in Command |-> 0]
    /\ era = [c \in Command |-> 0]
    /\ clock = 0
    /\ requests = [k \in Conn |-> <<>>]
    /\ replies = [k \in Conn |-> <<>>]
    /\ open = [k \in Conn |-> k = 1]
    /\ jammed = [k \in Conn |-> FALSE]
    /\ serving = [k \in Conn |-> Nobody]
    /\ mainQ = <<>>
    /\ done = [c \in Command |-> "no"]

-----------------------------------------------------------------------------
(* The client: AbletonTcpAdapter.                                          *)

Idle == \A c \in Command : verdict[c] # "waiting"

\* sendall: the peer's kernel takes the bytes while its end is open.
Send(c) ==
    /\ Idle
    /\ verdict[c] = "none"
    /\ verdict' = [verdict EXCEPT ![c] = "waiting"]
    /\ clock' = clock + 1
    /\ at' = [at EXCEPT ![c] = clock + 1]
    /\ era' = [era EXCEPT ![c] = now]
    /\ requests' = IF open[now] THEN [requests EXCEPT ![now] = Append(@, c)] ELSE requests
    /\ UNCHANGED <<now, replies, open, jammed, serving, liveVars>>

\* Mutant: the id of the reply is not compared.
ReadingAnyId(c, r) == IF r.ok THEN "result" ELSE "refused"

\* How _command reads a reply: an id that is present and differs is a
\* ProtocolError, then status "error" is a DawError, then it is the result.
Reading(c, r) ==
    IF r.id \notin {c, Nobody} THEN "mismatch"
    ELSE IF r.ok THEN "result" ELSE "refused"

\* _recv_json returns the first reply in the stream, whichever it answers.
Receive(c) ==
    /\ verdict[c] = "waiting"
    /\ replies[now] # <<>>
    /\ verdict' = [verdict EXCEPT ![c] = Reading(c, Head(replies[now]))]
    /\ replies' = [replies EXCEPT ![now] = Tail(@)]
    /\ UNCHANGED <<now, at, era, clock, requests, open, jammed, serving, liveVars>>

\* Mutant: a write is sent with the timeout switched off.
TimeoutOfReads(c) ==
    /\ verdict[c] = "waiting" /\ c \notin SideEffect
    /\ replies[now] = <<>>
    /\ verdict' = [verdict EXCEPT ![c] = "no_reply"]
    /\ UNCHANGED <<now, at, era, clock, bridgeVars, liveVars>>

\* socket.timeout: nothing came within the deadline. The socket stays open and
\* the reply, when it comes, stays in the stream.
Timeout(c) ==
    /\ verdict[c] = "waiting"
    /\ replies[now] = <<>>
    /\ verdict' = [verdict EXCEPT ![c] = IF c \in SideEffect THEN "in_doubt" ELSE "no_reply"]
    /\ UNCHANGED <<now, at, era, clock, bridgeVars, liveVars>>

\* The peer has closed. An orderly end of stream is a plain DawError ("Empty
\* response from Ableton"); a reset is an OSError, which is WriteInDoubt for a
\* write.
Disconnected(c) ==
    /\ verdict[c] = "waiting"
    /\ ~open[now]
    /\ replies[now] = <<>>
    /\ \E v \in {"no_reply"} \cup (IF c \in SideEffect THEN {"in_doubt"} ELSE {}) :
          verdict' = [verdict EXCEPT ![c] = v]
    /\ UNCHANGED <<now, at, era, clock, bridgeVars, liveVars>>

\* disconnect() then connect(): the requests already sent on the old socket
\* stay readable for its handler. Unread replies are gone.
Reconnect ==
    /\ Idle
    /\ now < MaxConn
    /\ now' = now + 1
    /\ open' = [open EXCEPT ![now + 1] = TRUE]
    /\ replies' = [replies EXCEPT ![now] = <<>>]
    /\ UNCHANGED <<verdict, at, era, clock, requests, jammed, serving, liveVars>>

-----------------------------------------------------------------------------
(* The bridge: one _handle_client thread per connection.                   *)

Listening(k) == open[k] /\ ~jammed[k] /\ serving[k] = Nobody /\ requests[k] # <<>>

\* client.sendall of a response: a closed client never reads it.
Respond(k, r) == replies' = IF k = now THEN [replies EXCEPT ![k] = Append(@, r)] ELSE replies

\* Mutant: every command is scheduled, reads included.
TakeAny(k) ==
    /\ Listening(k)
    /\ serving' = [serving EXCEPT ![k] = Head(requests[k])]
    /\ mainQ' = Append(mainQ, Head(requests[k]))
    /\ requests' = [requests EXCEPT ![k] = Tail(@)]
    /\ UNCHANGED <<clientVars, replies, open, jammed, done>>

\* A write: schedule_message, then block on the response queue.
TakeWrite(k) ==
    /\ Listening(k)
    /\ Head(requests[k]) \in SideEffect
    /\ serving' = [serving EXCEPT ![k] = Head(requests[k])]
    /\ mainQ' = Append(mainQ, Head(requests[k]))
    /\ requests' = [requests EXCEPT ![k] = Tail(@)]
    /\ UNCHANGED <<clientVars, replies, open, jammed, done>>

\* A read: answered by the handler thread at once, with a result or an error.
TakeRead(k) ==
    /\ Listening(k)
    /\ LET c == Head(requests[k]) IN
          /\ c \notin SideEffect
          /\ \E ok \in BOOLEAN :
                /\ done' = [done EXCEPT ![c] = IF ok THEN "applied" ELSE "raised"]
                /\ Respond(k, [id |-> c, ok |-> ok])
    /\ requests' = [requests EXCEPT ![k] = Tail(@)]
    /\ UNCHANGED <<clientVars, open, jammed, serving, mainQ>>

\* One recv returns two requests: json.loads of the buffer fails with "Extra
\* data", which the handler takes for an incomplete request, now and for ever.
RunTogether(k) ==
    /\ Listening(k)
    /\ Len(requests[k]) > 1
    /\ jammed' = [jammed EXCEPT ![k] = TRUE]
    /\ requests' = [requests EXCEPT ![k] = <<>>]
    /\ UNCHANGED <<clientVars, replies, open, serving, liveVars>>

\* A jammed handler reads on and answers nothing.
Swallow(k) ==
    /\ open[k] /\ jammed[k] /\ requests[k] # <<>>
    /\ requests' = [requests EXCEPT ![k] = <<>>]
    /\ UNCHANGED <<clientVars, replies, open, jammed, serving, liveVars>>

\* The main thread has put its outcome in the response queue.
ReplyDone(k) ==
    /\ serving[k] # Nobody
    /\ done[serving[k]] # "no"
    /\ Respond(k, [id |-> serving[k], ok |-> done[serving[k]] = "applied"])
    /\ serving' = [serving EXCEPT ![k] = Nobody]
    /\ UNCHANGED <<clientVars, requests, open, jammed, liveVars>>

\* response_queue.get(timeout=10.0) raises Empty: an error reply, but the task
\* stays scheduled. The client's deadline for a write is eight seconds from an
\* earlier moment, so its call has returned by then.
Abandon(k) ==
    /\ serving[k] # Nobody
    /\ done[serving[k]] = "no"
    /\ verdict[serving[k]] # "waiting"
    /\ Respond(k, [id |-> serving[k], ok |-> FALSE])
    /\ serving' = [serving EXCEPT ![k] = Nobody]
    /\ UNCHANGED <<clientVars, requests, open, jammed, liveVars>>

\* The handler loop ends: CLIENT_TIMEOUT without a request or another exception,
\* for which it sends an error without request_id first, or a full buffer or a
\* closed client, for which it sends nothing. The exception may be raised by the
\* sending of a reply (json.dumps of the result, sendall): the command is over
\* then, and its own reply is never sent. Unread requests are lost.
EndHandler(k) ==
    /\ open[k]
    /\ serving[k] # Nobody => done[serving[k]] # "no"
    /\ serving' = [serving EXCEPT ![k] = Nobody]
    /\ open' = [open EXCEPT ![k] = FALSE]
    /\ Respond(k, [id |-> Nobody, ok |-> FALSE]) \/ UNCHANGED replies
    /\ requests' = [requests EXCEPT ![k] = <<>>]
    /\ UNCHANGED <<clientVars, jammed, liveVars>>

-----------------------------------------------------------------------------
(* Live.                                                                   *)

\* Mutant: the newest scheduled task runs first.
NewestTaskFirst ==
    /\ mainQ # <<>>
    /\ \E end \in End : done' = [done EXCEPT ![mainQ[Len(mainQ)]] = end]
    /\ mainQ' = SubSeq(mainQ, 1, Len(mainQ) - 1)
    /\ UNCHANGED <<clientVars, bridgeVars>>

\* The main thread runs the next scheduled task. Whatever it raises becomes an
\* error reply, after no change of Live or after some.
MainThreadTask ==
    /\ mainQ # <<>>
    /\ \E end \in End : done' = [done EXCEPT ![Head(mainQ)] = end]
    /\ mainQ' = Tail(mainQ)
    /\ UNCHANGED <<clientVars, bridgeVars>>

\* Live quits: every handler and every scheduled task is gone. Replies already
\* sent are delivered, or lost to a reset.
LiveExits ==
    /\ mainQ # <<>> \/ \E k \in Conn : open[k]
    /\ \E reset \in BOOLEAN :
          replies' = IF reset THEN [replies EXCEPT ![now] = <<>>] ELSE replies
    /\ open' = [k \in Conn |-> FALSE]
    /\ serving' = [k \in Conn |-> Nobody]
    /\ requests' = [k \in Conn |-> <<>>]
    /\ mainQ' = <<>>
    /\ UNCHANGED <<clientVars, jammed, done>>

Client == Reconnect \/ \E c \in Command : Send(c) \/ Receive(c) \/ Timeout(c) \/ Disconnected(c)
Bridge == \E k \in Conn : \/ TakeWrite(k) \/ TakeRead(k) \/ RunTogether(k) \/ Swallow(k)
                          \/ ReplyDone(k) \/ Abandon(k) \/ EndHandler(k)
Live == MainThreadTask \/ LiveExits

Next == Client \/ Bridge \/ Live

\* The socket timeout is armed on every receive, so a call always returns.
Fairness == \A c \in Command : WF_vars(Receive(c) \/ Timeout(c) \/ Disconnected(c))

Spec == Init /\ [][Next]_vars /\ Fairness

-----------------------------------------------------------------------------
(* The contract: CommandLink implements LiveLink.                          *)

InFlight(c) ==
    \/ \E i \in DOMAIN mainQ : mainQ[i] = c
    \/ \E k \in Conn : \E i \in DOMAIN requests[k] : requests[k][i] = c

FateOf(c) ==
    CASE at[c] = 0           -> "unsent"
      [] done[c] = "applied" -> "applied"
      [] done[c] = "partial" -> "partial"
      [] InFlight(c)         -> "pending"
      [] OTHER               -> "untouched"

VerdictOf(c) == IF verdict[c] \in {"no_reply", "mismatch"} THEN "failed" ELSE verdict[c]

Contract == INSTANCE LiveLink WITH
    verdict <- [c \in Command |-> VerdictOf(c)],
    fate <- [c \in Command |-> FateOf(c)]

\* Every step of the adapter, the bridge and Live is a step the contract allows:
\* "result" only for a write Live carried out, "refused" only for one of which
\* nothing is on its way any more, whatever it changed before, and on one
\* connection Live runs writes in the order they were sent.
ImplementsContract == Contract!LinkSpec

-----------------------------------------------------------------------------
(* Properties.                                                             *)

\* A write that returned an error reply is over: the bridge's ten seconds outlast
\* the client's eight, so the "Timeout waiting for operation" reply to a task that
\* may still run never reaches its caller. It was not carried out either, though
\* it may have raised half way, unless the bridge has closed its connection: then
\* the error may be the one without request_id sent after a write was carried out.
RefusedIsOver ==
    \A c \in SideEffect :
        verdict[c] = "refused" => ~InFlight(c) /\ (done[c] = "applied" => ~open[era[c]])

\* A call that returned a result carries its own reply: the write it sent is the
\* one Live applied, whatever late replies the stream still held.
ResultIsOwn == \A c \in Command : verdict[c] = "result" => done[c] = "applied"

\* Every call returns: _command never blocks its caller for ever.
EveryCallReturns == \A c \in Command : (verdict[c] = "waiting") ~> (verdict[c] # "waiting")

\* SAFETY_INVARIANTS.md, 8: "Lost ack after dispatch is IN_DOUBT." A write that
\* Live carried out and whose reply was lost is never reported as a failure. (One
\* whose reply raises in the handler is answered by an error: that is no lost ack.)
LostAckIsInDoubt ==
    \A c \in SideEffect :
        done[c] = "applied" => verdict[c] \notin {"no_reply", "mismatch"}
=============================================================================
