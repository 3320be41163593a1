-------------------------- MODULE CommandLinkProofs --------------------------
(***************************************************************************)
(* The adapter, the bridge and Live's main thread implement LiveLink, for  *)
(* every set of commands and every number of connections.                  *)
(***************************************************************************)
EXTENDS CommandLink, TLAPS

USE CommandAssumption

-----------------------------------------------------------------------------
(* The invariant.                                                          *)

\* A command in a sequence of commands; the id of a reply in a stream.
Among(c, s) == \E i \in 1..Len(s) : s[i] = c
AmongIds(c, s) == \E i \in 1..Len(s) : s[i].id = c

Answered(c) == AmongIds(c, replies[now])
Sent(c) == at[c] > 0

\* What the bridge has still to answer on the connection in use, or has answered
\* and nobody has read.
Out(c) ==
    \/ Answered(c)
    \/ serving[now] = c
    \/ ~jammed[now] /\ Among(c, requests[now])

Missed(c) == era[c] = now /\ verdict[c] \in {"in_doubt", "no_reply", "mismatch"}
Broken == \E c \in Command : Missed(c)

\* The order of issue; the call in progress is the last one sent.
History ==
    /\ \A c \in Command : /\ verdict[c] = "none" <=> at[c] = 0
                          /\ at[c] <= clock /\ era[c] <= now
                          /\ verdict[c] = "waiting" => at[c] = clock /\ era[c] = now
    /\ \A c, d \in Command : at[c] = at[d] /\ at[c] > 0 => c = d

\* Where a command that Live may still carry out can be.
Places ==
    /\ \A k \in Conn : \A i \in 1..Len(requests[k]) :
          /\ Sent(requests[k][i]) /\ era[requests[k][i]] = k /\ done[requests[k][i]] = "no"
    /\ \A i \in 1..Len(mainQ) : Sent(mainQ[i]) /\ done[mainQ[i]] = "no"
    /\ \A k \in Conn : serving[k] # Nobody => Sent(serving[k]) /\ era[serving[k]] = k
    /\ \A c \in Command : at[c] = 0 => done[c] = "no"

\* Requests, handlers and tasks hold commands in the order they were sent.
Order ==
    /\ \A k \in Conn : \A i, j \in 1..Len(requests[k]) :
          i < j => at[requests[k][i]] < at[requests[k][j]]
    /\ \A k \in Conn : serving[k] # Nobody =>
          \A i \in 1..Len(requests[k]) : at[serving[k]] < at[requests[k][i]]
    /\ \A i, j \in 1..Len(mainQ) :
          i < j /\ era[mainQ[i]] = era[mainQ[j]] => at[mainQ[i]] < at[mainQ[j]]
    /\ \A i \in 1..Len(mainQ), k \in Conn : \A j \in 1..Len(requests[k]) :
          era[mainQ[i]] = k => at[mainQ[i]] < at[requests[k][j]]

\* On the connection in use: d was sent before all that is not answered yet.
Ahead(d) ==
    /\ serving[now] # Nobody => at[d] < at[serving[now]]
    /\ \A j \in 1..Len(requests[now]) : at[d] < at[requests[now][j]]

\* Nothing more comes from the connection in use.
Over == ~open[now] /\ serving[now] = Nobody /\ requests[now] = <<>>

\* What a reply in the stream says, and what comes after it.
Tells(r) ==
    r.id # Nobody =>
        /\ Sent(r.id) /\ era[r.id] = now
        /\ r.ok => done[r.id] = "applied"
        /\ ~r.ok => done[r.id] \in {"partial", "raised"} \/ verdict[r.id] # "waiting"
        /\ Ahead(r.id)

\* An error without request_id is the last thing a handler sends.
Ended(i) == replies[now][i].id = Nobody => ~replies[now][i].ok /\ i = Len(replies[now]) /\ Over

Stream ==
    /\ \A k \in Conn : k # now => replies[k] = <<>>
    /\ \A i \in 1..Len(replies[now]) : Tells(replies[now][i]) /\ Ended(i)
    /\ \A i, j \in 1..Len(replies[now]) :
          i < j /\ replies[now][j].id # Nobody => at[replies[now][i].id] < at[replies[now][j].id]

\* The call in progress: a task of it has its handler waiting, an outcome of it
\* has a reply, or the connection is over; while the bridge listens it is out.
Waiting ==
    \A c \in Command : verdict[c] = "waiting" =>
        /\ Among(c, mainQ) => serving[now] = c
        /\ done[c] = "applied" =>
              \/ serving[now] = c \/ Answered(c)
              \/ ~open[now] /\ serving[now] = Nobody
        /\ open[now] /\ ~jammed[now] => Out(c)

\* A reply that was missed is still to come, and ahead of the reply to a later call.
Behind ==
    Broken /\ ((open[now] /\ ~jammed[now]) \/ \E c \in Command : Out(c) /\ verdict[c] = "waiting") =>
        \E e \in Command : Out(e) /\ verdict[e] # "waiting"

\* A call is made over a connection.
Connected == \A c \in Command : verdict[c] # "none" => era[c] \in Conn

\* A call that was refused is over. If it was carried out all the same, the bridge
\* has closed its connection.
Told ==
    \A c \in Command :
        /\ verdict[c] = "refused" => ~InFlight(c) /\ (done[c] = "applied" => ~open[era[c]])
        /\ verdict[c] = "result" => done[c] = "applied"

CommandInv ==
    /\ TypeOK /\ History /\ Connected /\ Places /\ Order
    /\ Stream /\ Waiting /\ Behind /\ Told

-----------------------------------------------------------------------------
(* Sequences.                                                              *)

LEMMA AppendAt ==
    ASSUME NEW S, NEW s \in Seq(S), NEW x \in S
    PROVE  /\ Append(s, x) \in Seq(S) /\ Len(s) \in Nat /\ Len(Append(s, x)) = Len(s) + 1
           /\ \A i \in 1..Len(s) : Append(s, x)[i] = s[i]
           /\ Append(s, x)[Len(s) + 1] = x
  OBVIOUS

LEMMA TailAt ==
    ASSUME NEW S, NEW s \in Seq(S), s # <<>>
    PROVE  /\ Tail(s) \in Seq(S) /\ Len(s) \in Nat /\ Len(s) > 0 /\ Len(Tail(s)) = Len(s) - 1
           /\ Head(s) = s[1] /\ Head(s) \in S
           /\ \A i \in 1..Len(Tail(s)) : i + 1 \in 1..Len(s) /\ Tail(s)[i] = s[i + 1]
  OBVIOUS

LEMMA AmongAppend ==
    ASSUME NEW S, NEW s \in Seq(S), NEW x \in S, NEW c
    PROVE  Among(c, Append(s, x)) <=> Among(c, s) \/ c = x
<1>1. Among(c, s) => Among(c, Append(s, x))
  BY AppendAt DEF Among
<1>2. c = x => Among(c, Append(s, x))
  <2>1. Len(s) + 1 \in 1..Len(Append(s, x))
    BY AppendAt
  <2> QED BY <2>1, AppendAt DEF Among
<1>3. ASSUME NEW i \in 1..Len(Append(s, x)), Append(s, x)[i] = c PROVE Among(c, s) \/ c = x
  <2>1. i \in 1..Len(s) \/ i = Len(s) + 1
    BY AppendAt
  <2> QED BY <1>3, <2>1, AppendAt DEF Among
<1> QED BY <1>1, <1>2, <1>3 DEF Among

LEMMA AmongTail ==
    ASSUME NEW S, NEW s \in Seq(S), s # <<>>, NEW c
    PROVE  Among(c, s) <=> c = Head(s) \/ Among(c, Tail(s))
<1>1. c = Head(s) => Among(c, s)
  BY TailAt DEF Among
<1>2. Among(c, Tail(s)) => Among(c, s)
  BY TailAt DEF Among
<1>3. ASSUME NEW i \in 1..Len(s), s[i] = c PROVE c = Head(s) \/ Among(c, Tail(s))
  <2>1. CASE i = 1
    BY <1>3, <2>1, TailAt
  <2>2. CASE i # 1
    <3>1. i - 1 \in 1..Len(Tail(s)) /\ (i - 1) + 1 = i
      BY <2>2, TailAt
    <3> QED BY <1>3, <3>1, TailAt DEF Among
  <2> QED BY <2>1, <2>2
<1> QED BY <1>1, <1>2, <1>3 DEF Among

LEMMA AmongIdsAppend ==
    ASSUME NEW S, NEW s \in Seq(S), NEW x \in S, NEW c
    PROVE  AmongIds(c, Append(s, x)) <=> AmongIds(c, s) \/ c = x.id
<1>1. AmongIds(c, s) => AmongIds(c, Append(s, x))
  BY AppendAt DEF AmongIds
<1>2. c = x.id => AmongIds(c, Append(s, x))
  <2>1. Len(s) + 1 \in 1..Len(Append(s, x))
    BY AppendAt
  <2> QED BY <2>1, AppendAt DEF AmongIds
<1>3. ASSUME NEW i \in 1..Len(Append(s, x)), Append(s, x)[i].id = c
      PROVE  AmongIds(c, s) \/ c = x.id
  <2>1. i \in 1..Len(s) \/ i = Len(s) + 1
    BY AppendAt
  <2> QED BY <1>3, <2>1, AppendAt DEF AmongIds
<1> QED BY <1>1, <1>2, <1>3 DEF AmongIds

LEMMA AmongIdsTail ==
    ASSUME NEW S, NEW s \in Seq(S), s # <<>>, NEW c
    PROVE  AmongIds(c, s) <=> c = Head(s).id \/ AmongIds(c, Tail(s))
<1>1. c = Head(s).id => AmongIds(c, s)
  BY TailAt DEF AmongIds
<1>2. AmongIds(c, Tail(s)) => AmongIds(c, s)
  BY TailAt DEF AmongIds
<1>3. ASSUME NEW i \in 1..Len(s), s[i].id = c PROVE c = Head(s).id \/ AmongIds(c, Tail(s))
  <2>1. CASE i = 1
    BY <1>3, <2>1, TailAt
  <2>2. CASE i # 1
    <3>1. i - 1 \in 1..Len(Tail(s)) /\ (i - 1) + 1 = i
      BY <2>2, TailAt
    <3> QED BY <1>3, <3>1, TailAt DEF AmongIds
  <2> QED BY <2>1, <2>2
<1> QED BY <1>1, <1>2, <1>3 DEF AmongIds

LEMMA AmongEmpty == \A c : ~Among(c, <<>>) /\ ~AmongIds(c, <<>>)
  BY DEF Among, AmongIds

LEMMA FlightIsAmong ==
    ASSUME TypeOK, NEW c
    PROVE  InFlight(c) <=> Among(c, mainQ) \/ \E k \in Conn : Among(c, requests[k])
<1>1. DOMAIN mainQ = 1..Len(mainQ)
  BY DEF TypeOK
<1>2. \A k \in Conn : DOMAIN requests[k] = 1..Len(requests[k])
  BY DEF TypeOK
<1> QED BY <1>1, <1>2 DEF InFlight, Among

-----------------------------------------------------------------------------
(* The initial state, the types and the order of issue.                    *)

LEMMA CommandInit == Init => CommandInv
<1> SUFFICES ASSUME Init PROVE CommandInv
  OBVIOUS
<1>1. TypeOK
  BY DEF Init, TypeOK, Conn, Verdict, Reply, End
<1>2. History /\ Places /\ Order
  BY DEF Init, History, Places, Order, Sent, Conn
<1>3. Stream
  BY DEF Init, Stream, Conn
<1>4. Connected /\ Waiting /\ Told
  BY DEF Init, Connected, Waiting, Told
<1>5. Behind
  BY DEF Init, Behind, Broken, Missed
<1> QED BY <1>1, <1>2, <1>3, <1>4, <1>5 DEF CommandInv

LEMMA RespondType ==
    ASSUME TypeOK, NEW k \in Conn, NEW r \in Reply, Respond(k, r)
    PROVE  replies' \in [Conn -> Seq(Reply)]
  BY DEF Respond, TypeOK

LEMMA HeadOfRequests ==
    ASSUME TypeOK, NEW k \in Conn, Listening(k)
    PROVE  /\ Head(requests[k]) \in Command /\ Tail(requests[k]) \in Seq(Command)
           /\ requests[k] \in Seq(Command) /\ requests[k] # <<>>
  BY TailAt DEF TypeOK, Listening

LEMMA TypeStep == TypeOK /\ [Next]_vars => TypeOK'
<1> SUFFICES ASSUME TypeOK, [Next]_vars PROVE TypeOK'
  OBVIOUS
<1> USE DEF liveVars, bridgeVars, clientVars
<1>1. CASE Reconnect
  BY <1>1 DEF TypeOK, Reconnect, Conn
<1>2. ASSUME NEW c \in Command, Send(c) PROVE TypeOK'
  <2>1. requests' \in [Conn -> Seq(Command)]
    <3>1. Append(requests[now], c) \in Seq(Command)
      BY DEF TypeOK
    <3>2. [requests EXCEPT ![now] = Append(@, c)] \in [Conn -> Seq(Command)]
      BY <3>1 DEF TypeOK
    <3>3. requests' \in {requests, [requests EXCEPT ![now] = Append(@, c)]}
      BY <1>2 DEF Send
    <3> QED BY <3>2, <3>3 DEF TypeOK
  <2>2. verdict' \in [Command -> Verdict] /\ at' \in [Command -> Nat] /\ clock' \in Nat
    BY <1>2 DEF TypeOK, Send, Verdict
  <2>3. era' \in [Command -> 0..MaxConn]
    BY <1>2 DEF TypeOK, Send, Conn
  <2>4. UNCHANGED <<now, replies, open, jammed, serving, mainQ, done>>
    BY <1>2 DEF Send
  <2> QED BY <2>1, <2>2, <2>3, <2>4 DEF TypeOK
<1>3. ASSUME NEW c \in Command, Receive(c) PROVE TypeOK'
  <2>1. verdict' \in [Command -> Verdict]
    BY <1>3 DEF TypeOK, Receive, Reading, Verdict
  <2>2. replies' \in [Conn -> Seq(Reply)]
    BY <1>3 DEF TypeOK, Receive
  <2> QED BY <1>3, <2>1, <2>2 DEF TypeOK, Receive
<1>4. ASSUME NEW c \in Command, Timeout(c) \/ Disconnected(c) PROVE TypeOK'
  BY <1>4 DEF TypeOK, Timeout, Disconnected, Verdict
<1>5. ASSUME NEW k \in Conn, TakeWrite(k) PROVE TypeOK'
  <2>1. /\ Head(requests[k]) \in SideEffect /\ Tail(requests[k]) \in Seq(Command)
        /\ serving' = [serving EXCEPT ![k] = Head(requests[k])]
        /\ mainQ' = Append(mainQ, Head(requests[k]))
        /\ requests' = [requests EXCEPT ![k] = Tail(requests[k])]
        /\ UNCHANGED <<clientVars, replies, open, jammed, done>>
    BY <1>5, HeadOfRequests DEF TakeWrite
  <2>2. serving' \in [Conn -> SideEffect \cup {Nobody}]
    BY <2>1 DEF TypeOK
  <2>3. mainQ' \in Seq(SideEffect)
    BY <2>1 DEF TypeOK
  <2>4. requests' \in [Conn -> Seq(Command)]
    BY <2>1 DEF TypeOK
  <2> QED BY <2>1, <2>2, <2>3, <2>4 DEF TypeOK
<1>6. ASSUME NEW k \in Conn, TakeRead(k) PROVE TypeOK'
  <2>1. PICK ok \in BOOLEAN :
           /\ done' = [done EXCEPT ![Head(requests[k])] = IF ok THEN "applied" ELSE "raised"]
           /\ Respond(k, [id |-> Head(requests[k]), ok |-> ok])
    BY <1>6 DEF TakeRead
  <2>2. Head(requests[k]) \in Command /\ Tail(requests[k]) \in Seq(Command)
    BY <1>6, HeadOfRequests DEF TakeRead
  <2>3. [id |-> Head(requests[k]), ok |-> ok] \in Reply
    BY <2>2 DEF Reply
  <2>4. replies' \in [Conn -> Seq(Reply)]
    BY <2>1, <2>3, RespondType
  <2> QED BY <1>6, <2>1, <2>2, <2>4 DEF TypeOK, TakeRead, End
<1>7. ASSUME NEW k \in Conn, RunTogether(k) \/ Swallow(k) PROVE TypeOK'
  <2>1. requests' \in [Conn -> Seq(Command)]
    <3>1. requests' = [requests EXCEPT ![k] = <<>>]
      BY <1>7 DEF RunTogether, Swallow
    <3> QED BY <3>1 DEF TypeOK
  <2>2. jammed' \in [Conn -> BOOLEAN]
    <3>1. [jammed EXCEPT ![k] = TRUE] \in [Conn -> BOOLEAN]
      BY DEF TypeOK
    <3>2. jammed' = jammed \/ jammed' = [jammed EXCEPT ![k] = TRUE]
      BY <1>7 DEF RunTogether, Swallow
    <3> QED BY <3>1, <3>2 DEF TypeOK
  <2>3. UNCHANGED <<clientVars, replies, open, serving, liveVars>>
    BY <1>7 DEF RunTogether, Swallow
  <2> QED BY <2>1, <2>2, <2>3 DEF TypeOK
<1>8. ASSUME NEW k \in Conn, ReplyDone(k) PROVE TypeOK'
  <2>1. [id |-> serving[k], ok |-> done[serving[k]] = "applied"] \in Reply
    BY <1>8 DEF TypeOK, ReplyDone, Reply
  <2>2. replies' \in [Conn -> Seq(Reply)]
    BY <1>8, <2>1, RespondType DEF ReplyDone
  <2> QED BY <1>8, <2>2 DEF TypeOK, ReplyDone
<1>9. ASSUME NEW k \in Conn, Abandon(k) PROVE TypeOK'
  <2>1. [id |-> serving[k], ok |-> FALSE] \in Reply
    BY <1>9 DEF TypeOK, Abandon, Reply
  <2>2. replies' \in [Conn -> Seq(Reply)]
    BY <1>9, <2>1, RespondType DEF Abandon
  <2> QED BY <1>9, <2>2 DEF TypeOK, Abandon
<1>10. ASSUME NEW k \in Conn, EndHandler(k) PROVE TypeOK'
  <2>1. [id |-> Nobody, ok |-> FALSE] \in Reply
    BY DEF Reply
  <2>2. replies' \in [Conn -> Seq(Reply)]
    BY <1>10, <2>1, RespondType DEF EndHandler, TypeOK
  <2>3. requests' \in [Conn -> Seq(Command)]
    BY <1>10 DEF TypeOK, EndHandler
  <2>4. open' \in [Conn -> BOOLEAN] /\ serving' \in [Conn -> SideEffect \cup {Nobody}]
    BY <1>10 DEF TypeOK, EndHandler
  <2>5. UNCHANGED <<clientVars, jammed, liveVars>>
    BY <1>10 DEF EndHandler
  <2> QED BY <2>2, <2>3, <2>4, <2>5 DEF TypeOK
<1>11. CASE MainThreadTask
  BY <1>11, TailAt DEF TypeOK, MainThreadTask, End
<1>12. CASE LiveExits
  <2>1. replies' \in [Conn -> Seq(Reply)]
    BY <1>12 DEF TypeOK, LiveExits
  <2> QED BY <1>12, <2>1 DEF TypeOK, LiveExits
<1>13. CASE UNCHANGED vars
  BY <1>13 DEF vars, TypeOK
<1> QED BY <1>1, <1>2, <1>3, <1>4, <1>5, <1>6, <1>7, <1>8, <1>9, <1>10, <1>11, <1>12, <1>13
    DEF Next, Client, Bridge, Live

LEMMA HistoryStep == TypeOK /\ History /\ [Next]_vars => History'
<1> SUFFICES ASSUME TypeOK, History, [Next]_vars PROVE History'
  OBVIOUS
<1>1. CASE Reconnect
  <2>1. now' = now + 1 /\ verdict' = verdict /\ at' = at /\ era' = era /\ clock' = clock
    BY <1>1 DEF Reconnect
  <2>2. \A c \in Command : verdict[c] # "waiting" /\ era[c] <= now + 1
    BY <1>1 DEF Reconnect, Idle, TypeOK, History, Conn
  <2> QED BY <2>1, <2>2 DEF History
<1>2. ASSUME NEW c \in Command, Send(c) PROVE History'
  <2>1. /\ verdict' = [verdict EXCEPT ![c] = "waiting"] /\ clock' = clock + 1 /\ now' = now
        /\ at' = [at EXCEPT ![c] = clock + 1] /\ era' = [era EXCEPT ![c] = now]
        /\ \A d \in Command : verdict[d] # "waiting"
    BY <1>2 DEF Send, Idle
  <2>2. \A d \in Command : /\ d # c => verdict'[d] = verdict[d] /\ at'[d] = at[d] /\ era'[d] = era[d]
                           /\ verdict'[c] = "waiting" /\ at'[c] = clock + 1 /\ era'[c] = now
    BY <2>1 DEF TypeOK
  <2>3. clock \in Nat /\ now \in Nat /\ \A d \in Command : at[d] \in Nat /\ at[d] <= clock
    BY DEF TypeOK, History, Conn
  <2>4. ASSUME NEW d \in Command
        PROVE  /\ verdict'[d] = "none" <=> at'[d] = 0
               /\ at'[d] <= clock' /\ era'[d] <= now'
               /\ verdict'[d] = "waiting" => at'[d] = clock' /\ era'[d] = now'
    <3>1. CASE d = c
      BY <2>1, <2>2, <2>3, <3>1
    <3>2. CASE d # c
      BY <2>1, <2>2, <2>3, <3>2 DEF History
    <3> QED BY <3>1, <3>2
  <2>5. \A d, e \in Command : at'[d] = at'[e] /\ at'[d] > 0 => d = e
    BY <2>2, <2>3 DEF History
  <2> QED BY <2>4, <2>5 DEF History
<1>3. ASSUME NEW c \in Command, verdict[c] = "waiting", NEW v \in Verdict \ {"none", "waiting"},
             verdict' = [verdict EXCEPT ![c] = v], UNCHANGED <<now, at, era, clock>>
      PROVE  History'
  BY <1>3 DEF TypeOK, History
<1>4. ASSUME NEW c \in Command, Receive(c) \/ Timeout(c) \/ Disconnected(c) PROVE History'
  <2>1. /\ verdict[c] = "waiting" /\ UNCHANGED <<now, at, era, clock>>
        /\ \E v \in Verdict \ {"none", "waiting"} : verdict' = [verdict EXCEPT ![c] = v]
    BY <1>4 DEF Receive, Timeout, Disconnected, Reading, Verdict
  <2> QED BY <1>3, <2>1
<1>5. CASE UNCHANGED clientVars
  BY <1>5 DEF History, clientVars
<1> QED BY <1>1, <1>2, <1>4, <1>5
    DEF Next, Client, Bridge, Live, TakeWrite, TakeRead, RunTogether, Swallow, ReplyDone, Abandon,
        EndHandler, MainThreadTask, LiveExits, vars

-----------------------------------------------------------------------------
(* Where commands are, and in which order.                                 *)

\* The handler k takes the first of its requests.
Taken(k) ==
    /\ requests[k] \in Seq(Command) /\ Len(requests[k]) \in Nat /\ 1 \in 1..Len(requests[k])
    /\ Head(requests[k]) = requests[k][1] /\ requests[k][1] \in Command
    /\ requests[k] # <<>> /\ requests'[k] = Tail(requests[k])
    /\ \A i \in 1..Len(requests'[k]) :
          i + 1 \in 1..Len(requests[k]) /\ 1 < i + 1 /\ requests'[k][i] = requests[k][i + 1]
    /\ \A j \in Conn : j # k => requests'[j] = requests[j]

LEMMA TakeAt ==
    ASSUME TypeOK, NEW k \in Conn, Listening(k), requests' = [requests EXCEPT ![k] = Tail(@)]
    PROVE  Taken(k)
<1>1. requests[k] \in Seq(Command) /\ requests[k] # <<>>
  BY DEF TypeOK, Listening
<1>2. requests'[k] = Tail(requests[k]) /\ \A j \in Conn : j # k => requests'[j] = requests[j]
  BY DEF TypeOK
<1>3. /\ Tail(requests[k]) \in Seq(Command) /\ Len(requests[k]) \in Nat /\ Len(requests[k]) > 0
      /\ Len(Tail(requests[k])) = Len(requests[k]) - 1
      /\ Head(requests[k]) = requests[k][1] /\ Head(requests[k]) \in Command
      /\ \A i \in 1..Len(Tail(requests[k])) :
            i + 1 \in 1..Len(requests[k]) /\ Tail(requests[k])[i] = requests[k][i + 1]
  BY <1>1, TailAt
<1>4. \A i \in 1..Len(requests'[k]) :
        i + 1 \in 1..Len(requests[k]) /\ 1 < i + 1 /\ requests'[k][i] = requests[k][i + 1]
  <2>1. \A i \in 1..Len(Tail(requests[k])) : 1 < i + 1
    BY <1>3
  <2> QED BY <1>2, <1>3, <2>1
<1> QED BY <1>1, <1>2, <1>3, <1>4 DEF Taken

\* What Send does to the order of issue and to the requests.
LEMMA SendAt ==
    ASSUME TypeOK, History, NEW c \in Command, Send(c)
    PROVE  /\ at[c] = 0 /\ at'[c] = clock + 1 /\ era'[c] = now /\ clock \in Nat
           /\ \A d \in Command : /\ at[d] \in Nat /\ at[d] <= clock /\ verdict[d] # "waiting"
                                 /\ d # c => /\ at'[d] = at[d] /\ era'[d] = era[d]
                                             /\ verdict'[d] = verdict[d]
           /\ verdict'[c] = "waiting" /\ verdict[c] = "none"
           /\ \A k \in Conn : k # now \/ ~open[now] => requests'[k] = requests[k]
           /\ open[now] => requests'[now] = Append(requests[now], c)
           /\ requests[now] \in Seq(Command)
<1>1. /\ verdict' = [verdict EXCEPT ![c] = "waiting"] /\ verdict[c] = "none"
      /\ at' = [at EXCEPT ![c] = clock + 1] /\ era' = [era EXCEPT ![c] = now]
      /\ \A d \in Command : verdict[d] # "waiting"
      /\ requests' = IF open[now] THEN [requests EXCEPT ![now] = Append(@, c)] ELSE requests
  BY DEF Send, Idle
<1>2. /\ verdict'[c] = "waiting" /\ at'[c] = clock + 1 /\ era'[c] = now
      /\ \A d \in Command : d # c => at'[d] = at[d] /\ era'[d] = era[d] /\ verdict'[d] = verdict[d]
  BY <1>1 DEF TypeOK
<1>3. at[c] = 0 /\ clock \in Nat /\ \A d \in Command : at[d] \in Nat /\ at[d] <= clock
  BY <1>1 DEF TypeOK, History
<1>4. /\ \A k \in Conn : k # now \/ ~open[now] => requests'[k] = requests[k]
      /\ open[now] => requests'[now] = Append(requests[now], c)
      /\ requests[now] \in Seq(Command)
  BY <1>1 DEF TypeOK
<1> QED BY <1>1, <1>2, <1>3, <1>4

LEMMA PlacesStep == TypeOK /\ History /\ Places /\ Order /\ [Next]_vars => Places'
<1> SUFFICES ASSUME TypeOK, History, Places, Order, [Next]_vars PROVE Places'
  OBVIOUS
<1> USE DEF liveVars, bridgeVars, clientVars, Sent
<1>t. /\ \A k \in Conn : requests[k] \in Seq(Command) /\ Len(requests[k]) \in Nat
                         /\ \A i \in 1..Len(requests[k]) : requests[k][i] \in Command
      /\ mainQ \in Seq(SideEffect) /\ Len(mainQ) \in Nat
      /\ \A i \in 1..Len(mainQ) : mainQ[i] \in SideEffect /\ mainQ[i] \in Command
      /\ \A k \in Conn : serving[k] # Nobody => serving[k] \in Command
      /\ \A c \in Command : at[c] \in Nat
  BY DEF TypeOK
<1>1. CASE UNCHANGED <<at, era, requests, mainQ, serving, done>>
  BY <1>1 DEF Places
<1>2. ASSUME NEW c \in Command, Send(c) PROVE Places'
  <2>1. now \in Conn /\ UNCHANGED <<serving, mainQ, done>>
    BY <1>2 DEF Send, TypeOK
  <2>2. \A d \in Command : at[d] > 0 => at'[d] = at[d] /\ era'[d] = era[d]
    BY <1>2, SendAt
  <2>3. ASSUME NEW k \in Conn, NEW i \in 1..Len(requests'[k])
        PROVE  /\ at'[requests'[k][i]] > 0 /\ era'[requests'[k][i]] = k
               /\ done'[requests'[k][i]] = "no"
    <3>0. \A j \in 1..Len(requests[k]) :
             /\ at'[requests[k][j]] > 0 /\ era'[requests[k][j]] = k
             /\ done'[requests[k][j]] = "no"
      <4>1. ASSUME NEW j \in 1..Len(requests[k])
            PROVE  /\ requests[k][j] \in Command /\ at[requests[k][j]] > 0
                   /\ era[requests[k][j]] = k /\ done[requests[k][j]] = "no"
        BY <1>t, <4>1 DEF Places
      <4> QED BY <2>1, <2>2, <4>1
    <3>1. CASE requests'[k] = requests[k]
      BY <2>3, <3>0, <3>1
    <3>2. CASE k = now /\ open[now]
      <4>1. requests'[k] = Append(requests[k], c)
        BY <1>2, <3>2, SendAt
      <4>2. (i \in 1..Len(requests[k]) /\ requests'[k][i] = requests[k][i]) \/ requests'[k][i] = c
        BY <1>t, <4>1, AppendAt
      <4>3. at'[c] > 0 /\ era'[c] = k /\ done'[c] = "no"
        BY <1>2, <2>1, <3>2, SendAt DEF Places
      <4>4. CASE i \in 1..Len(requests[k]) /\ requests'[k][i] = requests[k][i]
        BY <3>0, <4>4
      <4> QED BY <4>2, <4>3, <4>4
    <3> QED BY <1>2, <3>1, <3>2, SendAt
  <2>4. \A i \in 1..Len(mainQ') : at'[mainQ'[i]] > 0 /\ done'[mainQ'[i]] = "no"
    BY <1>t, <2>1, <2>2 DEF Places
  <2>5. \A k \in Conn : serving'[k] # Nobody => at'[serving'[k]] > 0 /\ era'[serving'[k]] = k
    BY <1>t, <2>1, <2>2 DEF Places
  <2>6. \A d \in Command : at'[d] = 0 => done'[d] = "no"
    BY <1>2, <2>1, SendAt DEF Places
  <2> QED BY <2>3, <2>4, <2>5, <2>6 DEF Places
<1>3. ASSUME NEW k \in Conn, TakeWrite(k) PROVE Places'
  <2>1. /\ Listening(k) /\ Head(requests[k]) \in SideEffect
        /\ serving' = [serving EXCEPT ![k] = Head(requests[k])]
        /\ mainQ' = Append(mainQ, Head(requests[k]))
        /\ requests' = [requests EXCEPT ![k] = Tail(@)]
        /\ at' = at /\ era' = era /\ done' = done
    BY <1>3 DEF TakeWrite
  <2>t. Taken(k)
    BY <2>1, TakeAt
  <2>2. /\ at[requests[k][1]] > 0 /\ era[requests[k][1]] = k /\ done[requests[k][1]] = "no"
        /\ requests[k][1] = Head(requests[k])
    BY <2>t DEF Places, Taken
  <2>3. \A j \in Conn : \A i \in 1..Len(requests'[j]) :
           at[requests'[j][i]] > 0 /\ era[requests'[j][i]] = j /\ done[requests'[j][i]] = "no"
    <3>1. ASSUME NEW j \in Conn, j # k PROVE requests'[j] = requests[j]
      BY <2>t, <3>1 DEF Taken
    <3>2. \A i \in 1..Len(requests'[k]) :
             at[requests'[k][i]] > 0 /\ era[requests'[k][i]] = k /\ done[requests'[k][i]] = "no"
      BY <2>t DEF Places, Taken
    <3> QED BY <3>1, <3>2 DEF Places
  <2>4. \A i \in 1..Len(mainQ') : at[mainQ'[i]] > 0 /\ done[mainQ'[i]] = "no"
    <3>1. \A i \in 1..Len(mainQ') :
             (i \in 1..Len(mainQ) /\ mainQ'[i] = mainQ[i]) \/ mainQ'[i] = Head(requests[k])
      BY <1>t, <2>1, AppendAt
    <3> QED BY <2>2, <3>1 DEF Places
  <2>5. \A j \in Conn : serving'[j] # Nobody => at[serving'[j]] > 0 /\ era[serving'[j]] = j
    BY <2>1, <2>2 DEF Places, TypeOK
  <2> QED BY <2>1, <2>3, <2>4, <2>5 DEF Places
<1>4. ASSUME NEW k \in Conn, TakeRead(k) PROVE Places'
  <2>1. PICK end : done' = [done EXCEPT ![Head(requests[k])] = end]
    BY <1>4 DEF TakeRead
  <2>2. /\ Listening(k) /\ Head(requests[k]) \notin SideEffect
        /\ requests' = [requests EXCEPT ![k] = Tail(@)]
        /\ at' = at /\ era' = era /\ serving' = serving /\ mainQ' = mainQ
    BY <1>4 DEF TakeRead
  <2>t. Taken(k)
    BY <2>2, TakeAt
  <2> DEFINE h == requests[k][1]
  <2>3. h = Head(requests[k]) /\ at[h] > 0 /\ era[h] = k /\ h \in Command
    BY <2>t DEF Places, Taken
  <2>4. \A d \in Command : d # h => done'[d] = done[d]
    BY <2>1, <2>3 DEF TypeOK
  <2>5. ASSUME NEW j \in Conn, NEW i \in 1..Len(requests'[j])
        PROVE  /\ at[requests'[j][i]] > 0 /\ era[requests'[j][i]] = j /\ requests'[j][i] # h
               /\ done[requests'[j][i]] = "no" /\ requests'[j][i] \in Command
    <3>1. CASE j = k
      <4>1. /\ requests'[k][i] = requests[k][i + 1] /\ i + 1 \in 1..Len(requests[k])
            /\ 1 \in 1..Len(requests[k]) /\ 1 < i + 1
        BY <2>t, <2>5, <3>1 DEF Taken
      <4>2. at[h] < at[requests[k][i + 1]]
        BY <4>1 DEF Order
      <4> QED BY <1>t, <2>3, <3>1, <4>1, <4>2 DEF Places
    <3>2. CASE j # k
      BY <1>t, <2>t, <2>3, <2>5, <3>2 DEF Places, Taken
    <3> QED BY <3>1, <3>2
  <2>6. \A j \in Conn : \A i \in 1..Len(requests'[j]) :
           at[requests'[j][i]] > 0 /\ era[requests'[j][i]] = j /\ done'[requests'[j][i]] = "no"
    BY <2>4, <2>5
  <2>7. \A i \in 1..Len(mainQ) : at[mainQ[i]] > 0 /\ done'[mainQ[i]] = "no"
    BY <1>t, <2>2, <2>3, <2>4 DEF Places
  <2>8. \A d \in Command : at[d] = 0 => done'[d] = "no"
    BY <2>3, <2>4 DEF Places
  <2>9. /\ \A j \in Conn : \A i \in 1..Len(requests'[j]) :
             /\ at'[requests'[j][i]] > 0 /\ era'[requests'[j][i]] = j
             /\ done'[requests'[j][i]] = "no"
        /\ \A i \in 1..Len(mainQ') : at'[mainQ'[i]] > 0 /\ done'[mainQ'[i]] = "no"
    BY <2>2, <2>6, <2>7
  <2>10. \A j \in Conn : serving[j] # Nobody => at[serving[j]] > 0 /\ era[serving[j]] = j
    BY DEF Places
  <2> QED BY <2>2, <2>8, <2>9, <2>10 DEF Places
<1>5. ASSUME NEW k \in Conn, RunTogether(k) \/ Swallow(k) \/ EndHandler(k) PROVE Places'
  <2>1. /\ requests' = [requests EXCEPT ![k] = <<>>]
        /\ at' = at /\ era' = era /\ mainQ' = mainQ /\ done' = done
        /\ serving' = serving \/ serving' = [serving EXCEPT ![k] = Nobody]
    BY <1>5 DEF RunTogether, Swallow, EndHandler
  <2>2. \A j \in Conn : requests'[j] = requests[j] \/ Len(requests'[j]) = 0
    BY <2>1 DEF TypeOK
  <2>3. \A j \in Conn : \A i \in 1..Len(requests'[j]) :
           at[requests'[j][i]] > 0 /\ era[requests'[j][i]] = j /\ done[requests'[j][i]] = "no"
    BY <2>2 DEF Places
  <2>4. \A j \in Conn : serving'[j] = serving[j] \/ serving'[j] = Nobody
    BY <2>1 DEF TypeOK
  <2> QED BY <2>1, <2>3, <2>4 DEF Places
<1>6. ASSUME NEW k \in Conn, ReplyDone(k) \/ Abandon(k) PROVE Places'
  <2>1. /\ serving' = [serving EXCEPT ![k] = Nobody]
        /\ at' = at /\ era' = era /\ requests' = requests /\ mainQ' = mainQ /\ done' = done
    BY <1>6 DEF ReplyDone, Abandon
  <2>2. \A j \in Conn : serving'[j] # Nobody => serving'[j] = serving[j]
    BY <2>1 DEF TypeOK
  <2> QED BY <2>1, <2>2 DEF Places
<1>7. CASE MainThreadTask
  <2>1. PICK end : done' = [done EXCEPT ![Head(mainQ)] = end]
    BY <1>7 DEF MainThreadTask
  <2>2. /\ mainQ # <<>> /\ mainQ' = Tail(mainQ)
        /\ at' = at /\ era' = era /\ serving' = serving /\ requests' = requests
    BY <1>7 DEF MainThreadTask
  <2> DEFINE h == mainQ[1]
  <2>3. /\ Head(mainQ) = h /\ h \in Command /\ at[h] > 0 /\ 1 \in 1..Len(mainQ)
        /\ Len(mainQ') = Len(mainQ) - 1
        /\ \A i \in 1..Len(mainQ') : i + 1 \in 1..Len(mainQ) /\ mainQ'[i] = mainQ[i + 1]
    BY <1>t, <2>2, TailAt DEF Places
  <2>4. \A d \in Command : d # h => done'[d] = done[d]
    BY <2>1, <2>3 DEF TypeOK
  <2>5. \A i \in 1..Len(mainQ') : at[mainQ'[i]] > 0 /\ done'[mainQ'[i]] = "no"
    <3>1. ASSUME NEW i \in 1..Len(mainQ') PROVE mainQ'[i] # h /\ mainQ'[i] \in Command
                                                 /\ at[mainQ'[i]] > 0 /\ done[mainQ'[i]] = "no"
      <4>1. mainQ'[i] = mainQ[i + 1] /\ i + 1 \in 1..Len(mainQ) /\ 1 < i + 1
        BY <1>t, <2>3, <3>1
      <4>2. era[mainQ[i + 1]] = era[h] => at[h] < at[mainQ[i + 1]]
        BY <2>3, <4>1 DEF Order
      <4> QED BY <1>t, <2>3, <4>1, <4>2 DEF Places
    <3> QED BY <2>4, <3>1
  <2>6. \A j \in Conn : \A i \in 1..Len(requests[j]) : done'[requests[j][i]] = "no"
    <3>1. ASSUME NEW j \in Conn, NEW i \in 1..Len(requests[j])
          PROVE  requests[j][i] # h /\ requests[j][i] \in Command /\ done[requests[j][i]] = "no"
      <4>1. era[requests[j][i]] = j /\ era[h] = j => at[h] < at[requests[j][i]]
        BY <2>3, <3>1 DEF Order
      <4> QED BY <1>t, <2>3, <4>1 DEF Places
    <3> QED BY <2>4, <3>1
  <2>7. \A d \in Command : at[d] = 0 => done'[d] = "no"
    BY <2>3, <2>4 DEF Places
  <2> QED BY <2>2, <2>5, <2>6, <2>7 DEF Places
<1>8. CASE LiveExits
  <2>1. /\ \A k \in Conn : serving'[k] = Nobody /\ Len(requests'[k]) = 0
        /\ Len(mainQ') = 0 /\ at' = at /\ done' = done
    BY <1>8 DEF LiveExits
  <2> QED BY <2>1 DEF Places
<1>9. ASSUME NEW c \in Command, Receive(c) \/ Timeout(c) \/ Disconnected(c) PROVE Places'
  BY <1>1, <1>9 DEF Receive, Timeout, Disconnected
<1>10. CASE Reconnect \/ UNCHANGED vars
  BY <1>1, <1>10 DEF Reconnect, vars
<1> QED BY <1>2, <1>3, <1>4, <1>5, <1>6, <1>7, <1>8, <1>9, <1>10 DEF Next, Client, Bridge, Live

LEMMA OrderStep == TypeOK /\ History /\ Places /\ Order /\ [Next]_vars => Order'
<1> SUFFICES ASSUME TypeOK, History, Places, Order, [Next]_vars PROVE Order'
  OBVIOUS
<1> USE DEF liveVars, bridgeVars, clientVars, Sent
<1>t. /\ \A k \in Conn : requests[k] \in Seq(Command) /\ Len(requests[k]) \in Nat
                         /\ \A i \in 1..Len(requests[k]) : requests[k][i] \in Command
      /\ mainQ \in Seq(SideEffect) /\ Len(mainQ) \in Nat
      /\ \A i \in 1..Len(mainQ) : mainQ[i] \in SideEffect /\ mainQ[i] \in Command
      /\ \A k \in Conn : serving[k] # Nobody => serving[k] \in Command
      /\ \A c \in Command : at[c] \in Nat
  BY DEF TypeOK
<1>1. CASE UNCHANGED <<at, era, requests, mainQ, serving>>
  BY <1>1 DEF Order
<1>2. ASSUME NEW c \in Command, Send(c) PROVE Order'
  <2>1. now \in Conn /\ UNCHANGED <<serving, mainQ, done>>
    BY <1>2 DEF Send, TypeOK
  <2>2. /\ \A d \in Command : at[d] > 0 => at'[d] = at[d] /\ era'[d] = era[d]
        /\ \A d \in Command : at[d] < at'[c]
    BY <1>t, <1>2, SendAt
  <2>3. \A i \in 1..Len(mainQ) : /\ at'[mainQ[i]] = at[mainQ[i]] /\ era'[mainQ[i]] = era[mainQ[i]]
                                 /\ at[mainQ[i]] < at'[c]
    BY <1>t, <2>2 DEF Places
  <2>4. \A k \in Conn : serving[k] # Nobody =>
           at'[serving[k]] = at[serving[k]] /\ at[serving[k]] < at'[c]
    BY <1>t, <2>2 DEF Places
  <2>5. \A k \in Conn : \A i \in 1..Len(requests[k]) :
           at'[requests[k][i]] = at[requests[k][i]] /\ at[requests[k][i]] < at'[c]
    BY <1>t, <2>2 DEF Places
  <2>6. ASSUME NEW k \in Conn
        PROVE  /\ \A i, j \in 1..Len(requests'[k]) :
                    i < j => at'[requests'[k][i]] < at'[requests'[k][j]]
               /\ serving'[k] # Nobody =>
                    \A i \in 1..Len(requests'[k]) : at'[serving'[k]] < at'[requests'[k][i]]
               /\ \A i \in 1..Len(mainQ') : \A j \in 1..Len(requests'[k]) :
                    era'[mainQ'[i]] = k => at'[mainQ'[i]] < at'[requests'[k][j]]
    <3>1. CASE requests'[k] = requests[k]
      <4>1. \A i, j \in 1..Len(requests[k]) : i < j => at'[requests[k][i]] < at'[requests[k][j]]
        BY <2>5 DEF Order
      <4>2. serving[k] # Nobody =>
               \A i \in 1..Len(requests[k]) : at'[serving[k]] < at'[requests[k][i]]
        BY <2>4, <2>5 DEF Order
      <4>3. \A i \in 1..Len(mainQ) : \A j \in 1..Len(requests[k]) :
               era'[mainQ[i]] = k => at'[mainQ[i]] < at'[requests[k][j]]
        BY <2>3, <2>5 DEF Order
      <4> QED BY <2>1, <3>1, <4>1, <4>2, <4>3
    <3>2. CASE k = now /\ open[now]
      <4>1. requests'[k] = Append(requests[k], c)
        BY <1>2, <3>2, SendAt
      <4>2. \A i \in 1..Len(requests'[k]) :
               \/ i \in 1..Len(requests[k]) /\ requests'[k][i] = requests[k][i]
               \/ i = Len(requests[k]) + 1 /\ requests'[k][i] = c
        BY <1>t, <4>1, AppendAt
      <4>3. ASSUME NEW i \in 1..Len(requests'[k]), NEW j \in 1..Len(requests'[k]), i < j
            PROVE  at'[requests'[k][i]] < at'[requests'[k][j]]
        <5>1. i \in 1..Len(requests[k]) /\ requests'[k][i] = requests[k][i]
          BY <1>t, <4>2, <4>3
        <5>2. CASE j \in 1..Len(requests[k]) /\ requests'[k][j] = requests[k][j]
          BY <2>5, <4>3, <5>1, <5>2 DEF Order
        <5>3. CASE requests'[k][j] = c
          BY <2>5, <5>1, <5>3
        <5> QED BY <4>2, <5>2, <5>3
      <4>4. serving[k] # Nobody =>
               \A i \in 1..Len(requests'[k]) : at'[serving[k]] < at'[requests'[k][i]]
        <5>1. ASSUME serving[k] # Nobody, NEW i \in 1..Len(requests'[k])
              PROVE  at'[serving[k]] < at'[requests'[k][i]]
          <6>1. CASE i \in 1..Len(requests[k]) /\ requests'[k][i] = requests[k][i]
            BY <2>4, <2>5, <5>1, <6>1 DEF Order
          <6>2. CASE requests'[k][i] = c
            BY <2>4, <5>1, <6>2
          <6> QED BY <4>2, <5>1, <6>1, <6>2
        <5> QED BY <5>1
      <4>5. ASSUME NEW i \in 1..Len(mainQ), NEW j \in 1..Len(requests'[k]), era'[mainQ[i]] = k
            PROVE  at'[mainQ[i]] < at'[requests'[k][j]]
        <5>1. CASE j \in 1..Len(requests[k]) /\ requests'[k][j] = requests[k][j]
          BY <2>3, <2>5, <4>5, <5>1 DEF Order
        <5>2. CASE requests'[k][j] = c
          BY <2>3, <5>2
        <5> QED BY <4>2, <5>1, <5>2
      <4> QED BY <2>1, <4>3, <4>4, <4>5
    <3> QED BY <1>2, <3>1, <3>2, SendAt
  <2>7. \A i, j \in 1..Len(mainQ') :
           i < j /\ era'[mainQ'[i]] = era'[mainQ'[j]] => at'[mainQ'[i]] < at'[mainQ'[j]]
    BY <2>1, <2>3 DEF Order
  <2> QED BY <2>6, <2>7 DEF Order
<1>3. ASSUME NEW k \in Conn, requests' = [requests EXCEPT ![k] = Tail(@)], Listening(k),
             UNCHANGED <<at, era>>
      PROVE  /\ Taken(k) /\ at[requests[k][1]] > 0 /\ era[requests[k][1]] = k
             /\ \A j \in Conn : \A m, n \in 1..Len(requests'[j]) :
                  m < n => at[requests'[j][m]] < at[requests'[j][n]]
             /\ \A n \in 1..Len(requests'[k]) : at[requests[k][1]] < at[requests'[k][n]]
             /\ \A i \in 1..Len(mainQ), j \in Conn : \A n \in 1..Len(requests'[j]) :
                  era[mainQ[i]] = j => at[mainQ[i]] < at[requests'[j][n]]
             /\ \A i \in 1..Len(mainQ) : era[mainQ[i]] = k => at[mainQ[i]] < at[requests[k][1]]
             /\ \A j \in Conn : j # k => requests'[j] = requests[j]
  <2>1. Taken(k)
    BY <1>3, TakeAt
  <2>2. at[requests[k][1]] > 0 /\ era[requests[k][1]] = k
    BY <2>1 DEF Taken, Places
  <2>3. \A m, n \in 1..Len(requests'[k]) : m < n => at[requests'[k][m]] < at[requests'[k][n]]
    <3>1. ASSUME NEW m \in 1..Len(requests'[k]), NEW n \in 1..Len(requests'[k]), m < n
          PROVE  at[requests'[k][m]] < at[requests'[k][n]]
      <4>1. /\ requests'[k][m] = requests[k][m + 1] /\ m + 1 \in 1..Len(requests[k])
            /\ requests'[k][n] = requests[k][n + 1] /\ n + 1 \in 1..Len(requests[k])
        BY <2>1 DEF Taken
      <4>2. m + 1 < n + 1
        BY <3>1
      <4> QED BY <4>1, <4>2 DEF Order
    <3> QED BY <3>1
  <2>4. \A n \in 1..Len(requests'[k]) : at[requests[k][1]] < at[requests'[k][n]]
    BY <2>1 DEF Taken, Order
  <2>5. \A i \in 1..Len(mainQ) : \A n \in 1..Len(requests'[k]) :
           era[mainQ[i]] = k => at[mainQ[i]] < at[requests'[k][n]]
    BY <2>1 DEF Taken, Order
  <2>6. \A i \in 1..Len(mainQ) : era[mainQ[i]] = k => at[mainQ[i]] < at[requests[k][1]]
    BY <2>1 DEF Taken, Order
  <2>7. \A j \in Conn : j # k => requests'[j] = requests[j]
    BY <2>1 DEF Taken
  <2>8. ASSUME NEW j \in Conn
        PROVE  /\ \A m, n \in 1..Len(requests'[j]) :
                    m < n => at[requests'[j][m]] < at[requests'[j][n]]
               /\ \A i \in 1..Len(mainQ) : \A n \in 1..Len(requests'[j]) :
                    era[mainQ[i]] = j => at[mainQ[i]] < at[requests'[j][n]]
    <3>1. CASE j = k
      BY <2>3, <2>5, <3>1
    <3>2. CASE j # k
      BY <2>7, <3>2 DEF Order
    <3> QED BY <3>1, <3>2
  <2> QED BY <2>1, <2>2, <2>4, <2>6, <2>7, <2>8
<1>4. ASSUME NEW k \in Conn, TakeWrite(k) PROVE Order'
  <2>1. /\ Listening(k) /\ requests' = [requests EXCEPT ![k] = Tail(@)]
        /\ serving' = [serving EXCEPT ![k] = Head(requests[k])]
        /\ Head(requests[k]) \in SideEffect /\ at' = at /\ era' = era
        /\ mainQ' = Append(mainQ, Head(requests[k]))
    BY <1>4 DEF TakeWrite
  <2> DEFINE h == requests[k][1]
  <2>2. /\ Taken(k) /\ at[h] > 0 /\ era[h] = k
        /\ \A j \in Conn : \A m, n \in 1..Len(requests'[j]) :
             m < n => at[requests'[j][m]] < at[requests'[j][n]]
        /\ \A n \in 1..Len(requests'[k]) : at[h] < at[requests'[k][n]]
        /\ \A i \in 1..Len(mainQ), j \in Conn : \A n \in 1..Len(requests'[j]) :
             era[mainQ[i]] = j => at[mainQ[i]] < at[requests'[j][n]]
        /\ \A i \in 1..Len(mainQ) : era[mainQ[i]] = k => at[mainQ[i]] < at[h]
        /\ \A j \in Conn : j # k => requests'[j] = requests[j]
    BY <1>3, <2>1
  <2>3. h = Head(requests[k])
    BY <2>2 DEF Taken
  <2>4. \A j \in Conn : serving'[j] = IF j = k THEN h ELSE serving[j]
    BY <2>1, <2>3 DEF TypeOK
  <2>5. \A j \in Conn : serving'[j] # Nobody =>
           \A n \in 1..Len(requests'[j]) : at[serving'[j]] < at[requests'[j][n]]
    <3>1. ASSUME NEW j \in Conn, serving'[j] # Nobody, NEW n \in 1..Len(requests'[j])
          PROVE  at[serving'[j]] < at[requests'[j][n]]
      <4>1. CASE j = k
        BY <2>2, <2>4, <3>1, <4>1
      <4>2. CASE j # k
        BY <2>2, <2>4, <3>1, <4>2 DEF Order
      <4> QED BY <4>1, <4>2
    <3> QED BY <3>1
  <2>6. \A i \in 1..Len(mainQ') : \/ i \in 1..Len(mainQ) /\ mainQ'[i] = mainQ[i]
                                  \/ i = Len(mainQ) + 1 /\ mainQ'[i] = h
    BY <1>t, <2>1, <2>3, AppendAt
  <2>7. ASSUME NEW i \in 1..Len(mainQ'), NEW j \in 1..Len(mainQ'), i < j,
               era[mainQ'[i]] = era[mainQ'[j]]
        PROVE  at[mainQ'[i]] < at[mainQ'[j]]
    <3>1. i \in 1..Len(mainQ) /\ mainQ'[i] = mainQ[i]
      BY <1>t, <2>6, <2>7
    <3>2. CASE j \in 1..Len(mainQ) /\ mainQ'[j] = mainQ[j]
      BY <2>7, <3>1, <3>2 DEF Order
    <3>3. CASE mainQ'[j] = h
      BY <2>2, <2>7, <3>1, <3>3
    <3> QED BY <2>6, <3>2, <3>3
  <2>8. ASSUME NEW i \in 1..Len(mainQ'), NEW j \in Conn, NEW n \in 1..Len(requests'[j]),
               era[mainQ'[i]] = j
        PROVE  at[mainQ'[i]] < at[requests'[j][n]]
    <3>1. CASE i \in 1..Len(mainQ) /\ mainQ'[i] = mainQ[i]
      BY <2>2, <2>8, <3>1
    <3>2. CASE mainQ'[i] = h
      BY <2>2, <2>8, <3>2
    <3> QED BY <2>6, <3>1, <3>2
  <2>9. \A j \in Conn : \A m, n \in 1..Len(requests'[j]) :
           m < n => at'[requests'[j][m]] < at'[requests'[j][n]]
    BY <2>1, <2>2
  <2>10. \A j \in Conn : serving'[j] # Nobody =>
            \A n \in 1..Len(requests'[j]) : at'[serving'[j]] < at'[requests'[j][n]]
    BY <2>1, <2>5
  <2>11. \A i, j \in 1..Len(mainQ') :
            i < j /\ era'[mainQ'[i]] = era'[mainQ'[j]] => at'[mainQ'[i]] < at'[mainQ'[j]]
    BY <2>1, <2>7
  <2>12. \A i \in 1..Len(mainQ'), j \in Conn : \A n \in 1..Len(requests'[j]) :
            era'[mainQ'[i]] = j => at'[mainQ'[i]] < at'[requests'[j][n]]
    BY <2>1, <2>8
  <2> QED BY <2>9, <2>10, <2>11, <2>12 DEF Order
<1>5. ASSUME NEW k \in Conn, TakeRead(k) PROVE Order'
  <2>1. /\ Listening(k) /\ requests' = [requests EXCEPT ![k] = Tail(@)]
        /\ serving' = serving /\ at' = at /\ era' = era /\ mainQ' = mainQ
    BY <1>5 DEF TakeRead
  <2>2. /\ \A j \in Conn : \A m, n \in 1..Len(requests'[j]) :
             m < n => at[requests'[j][m]] < at[requests'[j][n]]
        /\ \A i \in 1..Len(mainQ), j \in Conn : \A n \in 1..Len(requests'[j]) :
             era[mainQ[i]] = j => at[mainQ[i]] < at[requests'[j][n]]
        /\ \A j \in Conn : j # k => requests'[j] = requests[j]
    BY <1>3, <2>1
  <2>3. \A j \in Conn : serving[j] # Nobody =>
           \A n \in 1..Len(requests'[j]) : at[serving[j]] < at[requests'[j][n]]
    BY <2>1, <2>2 DEF Order, Listening
  <2>4. \A i, j \in 1..Len(mainQ) :
           i < j /\ era[mainQ[i]] = era[mainQ[j]] => at[mainQ[i]] < at[mainQ[j]]
    BY DEF Order
  <2>5. \A j \in Conn : \A m, n \in 1..Len(requests'[j]) :
           m < n => at'[requests'[j][m]] < at'[requests'[j][n]]
    BY <2>1, <2>2
  <2>6. \A j \in Conn : serving'[j] # Nobody =>
           \A n \in 1..Len(requests'[j]) : at'[serving'[j]] < at'[requests'[j][n]]
    BY <2>1, <2>3
  <2>7. \A i, j \in 1..Len(mainQ') :
           i < j /\ era'[mainQ'[i]] = era'[mainQ'[j]] => at'[mainQ'[i]] < at'[mainQ'[j]]
    BY <2>1, <2>4
  <2>8. \A i \in 1..Len(mainQ'), j \in Conn : \A n \in 1..Len(requests'[j]) :
           era'[mainQ'[i]] = j => at'[mainQ'[i]] < at'[requests'[j][n]]
    BY <2>1, <2>2
  <2> QED BY <2>5, <2>6, <2>7, <2>8 DEF Order
<1>6. ASSUME NEW k \in Conn, RunTogether(k) \/ Swallow(k) \/ EndHandler(k) PROVE Order'
  <2>1. /\ requests' = [requests EXCEPT ![k] = <<>>]
        /\ at' = at /\ era' = era /\ mainQ' = mainQ
        /\ serving' = serving \/ serving' = [serving EXCEPT ![k] = Nobody]
    BY <1>6 DEF RunTogether, Swallow, EndHandler
  <2>2. \A j \in Conn : requests'[j] = requests[j] \/ Len(requests'[j]) = 0
    BY <2>1 DEF TypeOK
  <2>3. \A j \in Conn : serving'[j] = serving[j] \/ serving'[j] = Nobody
    BY <2>1 DEF TypeOK
  <2> QED BY <2>1, <2>2, <2>3 DEF Order
<1>7. ASSUME NEW k \in Conn, ReplyDone(k) \/ Abandon(k) PROVE Order'
  <2>1. /\ serving' = [serving EXCEPT ![k] = Nobody]
        /\ at' = at /\ era' = era /\ requests' = requests /\ mainQ' = mainQ
    BY <1>7 DEF ReplyDone, Abandon
  <2>2. \A j \in Conn : serving'[j] # Nobody => serving'[j] = serving[j]
    BY <2>1 DEF TypeOK
  <2> QED BY <2>1, <2>2 DEF Order
<1>8. CASE MainThreadTask
  <2>1. /\ mainQ # <<>> /\ mainQ' = Tail(mainQ)
        /\ at' = at /\ era' = era /\ serving' = serving /\ requests' = requests
    BY <1>8 DEF MainThreadTask
  <2>2. \A i \in 1..Len(mainQ') : i + 1 \in 1..Len(mainQ) /\ mainQ'[i] = mainQ[i + 1]
    BY <1>t, <2>1, TailAt
  <2>3. ASSUME NEW i \in 1..Len(mainQ'), NEW j \in 1..Len(mainQ'), i < j,
               era[mainQ'[i]] = era[mainQ'[j]]
        PROVE  at[mainQ'[i]] < at[mainQ'[j]]
    <3>1. i + 1 < j + 1
      BY <2>3
    <3> QED BY <2>2, <2>3, <3>1 DEF Order
  <2>4. \A i \in 1..Len(mainQ'), k \in Conn : \A j \in 1..Len(requests[k]) :
           era[mainQ'[i]] = k => at[mainQ'[i]] < at[requests[k][j]]
    <3>1. ASSUME NEW i \in 1..Len(mainQ'), NEW k \in Conn, NEW j \in 1..Len(requests[k]),
                 era[mainQ'[i]] = k
          PROVE  at[mainQ'[i]] < at[requests[k][j]]
      <4>1. i + 1 \in 1..Len(mainQ) /\ mainQ'[i] = mainQ[i + 1]
        BY <2>2, <3>1
      <4>2. \A n \in 1..Len(mainQ) : era[mainQ[n]] = k => at[mainQ[n]] < at[requests[k][j]]
        BY <3>1 DEF Order
      <4> QED BY <3>1, <4>1, <4>2
    <3> QED BY <3>1
  <2> QED BY <2>1, <2>3, <2>4 DEF Order
<1>9. CASE LiveExits
  <2>1. (\A k \in Conn : serving'[k] = Nobody /\ Len(requests'[k]) = 0) /\ Len(mainQ') = 0
    BY <1>9 DEF LiveExits
  <2> QED BY <2>1 DEF Order
<1>10. ASSUME NEW c \in Command, Receive(c) \/ Timeout(c) \/ Disconnected(c) PROVE Order'
  BY <1>1, <1>10 DEF Receive, Timeout, Disconnected
<1>11. CASE Reconnect \/ UNCHANGED vars
  BY <1>1, <1>11 DEF Reconnect, vars
<1> QED BY <1>2, <1>4, <1>5, <1>6, <1>7, <1>8, <1>9, <1>10, <1>11 DEF Next, Client, Bridge, Live

-----------------------------------------------------------------------------
(* The stream of replies.                                                  *)

\* Ahead, after the step.
StaysAhead(d) ==
    /\ serving'[now'] # Nobody => at'[d] < at'[serving'[now']]
    /\ \A j \in 1..Len(requests'[now']) : at'[d] < at'[requests'[now'][j]]

\* A step that changes nothing a reply in the stream relies on.
Calm ==
    /\ now' = now
    /\ \A d \in Command : Sent(d) =>
          /\ at'[d] = at[d] /\ era'[d] = era[d]
          /\ done[d] # "no" => done'[d] = done[d]
          /\ verdict[d] # "waiting" => verdict'[d] # "waiting"
          /\ Ahead(d) => StaysAhead(d)
    /\ Over => Over'

StillTells(r) ==
    r.id # Nobody =>
        /\ r.id \in Command /\ at'[r.id] > 0 /\ era'[r.id] = now' /\ at'[r.id] = at[r.id]
        /\ r.ok => done'[r.id] = "applied"
        /\ ~r.ok => done'[r.id] \in {"partial", "raised"} \/ verdict'[r.id] # "waiting"
        /\ StaysAhead(r.id)

LEMMA TellsOn ==
    ASSUME TypeOK, Calm
    PROVE  \A r \in Reply : Tells(r) => StillTells(r)
<1> SUFFICES ASSUME NEW r \in Reply, Tells(r), r.id # Nobody
             PROVE  /\ r.id \in Command /\ at'[r.id] > 0 /\ era'[r.id] = now'
                    /\ at'[r.id] = at[r.id]
                    /\ r.ok => done'[r.id] = "applied"
                    /\ ~r.ok => done'[r.id] \in {"partial", "raised"} \/ verdict'[r.id] # "waiting"
                    /\ StaysAhead(r.id)
  BY DEF StillTells
<1>1. r.id \in Command
  BY DEF Reply
<1>2. /\ Sent(r.id) /\ era[r.id] = now
      /\ r.ok => done[r.id] = "applied"
      /\ ~r.ok => done[r.id] \in {"partial", "raised"} \/ verdict[r.id] # "waiting"
      /\ Ahead(r.id)
  BY DEF Tells
<1>3. /\ now' = now /\ at'[r.id] = at[r.id] /\ era'[r.id] = era[r.id]
      /\ done[r.id] # "no" => done'[r.id] = done[r.id]
      /\ verdict[r.id] # "waiting" => verdict'[r.id] # "waiting"
      /\ StaysAhead(r.id)
  BY <1>1, <1>2 DEF Calm
<1>4. at'[r.id] > 0
  BY <1>2, <1>3 DEF Sent
<1>5. ~r.ok => done'[r.id] \in {"partial", "raised"} \/ verdict'[r.id] # "waiting"
  BY <1>2, <1>3
<1>6. r.ok => done'[r.id] = "applied"
  BY <1>2, <1>3
<1> QED BY <1>1, <1>2, <1>3, <1>4, <1>5, <1>6

LEMMA StreamKept ==
    ASSUME TypeOK, Stream, Calm, replies' = replies
    PROVE  Stream'
<1>1. now' = now /\ now \in Conn
  BY DEF Calm, TypeOK
<1>2. \A i \in 1..Len(replies[now]) : replies[now][i] \in Reply /\ Tells(replies[now][i]) /\ Ended(i)
  BY <1>1 DEF Stream, TypeOK
<1>3. ASSUME NEW i \in 1..Len(replies[now]) PROVE Tells(replies[now][i])'
  <2>1. replies'[now'][i] = replies[now][i]
    BY <1>1
  <2>2. replies[now][i].id # Nobody =>
              /\ at'[replies[now][i].id] > 0 /\ era'[replies[now][i].id] = now'
              /\ replies[now][i].ok => done'[replies[now][i].id] = "applied"
              /\ ~replies[now][i].ok => \/ done'[replies[now][i].id] \in {"partial", "raised"}
                                        \/ verdict'[replies[now][i].id] # "waiting"
              /\ StaysAhead(replies[now][i].id)
    BY <1>2, TellsOn DEF StillTells
  <2> QED BY <1>1, <2>1, <2>2 DEF Tells, Sent, Ahead, StaysAhead
<1>4. \A i \in 1..Len(replies[now]) : Ended(i)'
  BY <1>1, <1>2 DEF Ended, Calm
<1>5. \A i, j \in 1..Len(replies[now]) : i < j /\ replies[now][j].id # Nobody =>
        at'[replies[now][i].id] < at'[replies[now][j].id]
  <2>1. ASSUME NEW i \in 1..Len(replies[now]), NEW j \in 1..Len(replies[now]), i < j,
               replies[now][j].id # Nobody
        PROVE  at'[replies[now][i].id] < at'[replies[now][j].id]
    <3>1. at[replies[now][i].id] < at[replies[now][j].id]
      BY <2>1 DEF Stream
    <3>2. replies[now][i].id # Nobody
      <4>1. Len(replies[now]) \in Nat
        BY <1>1 DEF TypeOK
      <4> QED BY <1>2, <2>1, <4>1 DEF Ended
    <3>3. at'[replies[now][j].id] = at[replies[now][j].id]
      BY <1>2, <2>1, TellsOn DEF StillTells
    <3>4. at'[replies[now][i].id] = at[replies[now][i].id]
      BY <1>2, <3>2, TellsOn DEF StillTells
    <3> QED BY <3>1, <3>3, <3>4
  <2> QED BY <2>1
<1>6. \A k \in Conn : k # now => replies[k] = <<>>
  BY DEF Stream
<1> QED BY <1>1, <1>3, <1>4, <1>5, <1>6 DEF Stream

LEMMA StreamGrows ==
    ASSUME TypeOK, Stream, Calm, NEW x \in Reply, ~Over, at' = at,
           replies' = [replies EXCEPT ![now] = Append(@, x)],
           x.id # Nobody =>
              /\ \A d \in Command : Sent(d) /\ Ahead(d) => at[d] < at[x.id]
              /\ at[x.id] > 0 /\ era'[x.id] = now
              /\ x.ok => done'[x.id] = "applied"
              /\ ~x.ok => done'[x.id] \in {"partial", "raised"} \/ verdict'[x.id] # "waiting"
              /\ StaysAhead(x.id),
           x.id = Nobody => ~x.ok /\ Over'
    PROVE  Stream'
<1>1. now' = now /\ now \in Conn /\ replies[now] \in Seq(Reply) /\ Len(replies[now]) \in Nat
  BY DEF Calm, TypeOK
<1> DEFINE rs == replies[now]
<1> DEFINE n == Len(rs) + 1
<1>2. \A i \in 1..Len(rs) : rs[i] \in Reply /\ Tells(rs[i]) /\ rs[i].id # Nobody
  BY <1>1 DEF Stream, Ended
<1>3. /\ replies'[now] = Append(rs, x) /\ Len(replies'[now]) = n
      /\ replies'[now][n] = x
      /\ \A i \in 1..Len(rs) : replies'[now][i] = rs[i]
      /\ \A i \in 1..n : i \in 1..Len(rs) \/ i = n
      /\ \A k \in Conn : k # now => replies'[k] = <<>>
  <2>1. replies'[now] = Append(rs, x) /\ \A k \in Conn : k # now => replies'[k] = <<>>
    BY <1>1 DEF TypeOK, Stream
  <2> QED BY <1>1, <2>1, AppendAt
<1>4. ASSUME NEW i \in 1..n PROVE Tells(replies[now][i])' /\ Ended(i)'
  <2>1. CASE i \in 1..Len(rs)
    <3>1. replies'[now'][i] = rs[i]
      BY <1>1, <1>3, <2>1
    <3>2. /\ at'[rs[i].id] > 0 /\ era'[rs[i].id] = now'
          /\ rs[i].ok => done'[rs[i].id] = "applied"
          /\ ~rs[i].ok => \/ done'[rs[i].id] \in {"partial", "raised"}
                          \/ verdict'[rs[i].id] # "waiting"
          /\ StaysAhead(rs[i].id)
      BY <1>2, <2>1, TellsOn DEF StillTells
    <3>3. Tells(replies[now][i])'
      BY <3>1, <3>2 DEF Tells, Sent, Ahead, StaysAhead
    <3>4. Ended(i)'
      BY <1>2, <2>1, <3>1 DEF Ended
    <3> QED BY <3>3, <3>4
  <2>2. CASE i = n
    <3>1. replies'[now'][i] = x /\ Len(replies'[now']) = n
      BY <1>1, <1>3, <2>2
    <3>2. Tells(replies[now][i])'
      BY <1>1, <3>1 DEF Tells, Sent, Ahead, StaysAhead
    <3>3. Ended(i)'
      BY <2>2, <3>1 DEF Ended
    <3> QED BY <3>2, <3>3
  <2> QED BY <1>3, <2>1, <2>2
<1>5. ASSUME NEW i \in 1..n, NEW j \in 1..n, i < j, replies'[now][j].id # Nobody
      PROVE  at'[replies'[now][i].id] < at'[replies'[now][j].id]
  <2>1. i \in 1..Len(rs)
    BY <1>1, <1>5
  <2>2. replies'[now][i] = rs[i] /\ rs[i].id \in Command /\ Sent(rs[i].id) /\ Ahead(rs[i].id)
    BY <1>2, <1>3, <2>1 DEF Tells, Reply
  <2>3. CASE j = n
    BY <1>3, <1>5, <2>2, <2>3
  <2>4. CASE j \in 1..Len(rs)
    BY <1>3, <1>5, <2>1, <2>4 DEF Stream
  <2> QED BY <1>3, <2>3, <2>4
<1> QED BY <1>1, <1>3, <1>4, <1>5 DEF Stream

LEMMA StreamStep == TypeOK /\ History /\ Places /\ Order /\ Stream /\ [Next]_vars => Stream'
<1> SUFFICES ASSUME TypeOK, History, Places, Order, Stream, [Next]_vars PROVE Stream'
  OBVIOUS
<1> USE DEF liveVars, bridgeVars, clientVars
<1>t. /\ now \in Conn /\ replies[now] \in Seq(Reply) /\ Len(replies[now]) \in Nat
      /\ \A k \in Conn : requests[k] \in Seq(Command) /\ Len(requests[k]) \in Nat
                         /\ \A i \in 1..Len(requests[k]) : requests[k][i] \in Command
      /\ \A k \in Conn : serving[k] # Nobody => serving[k] \in Command
      /\ \A c \in Command : at[c] \in Nat
  BY DEF TypeOK
<1>1. CASE Reconnect
  <2>1. now' = now + 1 /\ now' \in Conn /\ replies' = [replies EXCEPT ![now] = <<>>]
    BY <1>t, <1>1 DEF Reconnect, Conn
  <2>2. \A k \in Conn : replies'[k] = <<>>
    BY <2>1 DEF TypeOK, Stream
  <2>3. Len(replies'[now']) = 0
    BY <2>1, <2>2
  <2> QED BY <2>2, <2>3 DEF Stream
<1>2. ASSUME NEW c \in Command, Send(c) PROVE Stream'
  <2>1. UNCHANGED <<now, replies, open, serving, mainQ, done>>
    BY <1>2 DEF Send
  <2>2. /\ \A d \in Command : d # c => at'[d] = at[d] /\ era'[d] = era[d] /\ verdict'[d] = verdict[d]
        /\ \A d \in Command : Sent(d) => d # c
        /\ \A d \in Command : at[d] < at'[c]
        /\ ~open[now] => requests'[now] = requests[now]
        /\ open[now] => requests'[now] = Append(requests[now], c)
    BY <1>t, <1>2, SendAt DEF Sent
  <2>3. serving[now] # Nobody => at'[serving[now]] = at[serving[now]]
    BY <1>t, <2>2 DEF Places
  <2>4. \A j \in 1..Len(requests'[now]) :
           \/ requests'[now][j] = c
           \/ /\ j \in 1..Len(requests[now]) /\ requests'[now][j] = requests[now][j]
              /\ at'[requests[now][j]] = at[requests[now][j]]
    <3>1. \A j \in 1..Len(requests[now]) : at'[requests[now][j]] = at[requests[now][j]]
      BY <1>t, <2>2 DEF Places
    <3>2. CASE open[now]
      <4>1. \A j \in 1..Len(requests'[now]) :
               \/ requests'[now][j] = c
               \/ j \in 1..Len(requests[now]) /\ requests'[now][j] = requests[now][j]
        <5>1. requests[now] \in Seq(Command) /\ requests'[now] = Append(requests[now], c)
          BY <1>t, <2>2, <3>2
        <5> QED BY <5>1, AppendAt
      <4> QED BY <3>1, <4>1
    <3>3. CASE ~open[now]
      BY <1>t, <2>2, <3>1, <3>3
    <3> QED BY <3>2, <3>3
  <2>5. ASSUME NEW d \in Command, Sent(d), Ahead(d) PROVE StaysAhead(d)
    <3>1. at'[d] = at[d]
      BY <2>2, <2>5
    <3>2. serving'[now'] # Nobody => at'[d] < at'[serving'[now']]
      BY <2>1, <2>3, <2>5, <3>1 DEF Ahead
    <3>3. \A j \in 1..Len(requests'[now]) : at'[d] < at'[requests'[now][j]]
      BY <2>2, <2>4, <2>5, <3>1 DEF Ahead
    <3> QED BY <2>1, <3>2, <3>3 DEF StaysAhead
  <2>6. Over => Over'
    BY <2>1, <2>2 DEF Over
  <2>7. Calm
    BY <2>1, <2>2, <2>5, <2>6 DEF Calm
  <2> QED BY <2>1, <2>7, StreamKept
<1>3. ASSUME NEW c \in Command, Receive(c) PROVE Stream'
  <2>1. /\ replies[now] # <<>> /\ replies' = [replies EXCEPT ![now] = Tail(@)]
        /\ UNCHANGED <<now, at, era, open, serving, requests, done>>
        /\ verdict' = [verdict EXCEPT ![c] = Reading(c, Head(replies[now]))]
    BY <1>3 DEF Receive
  <2>2. \A d \in Command : verdict[d] # "waiting" => verdict'[d] # "waiting"
    BY <2>1 DEF TypeOK, Reading
  <2>3. Calm
    BY <2>1, <2>2 DEF Calm, Ahead, StaysAhead, Over
  <2>4. /\ replies'[now] = Tail(replies[now]) /\ Len(replies'[now]) = Len(replies[now]) - 1
        /\ \A i \in 1..Len(replies'[now]) : i + 1 \in 1..Len(replies[now])
                                            /\ replies'[now][i] = replies[now][i + 1]
        /\ \A k \in Conn : k # now => replies'[k] = <<>>
    <3>1. replies'[now] = Tail(replies[now]) /\ \A k \in Conn : k # now => replies'[k] = <<>>
      BY <2>1 DEF TypeOK, Stream
    <3>2. /\ Len(Tail(replies[now])) = Len(replies[now]) - 1
          /\ \A i \in 1..Len(Tail(replies[now])) : i + 1 \in 1..Len(replies[now])
                /\ Tail(replies[now])[i] = replies[now][i + 1]
      BY <1>t, <2>1, TailAt
    <3> QED BY <3>1, <3>2
  <2>5. ASSUME NEW i \in 1..Len(replies'[now]) PROVE Tells(replies[now][i])' /\ Ended(i)'
    <3> DEFINE r == replies[now][i + 1]
    <3>1. r \in Reply /\ Tells(r) /\ Ended(i + 1) /\ replies'[now'][i] = r /\ i + 1 \in 1..Len(replies[now])
      <4>1. i + 1 \in 1..Len(replies[now]) /\ replies'[now][i] = r
        BY <2>4, <2>5
      <4>2. Tells(r) /\ Ended(i + 1)
        BY <4>1 DEF Stream
      <4>3. r \in Reply
        BY <1>t, <4>1
      <4>4. now' = now
        BY <2>1
      <4> QED BY <4>1, <4>2, <4>3, <4>4
    <3>2. StillTells(r)
      BY <2>3, <3>1, TellsOn
    <3>3. Tells(replies[now][i])'
      BY <2>1, <3>1, <3>2 DEF StillTells, Tells, Sent, Ahead, StaysAhead
    <3>4. Ended(i)'
      BY <1>t, <2>1, <2>4, <3>1 DEF Ended, Over
    <3> QED BY <3>3, <3>4
  <2>6. ASSUME NEW i \in 1..Len(replies'[now]), NEW j \in 1..Len(replies'[now]), i < j,
               replies'[now][j].id # Nobody
        PROVE  at[replies'[now][i].id] < at[replies'[now][j].id]
    <3>1. i + 1 < j + 1
      BY <2>6
    <3> QED BY <2>4, <2>6, <3>1 DEF Stream
  <2>7. \A i \in 1..Len(replies'[now']) : Tells(replies[now][i])' /\ Ended(i)'
    <3>1. now' = now
      BY <2>1
    <3> QED BY <2>5, <3>1
  <2>8. \A i, j \in 1..Len(replies'[now']) :
           i < j /\ replies'[now'][j].id # Nobody =>
              at'[replies'[now'][i].id] < at'[replies'[now'][j].id]
    BY <2>1, <2>6
  <2>9. \A k \in Conn : k # now' => replies'[k] = <<>>
    BY <2>1, <2>4
  <2> QED BY <2>7, <2>8, <2>9 DEF Stream
<1>4. ASSUME NEW c \in Command, Timeout(c) \/ Disconnected(c) PROVE Stream'
  <2>1. UNCHANGED <<now, at, era, open, serving, requests, done, replies>>
    BY <1>4 DEF Timeout, Disconnected
  <2>2. replies[now] = <<>>
    BY <1>4 DEF Timeout, Disconnected
  <2>3. Len(replies'[now']) = 0
    BY <2>1, <2>2
  <2> QED BY <2>1, <2>3 DEF Stream
<1>5. ASSUME NEW k \in Conn, TakeWrite(k) \/ TakeRead(k)
      PROVE  /\ Listening(k) /\ requests' = [requests EXCEPT ![k] = Tail(@)] /\ Taken(k)
             /\ UNCHANGED <<now, at, era, verdict, open>>
             /\ at[requests[k][1]] > 0 /\ era[requests[k][1]] = k /\ done[requests[k][1]] = "no"
             /\ requests[k][1] = Head(requests[k]) /\ requests[k][1] \in Command
             /\ \A d \in Command : Ahead(d) =>
                  /\ \A j \in 1..Len(requests'[now]) : at[d] < at[requests'[now][j]]
                  /\ k = now => at[d] < at[requests[k][1]]
             /\ k # now /\ Over => requests'[now] = requests[now]
             /\ k = now => ~Over
             /\ \A j \in 1..Len(requests'[k]) : at[requests[k][1]] < at[requests'[k][j]]
  <2>1. /\ Listening(k) /\ requests' = [requests EXCEPT ![k] = Tail(@)]
        /\ UNCHANGED <<now, at, era, verdict, open>>
    BY <1>5 DEF TakeWrite, TakeRead
  <2>2. Taken(k)
    BY <2>1, TakeAt
  <2>3. /\ at[requests[k][1]] > 0 /\ era[requests[k][1]] = k /\ done[requests[k][1]] = "no"
        /\ requests[k][1] = Head(requests[k]) /\ requests[k][1] \in Command
    BY <2>2 DEF Taken, Places, Sent
  <2>4. ASSUME NEW d \in Command, Ahead(d)
        PROVE  /\ \A j \in 1..Len(requests'[now]) : at[d] < at[requests'[now][j]]
               /\ k = now => at[d] < at[requests[k][1]]
    <3>1. CASE k = now
      BY <2>2, <2>4, <3>1 DEF Taken, Ahead
    <3>2. CASE k # now
      BY <1>t, <2>2, <2>4, <3>2 DEF Taken, Ahead
    <3> QED BY <3>1, <3>2
  <2>5. /\ k # now /\ Over => requests'[now] = requests[now]
        /\ k = now => ~Over
    BY <1>t, <2>1, <2>2 DEF Taken, Over, Listening
  <2>6. \A j \in 1..Len(requests'[k]) : at[requests[k][1]] < at[requests'[k][j]]
    BY <2>2 DEF Taken, Order
  <2> QED BY <2>1, <2>2, <2>3, <2>4, <2>5, <2>6
<1>6. ASSUME NEW k \in Conn, TakeWrite(k) PROVE Stream'
  <2>1. /\ replies' = replies /\ done' = done /\ UNCHANGED <<now, at, era, verdict, open>>
        /\ serving' = [serving EXCEPT ![k] = Head(requests[k])]
    BY <1>6 DEF TakeWrite
  <2>2. serving'[now] = IF k = now THEN requests[k][1] ELSE serving[now]
    BY <1>5, <1>6, <2>1 DEF TypeOK
  <2>3. ASSUME NEW d \in Command, Ahead(d) PROVE StaysAhead(d)
    <3>1. \A j \in 1..Len(requests'[now]) : at[d] < at[requests'[now][j]]
      BY <1>5, <1>6, <2>3
    <3>2. serving'[now] # Nobody => at[d] < at[serving'[now]]
      <4>1. CASE k = now
        BY <1>5, <1>6, <2>2, <2>3, <4>1
      <4>2. CASE k # now
        BY <2>2, <2>3, <4>2 DEF Ahead
      <4> QED BY <4>1, <4>2
    <3> QED BY <2>1, <3>1, <3>2 DEF StaysAhead
  <2>4. Over => Over'
    BY <1>5, <1>6, <2>1, <2>2 DEF Over
  <2>5. Calm
    BY <2>1, <2>3, <2>4 DEF Calm
  <2> QED BY <2>1, <2>5, StreamKept
<1>7. ASSUME NEW k \in Conn, TakeRead(k) PROVE Stream'
  <2> DEFINE c == requests[k][1]
  <2>1. PICK ok \in BOOLEAN :
           /\ done' = [done EXCEPT ![Head(requests[k])] = IF ok THEN "applied" ELSE "raised"]
           /\ Respond(k, [id |-> Head(requests[k]), ok |-> ok])
    BY <1>7 DEF TakeRead
  <2>2. UNCHANGED <<now, at, era, verdict, open, serving>>
    BY <1>7 DEF TakeRead
  <2>3. c = Head(requests[k]) /\ c \in Command /\ done[c] = "no"
    BY <1>5, <1>7
  <2>4. /\ \A d \in Command : done[d] # "no" => done'[d] = done[d]
        /\ done'[c] = IF ok THEN "applied" ELSE "raised"
    BY <2>1, <2>3 DEF TypeOK
  <2>5. ASSUME NEW d \in Command, Ahead(d) PROVE StaysAhead(d)
    <3>1. \A j \in 1..Len(requests'[now]) : at[d] < at[requests'[now][j]]
      BY <1>5, <1>7, <2>5
    <3> QED BY <2>2, <2>5, <3>1 DEF StaysAhead, Ahead
  <2>6. Over => Over'
    BY <1>5, <1>7, <2>2 DEF Over
  <2>7. Calm
    BY <2>2, <2>4, <2>5, <2>6 DEF Calm
  <2>8. CASE k = now
    <3> DEFINE x == [id |-> c, ok |-> ok]
    <3>1. x \in Reply /\ x.id = c /\ x.ok = ok /\ x.id # Nobody
      BY <2>3 DEF Reply
    <3>2. replies' = [replies EXCEPT ![now] = Append(@, x)]
      BY <2>1, <2>3, <2>8 DEF Respond
    <3>3. \A d \in Command : Ahead(d) => at[d] < at[x.id]
      BY <1>5, <1>7, <2>8, <3>1
    <3>4. at[x.id] > 0 /\ era'[x.id] = now
      BY <1>5, <1>7, <2>2, <2>8, <3>1
    <3>5. (x.ok => done'[x.id] = "applied") /\ (~x.ok => done'[x.id] = "raised")
      BY <2>4, <3>1
    <3>6. StaysAhead(x.id)
      <4>1. \A j \in 1..Len(requests'[now]) : at[c] < at[requests'[now][j]]
        BY <1>5, <1>7, <2>8
      <4>2. serving[now] = Nobody
        BY <1>5, <1>7, <2>8 DEF Listening
      <4> QED BY <2>2, <3>1, <4>1, <4>2 DEF StaysAhead
    <3>7. ~Over
      BY <1>5, <1>7, <2>8
    <3> HIDE DEF x
    <3> QED BY <2>2, <2>7, <3>1, <3>2, <3>3, <3>4, <3>5, <3>6, <3>7, StreamGrows
  <2>9. CASE k # now
    <3>1. replies' = replies
      BY <2>1, <2>9 DEF Respond
    <3> QED BY <2>7, <3>1, StreamKept
  <2> QED BY <2>8, <2>9
<1>8. ASSUME NEW k \in Conn, RunTogether(k) \/ Swallow(k) PROVE Stream'
  <2>1. /\ requests' = [requests EXCEPT ![k] = <<>>]
        /\ UNCHANGED <<now, at, era, verdict, open, serving, done, replies>>
    BY <1>8 DEF RunTogether, Swallow
  <2>2. requests'[now] = requests[now] \/ requests'[now] = <<>>
    BY <1>t, <2>1 DEF TypeOK
  <2>3. ASSUME NEW d \in Command, Ahead(d) PROVE StaysAhead(d)
    <3>1. \A j \in 1..Len(requests'[now]) : at[d] < at[requests'[now][j]]
      BY <2>2, <2>3 DEF Ahead
    <3> QED BY <2>1, <2>3, <3>1 DEF StaysAhead, Ahead
  <2>4. Over => Over'
    BY <2>1, <2>2 DEF Over
  <2>5. Calm
    BY <2>1, <2>3, <2>4 DEF Calm
  <2> QED BY <2>1, <2>5, StreamKept
<1>9. ASSUME NEW k \in Conn, ReplyDone(k) \/ Abandon(k) PROVE Stream'
  <2> DEFINE c == serving[k]
  <2>1. /\ c # Nobody /\ c \in Command
        /\ serving' = [serving EXCEPT ![k] = Nobody]
        /\ UNCHANGED <<now, at, era, verdict, open, requests, done>>
    BY <1>t, <1>9 DEF ReplyDone, Abandon
  <2>2. PICK x \in Reply : /\ x.id = c /\ Respond(k, x)
                           /\ x.ok => done[c] = "applied"
                           /\ ~x.ok => done[c] \in {"partial", "raised"} \/ verdict[c] # "waiting"
    <3>1. CASE ReplyDone(k)
      <4>1. Respond(k, [id |-> c, ok |-> done[c] = "applied"]) /\ done[c] # "no"
        BY <3>1 DEF ReplyDone
      <4>2. [id |-> c, ok |-> done[c] = "applied"] \in Reply
        BY <2>1 DEF Reply
      <4>3. done[c] = "applied" \/ done[c] \in {"partial", "raised"}
        BY <2>1, <4>1 DEF TypeOK, End
      <4> QED BY <4>1, <4>2, <4>3
    <3>2. CASE Abandon(k)
      <4>1. Respond(k, [id |-> c, ok |-> FALSE]) /\ verdict[c] # "waiting"
        BY <3>2 DEF Abandon
      <4>2. [id |-> c, ok |-> FALSE] \in Reply
        BY <2>1 DEF Reply
      <4> QED BY <4>1, <4>2
    <3> QED BY <1>9, <3>1, <3>2
  <2>3. serving'[now] = IF k = now THEN Nobody ELSE serving[now]
    BY <1>t, <2>1 DEF TypeOK
  <2>4. ASSUME NEW d \in Command, Ahead(d) PROVE StaysAhead(d)
    BY <2>1, <2>3, <2>4 DEF Ahead, StaysAhead
  <2>5. Over => Over'
    BY <2>1, <2>3 DEF Over
  <2>6. Calm
    BY <2>1, <2>4, <2>5 DEF Calm
  <2>7. CASE k = now
    <3>1. replies' = [replies EXCEPT ![now] = Append(@, x)]
      BY <2>2, <2>7 DEF Respond
    <3>2. \A d \in Command : Ahead(d) => at[d] < at[x.id]
      BY <2>1, <2>2, <2>7 DEF Ahead
    <3>3. at[x.id] > 0 /\ era'[x.id] = now
      BY <2>1, <2>2, <2>7 DEF Places, Sent
    <3>4. StaysAhead(x.id)
      BY <2>1, <2>2, <2>3, <2>7 DEF StaysAhead, Order
    <3>5. ~Over
      BY <2>1, <2>7 DEF Over
    <3>6. /\ x.ok => done'[x.id] = "applied"
          /\ ~x.ok => done'[x.id] \in {"partial", "raised"} \/ verdict'[x.id] # "waiting"
      BY <2>1, <2>2
    <3>7. x.id # Nobody
      BY <2>1, <2>2
    <3> QED BY <2>1, <2>6, <3>1, <3>2, <3>3, <3>4, <3>5, <3>6, <3>7, StreamGrows
  <2>8. CASE k # now
    <3>1. replies' = replies
      BY <2>2, <2>8 DEF Respond
    <3> QED BY <2>6, <3>1, StreamKept
  <2> QED BY <2>7, <2>8
<1>10. ASSUME NEW k \in Conn, EndHandler(k) PROVE Stream'
  <2> DEFINE x == [id |-> Nobody, ok |-> FALSE]
  <2>1. /\ requests' = [requests EXCEPT ![k] = <<>>] /\ open' = [open EXCEPT ![k] = FALSE]
        /\ serving' = [serving EXCEPT ![k] = Nobody]
        /\ UNCHANGED <<now, at, era, verdict, done>>
        /\ open[k]
        /\ Respond(k, x) \/ replies' = replies
    BY <1>10 DEF EndHandler
  <2>s. serving'[now] = IF k = now THEN Nobody ELSE serving[now]
    BY <1>t, <2>1 DEF TypeOK
  <2>2. requests'[now] = IF k = now THEN <<>> ELSE requests[now]
    BY <1>t, <2>1 DEF TypeOK
  <2>3. open'[now] = IF k = now THEN FALSE ELSE open[now]
    BY <1>t, <2>1 DEF TypeOK
  <2>4. ASSUME NEW d \in Command, Ahead(d) PROVE StaysAhead(d)
    <3>1. \A j \in 1..Len(requests'[now]) : at[d] < at[requests'[now][j]]
      BY <2>2, <2>4 DEF Ahead
    <3> QED BY <2>1, <2>s, <2>4, <3>1 DEF StaysAhead, Ahead
  <2>5. Over => Over'
    BY <2>1, <2>s, <2>2, <2>3 DEF Over
  <2>6. Calm
    BY <2>1, <2>4, <2>5 DEF Calm
  <2>7. CASE k = now /\ Respond(k, x)
    <3>1. replies' = [replies EXCEPT ![now] = Append(@, x)]
      BY <2>7 DEF Respond
    <3>2. x \in Reply /\ x.id = Nobody /\ ~x.ok
      BY DEF Reply
    <3>3. ~Over /\ Over'
      BY <2>1, <2>s, <2>2, <2>3, <2>7 DEF Over
    <3> HIDE DEF x
    <3> QED BY <2>1, <2>6, <3>1, <3>2, <3>3, StreamGrows
  <2>8. CASE replies' = replies
    BY <2>6, <2>8, StreamKept
  <2>9. CASE k # now /\ Respond(k, x)
    <3>1. replies' = replies
      BY <2>9 DEF Respond
    <3> QED BY <2>6, <3>1, StreamKept
  <2> QED BY <2>1, <2>7, <2>8, <2>9
<1>11. CASE MainThreadTask
  <2>1. PICK end : done' = [done EXCEPT ![Head(mainQ)] = end]
    BY <1>11 DEF MainThreadTask
  <2>2. /\ UNCHANGED <<now, at, era, verdict, serving, requests, open, replies>> /\ mainQ # <<>>
    BY <1>11 DEF MainThreadTask
  <2>3. mainQ \in Seq(SideEffect) /\ Head(mainQ) = mainQ[1] /\ 1 \in 1..Len(mainQ)
    BY <2>2, TailAt DEF TypeOK
  <2>4. done[Head(mainQ)] = "no"
    BY <2>3 DEF Places
  <2>5. \A d \in Command : done[d] # "no" => done'[d] = done[d]
    BY <2>1, <2>4 DEF TypeOK
  <2>6. Calm
    BY <2>2, <2>5 DEF Calm, Ahead, StaysAhead, Over
  <2> QED BY <2>2, <2>6, StreamKept
<1>12. CASE LiveExits
  <2>1. /\ UNCHANGED <<now, at, era, verdict, done>>
        /\ \A k \in Conn : ~open'[k] /\ serving'[k] = Nobody /\ requests'[k] = <<>>
    BY <1>12 DEF LiveExits
  <2>2. Calm
    BY <1>t, <2>1 DEF Calm, StaysAhead, Over
  <2>3. CASE replies' = replies
    BY <2>2, <2>3, StreamKept
  <2>4. CASE replies' = [replies EXCEPT ![now] = <<>>]
    <3>1. Len(replies'[now']) = 0 /\ \A k \in Conn : replies'[k] = <<>>
      BY <1>t, <2>1, <2>4 DEF TypeOK, Stream
    <3> QED BY <3>1 DEF Stream
  <2> QED BY <1>12, <2>3, <2>4 DEF LiveExits
<1>13. CASE UNCHANGED vars
  <2>1. UNCHANGED <<now, at, era, verdict, serving, requests, open, replies, done>>
    BY <1>13 DEF vars
  <2> QED BY <2>1 DEF Stream, Tells, Ended, Sent, Ahead, Over
<1> QED BY <1>1, <1>2, <1>3, <1>4, <1>6, <1>7, <1>8, <1>9, <1>10, <1>11, <1>12, <1>13
    DEF Next, Client, Bridge, Live

-----------------------------------------------------------------------------
(* What is still to come on the connection in use.                         *)

LEMMA OneWaiting ==
    ASSUME History, TypeOK, NEW c \in Command, NEW d \in Command,
           verdict[c] = "waiting", verdict[d] = "waiting"
    PROVE  c = d
<1>1. at[c] = clock /\ at[d] = clock /\ verdict[c] # "none"
  BY DEF History
<1>2. at[c] # 0 /\ at[c] \in Nat
  BY <1>1 DEF History, TypeOK
<1> QED BY <1>1, <1>2 DEF History

LEMMA OutIsSent ==
    ASSUME TypeOK, Places, Stream, NEW c \in Command, Out(c)
    PROVE  Sent(c) /\ era[c] = now
<1>1. ASSUME Answered(c) PROVE Sent(c) /\ era[c] = now
  <2>1. PICK i \in 1..Len(replies[now]) : replies[now][i].id = c
    BY <1>1 DEF Answered, AmongIds
  <2>2. Tells(replies[now][i])
    BY <2>1 DEF Stream
  <2> QED BY <2>1, <2>2 DEF Tells
<1>2. ASSUME serving[now] = c PROVE Sent(c) /\ era[c] = now
  BY <1>2 DEF Places, TypeOK
<1>3. ASSUME Among(c, requests[now]) PROVE Sent(c) /\ era[c] = now
  BY <1>3 DEF Among, Places, TypeOK
<1> QED BY <1>1, <1>2, <1>3 DEF Out

\* Once the reply to the call in progress is in the stream, what was missed
\* before is in the stream too, and ahead of it.
LEMMA MissedIsAhead ==
    ASSUME TypeOK, History, Places, Stream, NEW c \in Command, NEW e \in Command,
           verdict[c] = "waiting", verdict[e] # "waiting", Out(e),
           NEW i \in 1..Len(replies[now]), replies[now][i].id = c
    PROVE  \E j \in 1..Len(replies[now]) : replies[now][j].id = e /\ j < i
<1>1. Tells(replies[now][i])
  BY DEF Stream
<1>2. Ahead(c)
  BY <1>1 DEF Tells
<1>3. Sent(e) /\ at[e] \in Nat /\ at[c] \in Nat /\ at[c] = clock /\ at[e] <= clock
  BY OutIsSent DEF TypeOK, History
<1>4. at[e] < at[c]
  <2>1. c # e
    OBVIOUS
  <2>2. at[e] # at[c]
    BY <1>3, <2>1 DEF History, Sent
  <2> QED BY <1>3, <2>2
<1>5. serving[now] # e
  BY <1>2, <1>3, <1>4 DEF Ahead
<1>6. ~Among(e, requests[now])
  BY <1>2, <1>3, <1>4 DEF Ahead, Among
<1>7. PICK j \in 1..Len(replies[now]) : replies[now][j].id = e
  BY <1>5, <1>6 DEF Out, Answered, AmongIds
<1>8. ~(i < j)
  BY <1>3, <1>4, <1>7 DEF Stream
<1>9. i # j
  BY <1>7
<1>10. i \in Nat /\ j \in Nat
  BY DEF TypeOK
<1> QED BY <1>7, <1>8, <1>9, <1>10

\* Taking a request and answering it move it along, no more.
LEMMA OutMoves ==
    ASSUME TypeOK, NEW k \in Conn,
           TakeWrite(k) \/ TakeRead(k) \/ ReplyDone(k) \/ Abandon(k)
    PROVE  \A c \in Command : (Out(c)' <=> Out(c)) /\ (Answered(c) => Answered(c)')
<1> USE DEF liveVars, bridgeVars, clientVars
<1>t. /\ now \in Conn /\ replies[now] \in Seq(Reply) /\ requests[now] \in Seq(Command)
      /\ now' = now /\ UNCHANGED <<jammed, open>>
  BY DEF TypeOK, TakeWrite, TakeRead, ReplyDone, Abandon
<1>1. ASSUME requests'[now] = requests[now], serving'[now] = serving[now], replies'[now] = replies[now]
      PROVE  \A c \in Command : (Out(c)' <=> Out(c)) /\ (Answered(c) => Answered(c)')
  BY <1>t, <1>1 DEF Out, Answered
<1>2. CASE TakeWrite(k)
  <2>1. /\ Listening(k) /\ requests' = [requests EXCEPT ![k] = Tail(@)]
        /\ serving' = [serving EXCEPT ![k] = Head(requests[k])] /\ replies' = replies
    BY <1>2 DEF TakeWrite
  <2>2. CASE k # now
    <3>1. requests'[now] = requests[now] /\ serving'[now] = serving[now] /\ replies'[now] = replies[now]
      BY <1>t, <2>1, <2>2 DEF TypeOK
    <3> QED BY <1>1, <3>1
  <2>3. CASE k = now
    <3>1. /\ requests'[now] = Tail(requests[now]) /\ serving'[now] = Head(requests[now])
          /\ requests[now] # <<>> /\ ~jammed[now] /\ serving[now] = Nobody
      BY <1>t, <2>1, <2>3 DEF TypeOK, Listening
    <3>2. \A c : Among(c, requests[now]) <=> c = Head(requests[now]) \/ Among(c, Tail(requests[now]))
      BY <1>t, <3>1, AmongTail
    <3>3. \A c : Answered(c)' <=> Answered(c)
      BY <1>t, <2>1 DEF Answered
    <3> QED BY <1>t, <3>1, <3>2, <3>3 DEF Out
  <2> QED BY <2>2, <2>3
<1>3. CASE TakeRead(k)
  <2>1. PICK ok \in BOOLEAN : Respond(k, [id |-> Head(requests[k]), ok |-> ok])
    BY <1>3 DEF TakeRead
  <2>2. Listening(k) /\ requests' = [requests EXCEPT ![k] = Tail(@)] /\ serving' = serving
    BY <1>3 DEF TakeRead
  <2>3. CASE k # now
    <3>1. requests'[now] = requests[now] /\ serving'[now] = serving[now] /\ replies'[now] = replies[now]
      BY <1>t, <2>1, <2>2, <2>3 DEF TypeOK, Respond
    <3> QED BY <1>1, <3>1
  <2>4. CASE k = now
    <3> DEFINE x == [id |-> Head(requests[now]), ok |-> ok]
    <3>1. /\ requests'[now] = Tail(requests[now]) /\ serving'[now] = Nobody
          /\ requests[now] # <<>> /\ ~jammed[now] /\ serving[now] = Nobody
          /\ replies'[now] = Append(replies[now], x)
      BY <1>t, <2>1, <2>2, <2>4 DEF TypeOK, Listening, Respond
    <3>2. x \in Reply /\ x.id = Head(requests[now])
      BY <1>t, <3>1, TailAt DEF Reply
    <3>3. \A c : Among(c, requests[now]) <=> c = Head(requests[now]) \/ Among(c, Tail(requests[now]))
      BY <1>t, <3>1, AmongTail
    <3>4. \A c : AmongIds(c, Append(replies[now], x)) <=> AmongIds(c, replies[now]) \/ c = x.id
      <4> HIDE DEF x
      <4> QED BY <1>t, <3>2, AmongIdsAppend
    <3>5. \A c : Answered(c)' <=> Answered(c) \/ c = Head(requests[now])
      BY <1>t, <3>1, <3>2, <3>4 DEF Answered
    <3> QED BY <1>t, <3>1, <3>3, <3>5 DEF Out
  <2> QED BY <2>3, <2>4
<1>4. CASE ReplyDone(k) \/ Abandon(k)
  <2>1. PICK ok \in BOOLEAN : Respond(k, [id |-> serving[k], ok |-> ok])
    BY <1>4 DEF ReplyDone, Abandon
  <2>2. serving[k] # Nobody /\ requests' = requests /\ serving' = [serving EXCEPT ![k] = Nobody]
    BY <1>4 DEF ReplyDone, Abandon
  <2>3. CASE k # now
    <3>1. requests'[now] = requests[now] /\ serving'[now] = serving[now] /\ replies'[now] = replies[now]
      BY <1>t, <2>1, <2>2, <2>3 DEF TypeOK, Respond
    <3> QED BY <1>1, <3>1
  <2>4. CASE k = now
    <3> DEFINE x == [id |-> serving[now], ok |-> ok]
    <3>1. serving'[now] = Nobody /\ replies'[now] = Append(replies[now], x)
      BY <1>t, <2>1, <2>2, <2>4 DEF TypeOK, Respond
    <3>2. x \in Reply /\ x.id = serving[now]
      BY <1>t DEF Reply, TypeOK
    <3>4. \A c : AmongIds(c, Append(replies[now], x)) <=> AmongIds(c, replies[now]) \/ c = x.id
      <4> HIDE DEF x
      <4> QED BY <1>t, <3>2, AmongIdsAppend
    <3>5. \A c : Answered(c)' <=> Answered(c) \/ c = serving[now]
      BY <1>t, <3>1, <3>2, <3>4 DEF Answered
    <3> QED BY <1>t, <2>2, <3>1, <3>5 DEF Out
  <2> QED BY <2>3, <2>4
<1> QED BY <1>2, <1>3, <1>4

LEMMA WaitingStep ==
    TypeOK /\ History /\ Places /\ Order /\ Stream /\ Waiting /\ [Next]_vars => Waiting'
<1> SUFFICES ASSUME TypeOK, History, Places, Order, Stream, Waiting, [Next]_vars PROVE Waiting'
  OBVIOUS
<1> USE DEF liveVars, bridgeVars, clientVars
<1>t. /\ now \in Conn /\ replies[now] \in Seq(Reply)
      /\ \A k \in Conn : requests[k] \in Seq(Command)
      /\ mainQ \in Seq(SideEffect)
  BY DEF TypeOK
<1>w. \A c \in Command : verdict[c] = "waiting" =>
        /\ Among(c, mainQ) => serving[now] = c
        /\ done[c] = "applied" =>
              \/ serving[now] = c \/ Answered(c)
              \/ ~open[now] /\ serving[now] = Nobody
        /\ open[now] /\ ~jammed[now] => Out(c)
  BY DEF Waiting
<1>1. CASE Reconnect
  BY <1>1 DEF Reconnect, Idle, Waiting
<1>2. ASSUME NEW c \in Command, Send(c) PROVE Waiting'
  <2>1. ASSUME NEW d \in Command, verdict'[d] = "waiting" PROVE d = c
    BY <1>2, <2>1, SendAt
  <2>2. /\ UNCHANGED <<now, replies, open, jammed, serving, mainQ, done>> /\ at[c] = 0
        /\ open[now] => requests'[now] = Append(requests[now], c)
    BY <1>2, SendAt DEF Send
  <2>3. ~Among(c, mainQ)'
    BY <2>2 DEF Among, Places, Sent
  <2>4. done'[c] # "applied"
    BY <2>2 DEF Places
  <2>5. open[now] /\ ~jammed[now] => Out(c)'
    <3>1. Among(c, Append(requests[now], c))
      BY <1>t, AmongAppend
    <3>2. open[now] => Among(c, requests[now])'
      BY <2>2, <3>1 DEF Among
    <3> QED BY <2>2, <3>2 DEF Out
  <2> QED BY <2>1, <2>2, <2>3, <2>4, <2>5 DEF Waiting
<1>3. ASSUME NEW c \in Command, Receive(c) \/ Timeout(c) \/ Disconnected(c) PROVE Waiting'
  <2>1. verdict[c] = "waiting" /\ \E v \in Verdict \ {"waiting"} : verdict' = [verdict EXCEPT ![c] = v]
    BY <1>3 DEF Receive, Timeout, Disconnected, Reading, Verdict
  <2>2. \A d \in Command : verdict'[d] # "waiting"
    BY <2>1, OneWaiting DEF TypeOK
  <2> QED BY <2>2 DEF Waiting
<1>4. ASSUME NEW k \in Conn, TakeWrite(k) PROVE Waiting'
  <2>1. /\ Listening(k) /\ serving' = [serving EXCEPT ![k] = Head(requests[k])]
        /\ mainQ' = Append(mainQ, Head(requests[k])) /\ Head(requests[k]) \in SideEffect
        /\ requests' = [requests EXCEPT ![k] = Tail(@)]
        /\ UNCHANGED <<now, verdict, era, replies, open, jammed, done>>
    BY <1>4 DEF TakeWrite
  <2>2. Taken(k)
    BY <2>1, TakeAt
  <2>3. era[Head(requests[k])] = k /\ done[Head(requests[k])] = "no"
    BY <2>2 DEF Taken, Places
  <2>4. serving'[now] = IF k = now THEN Head(requests[k]) ELSE serving[now]
    BY <1>t, <2>1 DEF TypeOK
  <2>5. ASSUME NEW c \in Command, verdict'[c] = "waiting"
        PROVE  /\ Among(c, mainQ)' => serving'[now'] = c
               /\ done'[c] = "applied" =>
                     \/ serving'[now'] = c \/ Answered(c)'
                     \/ ~open'[now'] /\ serving'[now'] = Nobody
               /\ open'[now'] /\ ~jammed'[now'] => Out(c)'
    <3>1. verdict[c] = "waiting" /\ era[c] = now
      BY <2>1, <2>5 DEF History
    <3>2. Among(c, mainQ)' <=> Among(c, mainQ) \/ c = Head(requests[k])
      BY <1>t, <2>1, AmongAppend
    <3>3. CASE k = now
      <4>1. serving[now] = Nobody /\ open[now]
        BY <2>1, <3>3 DEF Listening
      <4>2. ~Among(c, mainQ)
        BY <1>w, <3>1, <4>1
      <4>3. done[c] = "applied" => Answered(c)'
        BY <1>w, <1>4, <3>1, <4>1, OutMoves
      <4> QED BY <1>w, <1>4, <2>1, <2>4, <3>1, <3>2, <3>3, <4>2, <4>3, OutMoves
    <3>4. CASE k # now
      <4>1. c # Head(requests[k])
        BY <2>3, <3>1, <3>4
      <4>2. \A d : Answered(d)' <=> Answered(d)
        BY <2>1 DEF Answered
      <4>3. Among(c, mainQ)' => serving'[now'] = c
        BY <1>w, <2>1, <2>4, <3>1, <3>2, <3>4, <4>1
      <4>4. Out(c)' <=> Out(c)
        BY <1>4, OutMoves
      <4> QED BY <1>w, <2>1, <2>4, <3>1, <3>4, <4>2, <4>3, <4>4
    <3> QED BY <3>3, <3>4
  <2> QED BY <2>5 DEF Waiting
<1>5. ASSUME NEW k \in Conn, TakeRead(k) PROVE Waiting'
  <2>1. PICK ok \in BOOLEAN :
           /\ done' = [done EXCEPT ![Head(requests[k])] = IF ok THEN "applied" ELSE "raised"]
           /\ Respond(k, [id |-> Head(requests[k]), ok |-> ok])
    BY <1>5 DEF TakeRead
  <2>2. /\ Listening(k) /\ requests' = [requests EXCEPT ![k] = Tail(@)]
        /\ UNCHANGED <<now, verdict, era, serving, open, jammed, mainQ>>
    BY <1>5 DEF TakeRead
  <2>3. Taken(k)
    BY <2>2, TakeAt
  <2>4. Head(requests[k]) \in Command /\ era[Head(requests[k])] = k
    BY <2>3 DEF Taken, Places
  <2>5. ASSUME NEW c \in Command, verdict'[c] = "waiting"
        PROVE  /\ Among(c, mainQ)' => serving'[now'] = c
               /\ done'[c] = "applied" =>
                     \/ serving'[now'] = c \/ Answered(c)'
                     \/ ~open'[now'] /\ serving'[now'] = Nobody
               /\ open'[now'] /\ ~jammed'[now'] => Out(c)'
    <3>1. verdict[c] = "waiting" /\ era[c] = now
      BY <2>2, <2>5 DEF History
    <3>2. Among(c, mainQ)' => serving'[now'] = c
      BY <1>w, <2>2, <3>1
    <3>3. open'[now'] /\ ~jammed'[now'] => Out(c)'
      BY <1>w, <1>5, <2>2, <3>1, OutMoves
    <3>4. CASE k = now
      <4>1. open[now]
        BY <2>2, <3>4 DEF Listening
      <4>2. CASE c = Head(requests[k])
        <5> DEFINE x == [id |-> c, ok |-> ok]
        <5>1. replies'[now] = Append(replies[now], x)
          BY <1>t, <2>1, <3>4, <4>2 DEF Respond, TypeOK
        <5>2. x \in Reply /\ x.id = c
          BY DEF Reply
        <5>3. AmongIds(c, Append(replies[now], x))
          <6> HIDE DEF x
          <6> QED BY <1>t, <5>2, AmongIdsAppend
        <5>4. Answered(c)'
          BY <2>2, <5>1, <5>3 DEF Answered
        <5> QED BY <3>2, <3>3, <5>4
      <4>3. CASE c # Head(requests[k])
        <5>1. done'[c] = done[c]
          BY <2>1, <2>4, <4>3 DEF TypeOK
        <5>2. Answered(c) => Answered(c)'
          BY <1>5, OutMoves
        <5> QED BY <1>w, <2>2, <3>1, <3>2, <3>3, <4>1, <5>1, <5>2
      <4> QED BY <4>2, <4>3
    <3>5. CASE k # now
      <4>1. replies' = replies
        BY <2>1, <3>5 DEF Respond
      <4>2. \A d : Answered(d)' <=> Answered(d)
        BY <2>2, <4>1 DEF Answered
      <4>3. done'[c] = done[c]
        BY <2>1, <2>4, <3>1, <3>5 DEF TypeOK
      <4> QED BY <1>w, <2>2, <3>1, <3>2, <3>3, <4>2, <4>3
    <3> QED BY <3>4, <3>5
  <2> QED BY <2>5 DEF Waiting
<1>6. ASSUME NEW k \in Conn, RunTogether(k) \/ Swallow(k) PROVE Waiting'
  <2>1. /\ requests' = [requests EXCEPT ![k] = <<>>]
        /\ UNCHANGED <<now, verdict, era, serving, open, replies, mainQ, done>>
    BY <1>6 DEF RunTogether, Swallow
  <2>2. jammed'[k] /\ \A j \in Conn : j # k => jammed'[j] = jammed[j]
    BY <1>6 DEF RunTogether, Swallow, TypeOK
  <2>3. \A d : Answered(d)' <=> Answered(d)
    BY <2>1 DEF Answered
  <2>4. k # now => \A c \in Command : Out(c)' <=> Out(c)
    <3>1. k # now => requests'[now] = requests[now] /\ jammed'[now] = jammed[now]
      BY <1>t, <2>1, <2>2 DEF TypeOK
    <3> QED BY <2>1, <2>3, <3>1 DEF Out
  <2>5. ASSUME NEW c \in Command, verdict'[c] = "waiting"
        PROVE  /\ Among(c, mainQ)' => serving'[now'] = c
               /\ done'[c] = "applied" =>
                     \/ serving'[now'] = c \/ Answered(c)'
                     \/ ~open'[now'] /\ serving'[now'] = Nobody
               /\ open'[now'] /\ ~jammed'[now'] => Out(c)'
    <3>1. open'[now'] /\ ~jammed'[now'] => Out(c)'
      BY <1>t, <1>w, <2>1, <2>2, <2>4, <2>5
    <3> QED BY <1>w, <2>1, <2>3, <2>5, <3>1
  <2> QED BY <2>5 DEF Waiting
<1>7. ASSUME NEW k \in Conn, ReplyDone(k) \/ Abandon(k) PROVE Waiting'
  <2>1. /\ serving[k] # Nobody /\ serving' = [serving EXCEPT ![k] = Nobody]
        /\ UNCHANGED <<now, verdict, era, requests, open, jammed, mainQ, done>>
        /\ done[serving[k]] # "no" \/ verdict[serving[k]] # "waiting"
    BY <1>7 DEF ReplyDone, Abandon
  <2>2. serving'[now] = IF k = now THEN Nobody ELSE serving[now]
    BY <1>t, <2>1 DEF TypeOK
  <2>3. ASSUME NEW c \in Command, verdict'[c] = "waiting"
        PROVE  /\ Among(c, mainQ)' => serving'[now'] = c
               /\ done'[c] = "applied" =>
                     \/ serving'[now'] = c \/ Answered(c)'
                     \/ ~open'[now'] /\ serving'[now'] = Nobody
               /\ open'[now'] /\ ~jammed'[now'] => Out(c)'
    <3>1. open'[now'] /\ ~jammed'[now'] => Out(c)'
      BY <1>w, <1>7, <2>1, <2>3, OutMoves
    <3>2. Answered(c) => Answered(c)'
      BY <1>7, OutMoves
    <3>3. CASE k # now
      <4>1. replies' = replies
        BY <1>7, <3>3 DEF ReplyDone, Abandon, Respond
      <4>2. \A d : Answered(d)' <=> Answered(d)
        BY <2>1, <4>1 DEF Answered
      <4> QED BY <1>w, <2>1, <2>2, <2>3, <3>1, <3>3, <4>2
    <3>4. CASE k = now
      <4>1. Among(c, mainQ) => serving[now] = c /\ done[c] = "no"
        BY <1>w, <2>1, <2>3 DEF Among, Places
      <4>2. ~Among(c, mainQ)
        BY <2>1, <2>3, <3>4, <4>1
      <4>3. serving[now] = c => Answered(c)'
        <5>1. ASSUME serving[now] = c PROVE Out(c)
          BY <5>1 DEF Out
        <5>2. ASSUME serving[now] = c PROVE ~Among(c, requests[now])
          <6>1. \A i \in 1..Len(requests[now]) : at[serving[now]] < at[requests[now][i]]
            BY <1>t, <2>1, <3>4 DEF Order
          <6>2. at[c] \in Nat
            BY DEF TypeOK
          <6> QED BY <5>2, <6>1, <6>2 DEF Among
        <5>3. ASSUME serving[now] = c PROVE Out(c)'
          BY <1>7, <5>1, <5>3, OutMoves
        <5>4. ASSUME serving[now] = c PROVE ~Among(c, requests[now])'
          BY <2>1, <5>2, <5>4 DEF Among
        <5>5. serving'[now'] # c
          BY <2>1, <2>2, <3>4
        <5> QED BY <5>3, <5>4, <5>5 DEF Out
      <4>4. serving[now] # Nobody
        BY <2>1, <3>4
      <4>5. done[c] = "applied" => Answered(c)'
        BY <1>w, <2>1, <2>3, <3>2, <4>3, <4>4
      <4> QED BY <2>1, <3>1, <4>2, <4>5
    <3> QED BY <3>3, <3>4
  <2> QED BY <2>3 DEF Waiting
<1>8. ASSUME NEW k \in Conn, EndHandler(k) PROVE Waiting'
  <2> DEFINE x == [id |-> Nobody, ok |-> FALSE]
  <2>1. /\ open' = [open EXCEPT ![k] = FALSE]
        /\ serving[k] # Nobody => done[serving[k]] # "no"
        /\ serving' = [serving EXCEPT ![k] = Nobody]
        /\ requests' = [requests EXCEPT ![k] = <<>>]
        /\ UNCHANGED <<now, verdict, era, jammed, mainQ, done>>
        /\ Respond(k, x) \/ replies' = replies
    BY <1>8 DEF EndHandler
  <2>2. open'[now] = IF k = now THEN FALSE ELSE open[now]
    BY <1>t, <2>1 DEF TypeOK
  <2>3. \A c : Answered(c) => Answered(c)'
    <3>1. x \in Reply
      BY DEF Reply
    <3>2. \A c : AmongIds(c, Append(replies[now], x)) <=> AmongIds(c, replies[now]) \/ c = x.id
      <4> HIDE DEF x
      <4> QED BY <1>t, <3>1, AmongIdsAppend
    <3>3. replies'[now] = replies[now] \/ replies'[now] = Append(replies[now], x)
      BY <1>t, <2>1 DEF Respond, TypeOK
    <3> QED BY <2>1, <3>2, <3>3 DEF Answered
  <2>4. ASSUME NEW c \in Command, verdict'[c] = "waiting"
        PROVE  /\ Among(c, mainQ)' => serving'[now'] = c
               /\ done'[c] = "applied" =>
                     \/ serving'[now'] = c \/ Answered(c)'
                     \/ ~open'[now'] /\ serving'[now'] = Nobody
               /\ open'[now'] /\ ~jammed'[now'] => Out(c)'
    <3>s. serving'[now] = IF k = now THEN Nobody ELSE serving[now]
      BY <1>t, <2>1 DEF TypeOK
    <3>1. CASE k = now
      <4>1. Among(c, mainQ) => serving[now] = c /\ done[c] = "no"
        BY <1>w, <2>1, <2>4 DEF Among, Places
      <4>2. ~Among(c, mainQ)
        BY <2>1, <3>1, <4>1
      <4> QED BY <2>1, <2>2, <3>s, <3>1, <4>2
    <3>2. CASE k # now
      <4>1. replies' = replies /\ requests'[now] = requests[now]
        BY <1>t, <2>1, <3>2 DEF Respond, TypeOK
      <4>2. \A d : Answered(d)' <=> Answered(d)
        BY <2>1, <4>1 DEF Answered
      <4>3. Out(c)' <=> Out(c)
        BY <2>1, <3>s, <3>2, <4>1, <4>2 DEF Out
      <4> QED BY <1>w, <2>1, <2>2, <2>4, <3>s, <3>2, <4>2, <4>3
    <3> QED BY <3>1, <3>2
  <2> QED BY <2>4 DEF Waiting
<1>9. CASE MainThreadTask
  <2>1. PICK end : done' = [done EXCEPT ![Head(mainQ)] = end]
    BY <1>9 DEF MainThreadTask
  <2>2. /\ mainQ # <<>> /\ mainQ' = Tail(mainQ)
        /\ UNCHANGED <<now, verdict, requests, replies, open, jammed, serving>>
    BY <1>9 DEF MainThreadTask
  <2>3. \A c : Among(c, mainQ) <=> c = Head(mainQ) \/ Among(c, Tail(mainQ))
    BY <1>t, <2>2, AmongTail
  <2>4. \A c \in Command : c # Head(mainQ) => done'[c] = done[c]
    BY <2>1 DEF TypeOK
  <2>5. \A c : (Answered(c)' <=> Answered(c)) /\ (Out(c)' <=> Out(c))
    BY <2>2 DEF Answered, Out
  <2>6. \A c : Among(c, mainQ)' <=> Among(c, Tail(mainQ))
    BY <2>2
  <2> QED BY <1>w, <2>2, <2>3, <2>4, <2>5, <2>6 DEF Waiting
<1>10. CASE LiveExits
  <2>1. /\ \A k \in Conn : ~open'[k] /\ serving'[k] = Nobody
        /\ Len(mainQ') = 0 /\ UNCHANGED <<now, verdict, done>>
    BY <1>10 DEF LiveExits
  <2>4. \A c : ~Among(c, mainQ)'
    BY <2>1 DEF Among
  <2> QED BY <1>t, <2>1, <2>4 DEF Waiting
<1>11. CASE UNCHANGED vars
  BY <1>11 DEF vars, Waiting, Answered, Out
<1> QED BY <1>1, <1>2, <1>3, <1>4, <1>5, <1>6, <1>7, <1>8, <1>9, <1>10, <1>11
    DEF Next, Client, Bridge, Live

LEMMA BehindStep ==
    TypeOK /\ History /\ Places /\ Order /\ Stream /\ Waiting /\ Behind /\ [Next]_vars => Behind'
<1> SUFFICES ASSUME TypeOK, History, Places, Order, Stream, Waiting, Behind, [Next]_vars
             PROVE  Behind'
  OBVIOUS
<1> USE DEF liveVars, bridgeVars, clientVars
<1>t. /\ now \in Conn /\ replies[now] \in Seq(Reply)
      /\ \A k \in Conn : requests[k] \in Seq(Command)
      /\ \A c \in Command : at[c] \in Nat /\ at[c] <= clock /\ era[c] <= now /\ era[c] \in Nat
      /\ now \in Nat
  BY DEF TypeOK, History, Conn
<1>b. /\ Broken /\ open[now] /\ ~jammed[now] => \E e \in Command : Out(e) /\ verdict[e] # "waiting"
      /\ \A c \in Command : Broken /\ Out(c) /\ verdict[c] = "waiting" =>
            \E e \in Command : Out(e) /\ verdict[e] # "waiting"
  BY DEF Behind
\* The steps that neither tell a caller nor lose a request or a reply.
<1>1. ASSUME UNCHANGED <<now, verdict, era, open, jammed>>,
             \A c \in Command : Out(c)' <=> Out(c)
      PROVE  Behind'
  <2>1. Broken' <=> Broken
    BY <1>1 DEF Broken, Missed
  <2> QED BY <1>b, <1>1, <2>1 DEF Behind
\* The steps that close or jam the connection in use: what is left is in the stream.
<1>2. ASSUME UNCHANGED <<now, verdict, era>>, jammed'[now] \/ ~open'[now],
             \A c \in Command : Out(c)' => Answered(c),
             \A c \in Command : Answered(c) => Answered(c)'
      PROVE  Behind'
  <2>1. Broken' <=> Broken
    BY <1>2 DEF Broken, Missed
  <2>2. ASSUME NEW c \in Command, Broken, Out(c)', verdict'[c] = "waiting"
        PROVE  \E e \in Command : Out(e)' /\ verdict'[e] # "waiting"
    <3>1. PICK i \in 1..Len(replies[now]) : replies[now][i].id = c
      BY <1>2, <2>2 DEF Answered, AmongIds
    <3>2. PICK e \in Command : Out(e) /\ verdict[e] # "waiting"
      BY <1>2, <1>b, <2>2 DEF Out
    <3>3. Answered(e)
      <4>1. \E j \in 1..Len(replies[now]) : replies[now][j].id = e /\ j < i
        BY <1>2, <2>2, <3>1, <3>2, MissedIsAhead
      <4> QED BY <4>1 DEF Answered, AmongIds
    <3> QED BY <1>2, <3>2, <3>3 DEF Out
  <2> QED BY <1>2, <2>1, <2>2 DEF Behind
<1>3. CASE Reconnect
  <2>1. now' = now + 1 /\ era' = era
    BY <1>3 DEF Reconnect
  <2>2. ~Broken'
    BY <1>t, <2>1 DEF Broken, Missed
  <2> QED BY <2>2 DEF Behind
<1>4. ASSUME NEW c \in Command, Send(c) PROVE Behind'
  <2>1. /\ UNCHANGED <<now, replies, open, jammed, serving>> /\ at[c] = 0 /\ verdict'[c] = "waiting"
        /\ \A d \in Command : d # c => era'[d] = era[d] /\ verdict'[d] = verdict[d]
        /\ ~open[now] => requests'[now] = requests[now]
        /\ open[now] => requests'[now] = Append(requests[now], c)
        /\ \A d \in Command : verdict[d] # "waiting"
    BY <1>4, SendAt DEF Send
  <2>2. Broken' => Broken
    BY <2>1 DEF Broken, Missed
  <2>3. \A e \in Command : Out(e) => Out(e)' /\ e # c
    <3>1. ASSUME NEW e \in Command, Out(e) PROVE Out(e)' /\ e # c
      <4>1. e # c
        BY <2>1, <3>1, OutIsSent DEF Sent
      <4>2. Among(e, requests[now]) => Among(e, Append(requests[now], c))
        BY <1>t, AmongAppend
      <4>3. Among(e, requests[now]) => Among(e, requests[now])'
        BY <2>1, <4>2
      <4>4. Answered(e) => Answered(e)'
        BY <2>1 DEF Answered
      <4> QED BY <2>1, <3>1, <4>1, <4>3, <4>4 DEF Out
    <3> QED BY <3>1
  <2>4. ASSUME NEW d \in Command, Out(d)', verdict'[d] = "waiting", ~open[now] \/ jammed[now]
        PROVE  FALSE
    <3>1. d = c
      BY <2>1, <2>4
    <3>2. Answered(c)' => Answered(c)
      BY <2>1 DEF Answered
    <3>3. ~jammed[now] => requests'[now] = requests[now]
      BY <2>1, <2>4
    <3>4. Out(c)
      BY <2>1, <2>4, <3>1, <3>2, <3>3 DEF Out
    <3> QED BY <2>1, <3>4, OutIsSent DEF Sent
  <2> QED BY <1>b, <2>1, <2>2, <2>3, <2>4 DEF Behind
<1>5. ASSUME NEW c \in Command, Receive(c) \/ Timeout(c) \/ Disconnected(c) PROVE Behind'
  <2>1. /\ verdict[c] = "waiting" /\ UNCHANGED <<now, era, open, jammed, serving, requests>>
        /\ \E v \in Verdict \ {"waiting"} : verdict' = [verdict EXCEPT ![c] = v]
    BY <1>5 DEF Receive, Timeout, Disconnected, Reading, Verdict
  <2>2. \A d \in Command : verdict'[d] # "waiting" /\ (d # c => verdict'[d] = verdict[d])
    BY <2>1, OneWaiting DEF TypeOK
  <2>3. SUFFICES ASSUME Broken', open[now], ~jammed[now]
                 PROVE  \E e \in Command : Out(e)'
    BY <2>1, <2>2 DEF Behind
  <2>4. Out(c)
    BY <2>1, <2>3 DEF Waiting
  <2>5. CASE Timeout(c) \/ Disconnected(c)
    <3>1. replies' = replies
      BY <2>5 DEF Timeout, Disconnected
    <3> QED BY <2>1, <2>4, <3>1 DEF Out, Answered
  <2>6. CASE Receive(c)
    <3> DEFINE r == Head(replies[now])
    <3>1. /\ replies[now] # <<>> /\ verdict'[c] = Reading(c, r)
          /\ replies'[now] = Tail(replies[now])
      BY <1>t, <2>6 DEF Receive, TypeOK
    <3>2. 1 \in 1..Len(replies[now]) /\ r = replies[now][1] /\ r \in Reply
      BY <1>t, <3>1, TailAt
    <3>3. r.id # Nobody
      BY <2>3, <3>2 DEF Stream, Ended, Over
    <3>4. \A d : AmongIds(d, replies[now]) <=> d = r.id \/ AmongIds(d, Tail(replies[now]))
      BY <1>t, <3>1, AmongIdsTail
    <3>5. \A d : Out(d) /\ d # r.id => Out(d)'
      <4>1. \A d : Answered(d) /\ d # r.id => Answered(d)'
        BY <2>1, <3>1, <3>4 DEF Answered
      <4> QED BY <2>1, <4>1 DEF Out
    <3>6. CASE r.id # c
      BY <2>4, <3>5, <3>6
    <3>7. CASE r.id = c
      <4>1. verdict'[c] \in {"result", "refused"}
        BY <3>1, <3>7 DEF Reading
      <4>2. Broken
        BY <2>1, <2>2, <2>3, <4>1 DEF Broken, Missed
      <4>3. PICK e \in Command : Out(e) /\ verdict[e] # "waiting"
        BY <1>b, <2>3, <4>2
      <4> QED BY <2>1, <3>5, <3>7, <4>3
    <3> QED BY <3>6, <3>7
  <2> QED BY <1>5, <2>5, <2>6
<1>6. ASSUME NEW k \in Conn, TakeWrite(k) \/ TakeRead(k) \/ ReplyDone(k) \/ Abandon(k) PROVE Behind'
  <2>1. UNCHANGED <<now, verdict, era, open, jammed>>
    BY <1>6 DEF TakeWrite, TakeRead, ReplyDone, Abandon
  <2> QED BY <1>1, <1>6, <2>1, OutMoves
<1>7. ASSUME NEW k \in Conn, RunTogether(k) PROVE Behind'
  <2>1. /\ requests' = [requests EXCEPT ![k] = <<>>] /\ serving[k] = Nobody
        /\ UNCHANGED <<now, verdict, era, serving, open, replies>>
        /\ jammed'[k] /\ \A j \in Conn : j # k => jammed'[j] = jammed[j]
    BY <1>7 DEF RunTogether, Listening, TypeOK
  <2>2. \A d : Answered(d)' <=> Answered(d)
    BY <2>1 DEF Answered
  <2>3. CASE k # now
    <3>1. requests'[now] = requests[now] /\ jammed'[now] = jammed[now]
      BY <1>t, <2>1, <2>3 DEF TypeOK
    <3>2. (open' = open) /\ now' = now /\ verdict' = verdict /\ era' = era /\ serving' = serving
      BY <2>1
    <3>3. \A c \in Command : Out(c)' <=> Out(c)
      BY <2>2, <3>1, <3>2 DEF Out
    <3>4. Broken' <=> Broken
      BY <3>2 DEF Broken, Missed
    <3> QED BY <1>b, <3>1, <3>2, <3>3, <3>4 DEF Behind
  <2>4. CASE k = now
    <3>1. \A c \in Command : Out(c)' => Answered(c)
      BY <2>1, <2>2, <2>4 DEF Out
    <3> QED BY <1>2, <2>1, <2>2, <2>4, <3>1
  <2> QED BY <2>3, <2>4
<1>8. ASSUME NEW k \in Conn, Swallow(k) PROVE Behind'
  <2>1. /\ requests' = [requests EXCEPT ![k] = <<>>] /\ jammed[k]
        /\ UNCHANGED <<now, verdict, era, serving, open, jammed, replies>>
    BY <1>8 DEF Swallow
  <2>2. \A d : Answered(d)' <=> Answered(d)
    BY <2>1 DEF Answered
  <2>3. jammed[now] \/ requests'[now] = requests[now]
    BY <1>t, <2>1 DEF TypeOK
  <2>4. \A c \in Command : Out(c)' <=> Out(c)
    BY <2>1, <2>2, <2>3 DEF Out
  <2> QED BY <1>1, <2>1, <2>4
<1>9. ASSUME NEW k \in Conn, EndHandler(k) PROVE Behind'
  <2> DEFINE x == [id |-> Nobody, ok |-> FALSE]
  <2>1. /\ open' = [open EXCEPT ![k] = FALSE]
        /\ serving' = [serving EXCEPT ![k] = Nobody]
        /\ requests' = [requests EXCEPT ![k] = <<>>]
        /\ UNCHANGED <<now, verdict, era, jammed>>
        /\ Respond(k, x) \/ replies' = replies
    BY <1>9 DEF EndHandler
  <2>s. serving'[now] = IF k = now THEN Nobody ELSE serving[now]
    BY <1>t, <2>1 DEF TypeOK
  <2>2. CASE k # now
    <3>1. requests'[now] = requests[now] /\ open'[now] = open[now] /\ replies' = replies
      BY <1>t, <2>1, <2>2 DEF TypeOK, Respond
    <3>2. \A d : Answered(d)' <=> Answered(d)
      BY <2>1, <3>1 DEF Answered
    <3>3. \A c \in Command : Out(c)' <=> Out(c)
      BY <2>1, <2>s, <2>2, <3>1, <3>2 DEF Out
    <3>4. Broken' <=> Broken
      BY <2>1 DEF Broken, Missed
    <3> QED BY <1>b, <2>1, <3>1, <3>3, <3>4 DEF Behind
  <2>3. CASE k = now
    <3>1. x \in Reply /\ x.id = Nobody
      BY DEF Reply
    <3>2. \A c : AmongIds(c, Append(replies[now], x)) <=> AmongIds(c, replies[now]) \/ c = x.id
      <4> HIDE DEF x
      <4> QED BY <1>t, <3>1, AmongIdsAppend
    <3>3. replies'[now] = replies[now] \/ replies'[now] = Append(replies[now], x)
      BY <1>t, <2>1 DEF Respond, TypeOK
    <3>4. \A c \in Command : Answered(c)' <=> Answered(c)
      BY <2>1, <3>1, <3>2, <3>3 DEF Answered
    <3>5. requests'[now] = <<>> /\ ~open'[now]
      BY <1>t, <2>1, <2>3 DEF TypeOK
    <3>6. \A c : ~Among(c, requests[now])'
      BY <2>1, <3>5 DEF Among
    <3>7. \A c \in Command : Out(c)' => Answered(c)
      BY <2>1, <2>s, <2>3, <3>4, <3>6 DEF Out
    <3> QED BY <1>2, <2>1, <3>4, <3>5, <3>7
  <2> QED BY <2>2, <2>3
<1>10. CASE MainThreadTask
  <2>1. UNCHANGED <<now, verdict, era, open, jammed, serving, replies, requests>>
    BY <1>10 DEF MainThreadTask
  <2>2. \A c \in Command : Out(c)' <=> Out(c)
    BY <2>1 DEF Out, Answered
  <2> QED BY <1>1, <2>1, <2>2
<1>11. CASE LiveExits
  <2>1. /\ \A k \in Conn : ~open'[k] /\ serving'[k] = Nobody /\ Len(requests'[k]) = 0
        /\ UNCHANGED <<now, verdict, era, jammed>>
    BY <1>11 DEF LiveExits
  <2>2. \A c \in Command : Out(c)' => Answered(c)'
    BY <1>t, <2>1 DEF Out, Among
  <2>3. CASE replies' = replies
    <3>1. \A d : Answered(d)' <=> Answered(d)
      BY <2>1, <2>3 DEF Answered
    <3> QED BY <1>t, <1>2, <2>1, <2>2, <3>1
  <2>4. CASE replies' = [replies EXCEPT ![now] = <<>>]
    <3>1. Len(replies'[now]) = 0
      BY <1>t, <2>4 DEF TypeOK
    <3>2. \A d : ~Answered(d)'
      BY <2>1, <3>1 DEF Answered, AmongIds
    <3> QED BY <1>t, <2>1, <2>2, <3>2 DEF Behind
  <2> QED BY <1>11, <2>3, <2>4 DEF LiveExits
<1>12. CASE UNCHANGED vars
  <2>1. UNCHANGED <<now, verdict, era, open, jammed, serving, replies, requests>>
    BY <1>12 DEF vars
  <2>2. \A c \in Command : Out(c)' <=> Out(c)
    BY <2>1 DEF Out, Answered
  <2> QED BY <1>1, <2>1, <2>2
<1> QED BY <1>3, <1>4, <1>5, <1>6, <1>7, <1>8, <1>9, <1>10, <1>11, <1>12 DEF Next, Client, Bridge, Live

-----------------------------------------------------------------------------
(* What the callers were told.                                             *)

LEMMA FlightIsAmongNext ==
    ASSUME TypeOK', NEW c
    PROVE  InFlight(c)' <=> Among(c, mainQ)' \/ \E k \in Conn : Among(c, requests[k])'
<1>1. DOMAIN mainQ' = 1..Len(mainQ')
  BY DEF TypeOK
<1>2. \A k \in Conn : DOMAIN requests'[k] = 1..Len(requests'[k])
  BY DEF TypeOK
<1> QED BY <1>1, <1>2 DEF InFlight, Among

\* Only sending a command brings it to Live.
LEMMA FlightStep ==
    ASSUME TypeOK, TypeOK', [Next]_vars, NEW c \in Command, InFlight(c)'
    PROVE  InFlight(c) \/ Send(c)
<1> USE DEF liveVars, bridgeVars, clientVars
<1>t. /\ \A k \in Conn : requests[k] \in Seq(Command)
      /\ mainQ \in Seq(SideEffect)
  BY DEF TypeOK
<1>f. /\ InFlight(c) <=> Among(c, mainQ) \/ \E k \in Conn : Among(c, requests[k])
      /\ Among(c, mainQ)' \/ \E k \in Conn : Among(c, requests[k])'
  BY FlightIsAmong, FlightIsAmongNext
<1>1. ASSUME Among(c, mainQ)' => Among(c, mainQ) \/ \E k \in Conn : Among(c, requests[k]),
             \A k \in Conn : Among(c, requests[k])' => Among(c, requests[k])
      PROVE  InFlight(c)
  BY <1>1, <1>f
<1>2. ASSUME mainQ' = mainQ, requests' = requests PROVE InFlight(c)
  <2>1. Among(c, mainQ)' <=> Among(c, mainQ)
    BY <1>2
  <2>2. \A k \in Conn : Among(c, requests[k])' <=> Among(c, requests[k])
    BY <1>2
  <2> QED BY <1>1, <2>1, <2>2
<1>3. ASSUME NEW d \in Command, Send(d), d # c PROVE InFlight(c)
  <2>1. /\ mainQ' = mainQ /\ now \in Conn
        /\ requests' = IF open[now] THEN [requests EXCEPT ![now] = Append(@, d)] ELSE requests
    BY <1>3 DEF Send, TypeOK
  <2>2. \A k \in Conn : requests'[k] = requests[k] \/ requests'[k] = Append(requests[k], d)
    BY <1>t, <2>1 DEF TypeOK
  <2>3. \A k \in Conn : Among(c, Append(requests[k], d)) => Among(c, requests[k])
    BY <1>t, <1>3, AmongAppend
  <2>4. \A k \in Conn : Among(c, requests[k])' => Among(c, requests[k])
    BY <2>2, <2>3
  <2>5. Among(c, mainQ)' <=> Among(c, mainQ)
    BY <2>1
  <2> QED BY <1>1, <2>4, <2>5
<1>4. ASSUME NEW k \in Conn, TakeWrite(k) \/ TakeRead(k) PROVE InFlight(c)
  <2>1. /\ Listening(k) /\ requests' = [requests EXCEPT ![k] = Tail(@)]
        /\ mainQ' = mainQ \/ /\ mainQ' = Append(mainQ, Head(requests[k]))
                             /\ Head(requests[k]) \in SideEffect
    BY <1>4 DEF TakeWrite, TakeRead
  <2>2. requests[k] # <<>> /\ \A j \in Conn : requests'[j] = IF j = k THEN Tail(requests[k]) ELSE requests[j]
    BY <1>t, <2>1 DEF Listening, TypeOK
  <2>3. Among(c, requests[k]) <=> c = Head(requests[k]) \/ Among(c, Tail(requests[k]))
    BY <1>t, <2>2, AmongTail
  <2>4. \A j \in Conn : Among(c, requests[j])' => Among(c, requests[j])
    BY <2>2, <2>3
  <2>5. Among(c, mainQ)' => Among(c, mainQ) \/ c = Head(requests[k])
    <3>1. CASE mainQ' = mainQ
      BY <3>1
    <3>2. CASE mainQ' = Append(mainQ, Head(requests[k])) /\ Head(requests[k]) \in SideEffect
      <4>1. Among(c, Append(mainQ, Head(requests[k]))) => Among(c, mainQ) \/ c = Head(requests[k])
        BY <1>t, <3>2, AmongAppend
      <4> QED BY <3>2, <4>1
    <3> QED BY <2>1, <3>1, <3>2
  <2> QED BY <1>1, <2>3, <2>4, <2>5
<1>5. ASSUME NEW k \in Conn, RunTogether(k) \/ Swallow(k) \/ EndHandler(k) PROVE InFlight(c)
  <2>1. requests' = [requests EXCEPT ![k] = <<>>] /\ mainQ' = mainQ
    BY <1>5 DEF RunTogether, Swallow, EndHandler
  <2>2. \A j \in Conn : requests'[j] = requests[j] \/ requests'[j] = <<>>
    BY <1>t, <2>1 DEF TypeOK
  <2>3. \A j \in Conn : Among(c, requests[j])' => Among(c, requests[j])
    BY <2>2, AmongEmpty
  <2>4. Among(c, mainQ)' <=> Among(c, mainQ)
    BY <2>1
  <2> QED BY <1>1, <2>3, <2>4
<1>6. CASE MainThreadTask
  <2>1. mainQ # <<>> /\ mainQ' = Tail(mainQ) /\ requests' = requests
    BY <1>6 DEF MainThreadTask
  <2>2. Among(c, mainQ) <=> c = Head(mainQ) \/ Among(c, Tail(mainQ))
    BY <1>t, <2>1, AmongTail
  <2>3. Among(c, mainQ)' => Among(c, mainQ)
    BY <2>1, <2>2
  <2>4. \A k \in Conn : Among(c, requests[k])' <=> Among(c, requests[k])
    BY <2>1
  <2> QED BY <1>1, <2>3, <2>4
<1>7. CASE LiveExits
  <2>1. mainQ' = <<>> /\ \A k \in Conn : requests'[k] = <<>>
    BY <1>7 DEF LiveExits
  <2>2. ~Among(c, mainQ)' /\ \A k \in Conn : ~Among(c, requests[k])'
    BY <2>1, AmongEmpty
  <2> QED BY <1>f, <2>2
<1>8. CASE (\E d \in Command : Receive(d) \/ Timeout(d) \/ Disconnected(d)) \/ Reconnect
           \/ (\E k \in Conn : ReplyDone(k) \/ Abandon(k)) \/ UNCHANGED vars
  BY <1>2, <1>8 DEF Receive, Timeout, Disconnected, Reconnect, ReplyDone, Abandon, vars
<1> QED BY <1>3, <1>4, <1>5, <1>6, <1>7, <1>8 DEF Next, Client, Bridge, Live

\* Live ends a command once, while it holds it.
LEMMA DoneStep ==
    ASSUME TypeOK, Places, [Next]_vars, NEW c \in Command, done'[c] # done[c]
    PROVE  done[c] = "no" /\ InFlight(c)
<1> USE DEF liveVars, bridgeVars, clientVars
<1>1. ASSUME NEW k \in Conn, TakeRead(k) PROVE done[c] = "no" /\ InFlight(c)
  <2>1. PICK end : done' = [done EXCEPT ![Head(requests[k])] = end]
    BY <1>1 DEF TakeRead
  <2>2. Listening(k) /\ requests' = [requests EXCEPT ![k] = Tail(@)]
    BY <1>1 DEF TakeRead
  <2>3. Taken(k)
    BY <2>2, TakeAt
  <2>4. c = Head(requests[k])
    BY <2>1 DEF TypeOK
  <2>5. Among(c, requests[k]) /\ done[c] = "no"
    BY <2>3, <2>4 DEF Taken, Among, Places
  <2> QED BY <2>5, FlightIsAmong
<1>2. CASE MainThreadTask
  <2>1. PICK end : done' = [done EXCEPT ![Head(mainQ)] = end]
    BY <1>2 DEF MainThreadTask
  <2>2. mainQ # <<>> /\ mainQ \in Seq(SideEffect)
    BY <1>2 DEF MainThreadTask, TypeOK
  <2>3. Head(mainQ) = mainQ[1] /\ 1 \in 1..Len(mainQ)
    BY <2>2, TailAt
  <2>4. c = Head(mainQ)
    BY <2>1 DEF TypeOK
  <2>5. Among(c, mainQ) /\ done[c] = "no"
    BY <2>3, <2>4 DEF Among, Places
  <2> QED BY <2>5, FlightIsAmong
<1>3. CASE done' = done
  BY <1>3
<1> QED BY <1>1, <1>2, <1>3
    DEF Next, Client, Bridge, Live, Send, Receive, Timeout, Disconnected, Reconnect, TakeWrite,
        RunTogether, Swallow, ReplyDone, Abandon, EndHandler, LiveExits, vars

\* What the reply at the head of the stream says of the call in progress.
LEMMA ReadingIsTrue ==
    ASSUME TypeOK, History, Places, Order, Stream, Waiting, NEW c \in Command, Receive(c)
    PROVE  /\ Sent(c) /\ verdict' = [verdict EXCEPT ![c] = Reading(c, Head(replies[now]))]
           /\ Reading(c, Head(replies[now])) \in {"result", "refused", "mismatch"}
           /\ Reading(c, Head(replies[now])) = "result" =>
                 /\ done[c] = "applied" /\ 1 \in 1..Len(replies[now]) /\ replies[now][1].id = c
           /\ Reading(c, Head(replies[now])) = "refused" =>
                 ~InFlight(c) /\ (done[c] = "applied" => ~open[era[c]])
<1> DEFINE r == Head(replies[now])
<1>1. /\ verdict[c] = "waiting" /\ replies[now] # <<>> /\ now \in Conn
      /\ verdict' = [verdict EXCEPT ![c] = Reading(c, r)]
  BY DEF Receive, TypeOK
<1>2. replies[now] \in Seq(Reply) /\ 1 \in 1..Len(replies[now]) /\ r = replies[now][1] /\ r \in Reply
  <2>1. replies[now] \in Seq(Reply)
    BY <1>1 DEF TypeOK
  <2> QED BY <1>1, <2>1, TailAt
<1>3. Sent(c) /\ era[c] = now
  BY <1>1 DEF History, TypeOK, Sent
<1>4. Tells(r) /\ Ended(1)
  BY <1>2 DEF Stream
<1>5. ASSUME InFlight(c) PROVE done[c] = "no" /\ (Among(c, mainQ) \/ Among(c, requests[now]))
  <2>1. Among(c, mainQ) \/ \E k \in Conn : Among(c, requests[k])
    BY <1>5, FlightIsAmong
  <2>2. ASSUME NEW k \in Conn, Among(c, requests[k])
        PROVE  done[c] = "no" /\ Among(c, requests[now])
    BY <1>3, <2>2 DEF Among, Places
  <2>3. Among(c, mainQ) => done[c] = "no"
    BY DEF Among, Places
  <2> QED BY <2>1, <2>2, <2>3
<1>6. CASE r.id = c
  <2>1. /\ r.ok => done[c] = "applied"
        /\ ~r.ok => done[c] \in {"partial", "raised"}
    BY <1>1, <1>4, <1>6 DEF Tells
  <2>2. Reading(c, r) = IF r.ok THEN "result" ELSE "refused"
    BY <1>6 DEF Reading
  <2> QED BY <1>1, <1>2, <1>3, <1>5, <1>6, <2>1, <2>2
<1>7. CASE r.id = Nobody
  <2>1. ~r.ok /\ Len(replies[now]) = 1 /\ Over
    BY <1>2, <1>4, <1>7 DEF Ended
  <2>2. Reading(c, r) = "refused"
    BY <1>7, <2>1 DEF Reading
  <2>4. ~open[era[c]] /\ ~Among(c, mainQ)
    BY <1>1, <1>3, <2>1 DEF Waiting, Over
  <2>5. ~Among(c, requests[now])
    BY <2>1, AmongEmpty DEF Over
  <2> QED BY <1>1, <1>3, <1>5, <2>2, <2>4, <2>5
<1>8. CASE r.id \notin {c, Nobody}
  BY <1>1, <1>3, <1>8 DEF Reading
<1> QED BY <1>6, <1>7, <1>8

LEMMA ConnectedStep == TypeOK /\ History /\ Connected /\ [Next]_vars => Connected'
<1> SUFFICES ASSUME TypeOK, History, Connected, [Next]_vars PROVE Connected'
  OBVIOUS
<1> USE DEF liveVars, bridgeVars, clientVars
<1>1. ASSUME NEW c \in Command, Send(c) PROVE Connected'
  <2>1. /\ era'[c] = now /\ now \in Conn
        /\ \A d \in Command : d # c => verdict'[d] = verdict[d] /\ era'[d] = era[d]
    BY <1>1, SendAt DEF TypeOK
  <2> QED BY <2>1 DEF Connected
<1>2. ASSUME NEW c \in Command, Receive(c) \/ Timeout(c) \/ Disconnected(c) PROVE Connected'
  <2>1. /\ era' = era /\ verdict[c] = "waiting"
        /\ \A d \in Command : d # c => verdict'[d] = verdict[d]
    BY <1>2 DEF Receive, Timeout, Disconnected, TypeOK
  <2> QED BY <2>1 DEF Connected
<1>3. CASE \/ Reconnect \/ Bridge \/ Live \/ UNCHANGED vars
  <2>1. UNCHANGED <<verdict, era>>
    BY <1>3 DEF Reconnect, Bridge, TakeWrite, TakeRead, RunTogether, Swallow, ReplyDone,
                Abandon, EndHandler, Live, MainThreadTask, LiveExits, vars
  <2> QED BY <2>1 DEF Connected
<1> QED BY <1>1, <1>2, <1>3 DEF Next, Client

\* The bridge's end of a connection that was opened never opens again.
LEMMA OpenStep ==
    ASSUME TypeOK, [Next]_vars, NEW k \in Conn, k <= now
    PROVE  ~open[k] => ~open'[k]
<1> USE DEF liveVars, bridgeVars, clientVars
<1>1. CASE Reconnect
  <2>1. open' = [open EXCEPT ![now + 1] = TRUE] /\ k # now + 1 /\ open \in [Conn -> BOOLEAN]
    BY <1>1 DEF Reconnect, TypeOK, Conn
  <2> QED BY <2>1
<1>2. ASSUME NEW j \in Conn, EndHandler(j) PROVE ~open[k] => ~open'[k]
  BY <1>2 DEF EndHandler, TypeOK
<1>3. CASE LiveExits
  BY <1>3 DEF LiveExits
<1>4. CASE open' = open
  BY <1>4
<1> QED BY <1>1, <1>2, <1>3, <1>4
    DEF Next, Client, Bridge, Live, Send, Receive, Timeout, Disconnected, TakeWrite, TakeRead,
        RunTogether, Swallow, ReplyDone, Abandon, MainThreadTask, vars

LEMMA ToldStep ==
    ASSUME TypeOK, TypeOK', History, Connected, Places, Order, Stream, Waiting, Told,
           [Next]_vars
    PROVE  Told'
<1> USE DEF liveVars, bridgeVars, clientVars
<1>1. ASSUME NEW c \in Command, verdict'[c] \in {"refused", "result"},
             verdict[c] = verdict'[c]
      PROVE  /\ verdict'[c] = "refused" => ~InFlight(c)' /\ (done'[c] = "applied" => ~open'[era'[c]])
             /\ verdict'[c] = "result" => done'[c] = "applied"
  <2>1. verdict[c] # "none"
    BY <1>1
  <2>2. ~Send(c)
    BY <2>1 DEF Send
  <2>3. verdict[c] = "refused" => done'[c] = done[c] /\ ~InFlight(c)'
    BY <2>2, FlightStep, DoneStep DEF Told
  <2>4. verdict[c] = "result" => done'[c] = "applied"
    BY DoneStep DEF Told
  <2>5. era'[c] = era[c]
    <3>1. ASSUME NEW d \in Command, Send(d) PROVE era'[c] = era[c]
      BY <2>1, <3>1 DEF Send, TypeOK
    <3> QED BY <3>1 DEF Next, Client, Bridge, Live, Receive, Timeout, Disconnected, Reconnect,
          TakeWrite, TakeRead, RunTogether, Swallow, ReplyDone, Abandon, EndHandler,
          MainThreadTask, LiveExits, vars
  <2>6. era[c] \in Conn /\ era[c] <= now
    BY <2>1 DEF History, Connected
  <2>7. ~open[era[c]] => ~open'[era[c]]
    BY <2>6, OpenStep
  <2> QED BY <1>1, <2>3, <2>4, <2>5, <2>7 DEF Told
<1>2. ASSUME NEW c \in Command, verdict'[c] \in {"refused", "result"}, verdict[c] # verdict'[c]
      PROVE  /\ verdict'[c] = "refused" => ~InFlight(c)' /\ (done'[c] = "applied" => ~open'[era'[c]])
             /\ verdict'[c] = "result" => done'[c] = "applied"
  <2>1. PICK d \in Command : Send(d) \/ Receive(d) \/ Timeout(d) \/ Disconnected(d)
    BY <1>2 DEF Next, Client, Bridge, Live, Reconnect, TakeWrite, TakeRead,
        RunTogether, Swallow, ReplyDone, Abandon, EndHandler, MainThreadTask, LiveExits, vars
  <2>2. \E v : verdict' = [verdict EXCEPT ![d] = v]
    BY <2>1 DEF Send, Receive, Timeout, Disconnected
  <2>3. d = c
    BY <1>2, <2>2 DEF TypeOK
  <2>4. Receive(c)
    BY <1>2, <2>1, <2>3 DEF Send, Timeout, Disconnected, TypeOK
  <2>5. /\ done' = done /\ open' = open /\ era' = era /\ ~Send(c)
        /\ verdict'[c] = Reading(c, Head(replies[now]))
    BY <2>4 DEF Receive, Send, TypeOK
  <2> QED BY <2>4, <2>5, ReadingIsTrue, FlightStep
<1> QED BY <1>1, <1>2 DEF Told

-----------------------------------------------------------------------------
(* The theorems.                                                           *)

LEMMA CommandStep == CommandInv /\ [Next]_vars => CommandInv'
<1> SUFFICES ASSUME CommandInv, [Next]_vars PROVE CommandInv'
  OBVIOUS
<1>1. /\ TypeOK /\ History /\ Connected /\ Places /\ Order
      /\ Stream /\ Waiting /\ Behind /\ Told
  BY DEF CommandInv
<1>2. /\ TypeOK' /\ History' /\ Connected' /\ Places' /\ Order'
      /\ Stream' /\ Waiting' /\ Behind'
  BY <1>1, TypeStep, HistoryStep, ConnectedStep, PlacesStep, OrderStep, StreamStep,
     WaitingStep, BehindStep
<1>3. Told'
  BY <1>1, <1>2, ToldStep
<1> QED BY <1>2, <1>3 DEF CommandInv

LEMMA CommandCorrect == Spec => []CommandInv
  BY CommandInit, CommandStep, PTL DEF Spec

\* Every state of the adapter, of the bridge's handlers and of Live's queue is
\* of its type, whatever the commands and however many connections.
THEOREM CommandTypeOK == Spec => []TypeOK
<1>1. CommandInv => TypeOK
  BY DEF CommandInv
<1> QED BY <1>1, CommandCorrect, PTL

\* A write that _command ended with an error reply is over: no late task carries
\* it out afterwards. That it changed nothing the reply does not say: it may have
\* raised half way, and over a closed connection it may have been carried out.
THEOREM CommandRefusedIsOver == Spec => []RefusedIsOver
<1>1. CommandInv => RefusedIsOver
  BY DEF CommandInv, Told, RefusedIsOver
<1> QED BY <1>1, CommandCorrect, PTL

\* A call that _command ended with a result is one Live carried out: no reply to
\* an earlier call, left over in the stream, is ever read as its own.
THEOREM CommandResultIsOwn == Spec => []ResultIsOwn
<1>1. CommandInv => ResultIsOwn
  BY DEF CommandInv, Told, ResultIsOwn
<1> QED BY <1>1, CommandCorrect, PTL

-----------------------------------------------------------------------------
(* Why a failure is reported.                                              *)

\* What the bridge still answers is a call in progress, or one whose caller has
\* been told something other than its own reply.
Wanted ==
    \A c \in Command : Out(c) => verdict[c] \in {"waiting", "in_doubt", "no_reply", "mismatch"}

\* A write fails for want of a reply only over a connection the bridge has closed;
\* a call fails on a foreign id only after an earlier one missed its reply.
FailureHasCause ==
    /\ \A c \in SideEffect : verdict[c] = "no_reply" => ~open[era[c]]
    /\ \A c \in Command : verdict[c] = "mismatch" =>
          \E e \in Command : /\ verdict[e] \in {"in_doubt", "no_reply", "mismatch"}
                             /\ era[e] = era[c] /\ at[e] < at[c]

\* The connection of c has not failed it: it is open, and every call made on it
\* before c was answered with its own reply.
InStep(c) ==
    /\ open[era[c]]
    /\ \A e \in Command : at[e] > 0 /\ at[e] < at[c] /\ era[e] = era[c] =>
          verdict[e] \in {"result", "refused"}

LostAckInStepIsInDoubt ==
    \A c \in SideEffect : done[c] = "applied" /\ InStep(c) =>
        verdict[c] \in {"waiting", "result", "in_doubt"}

\* Reading its own reply, or the one without an id, takes a call out.
LEMMA ReadIsOut ==
    ASSUME TypeOK, History, Places, Stream, NEW c \in Command, Receive(c),
           verdict'[c] # "mismatch"
    PROVE  ~Out(c)'
<1> DEFINE r == Head(replies[now])
           t == Tail(replies[now])
<1>1. /\ replies[now] \in Seq(Reply) /\ replies[now] # <<>> /\ now' = now
      /\ UNCHANGED <<serving, jammed, requests>> /\ replies'[now] = t
      /\ verdict'[c] = Reading(c, r)
  BY DEF Receive, TypeOK
<1>2. /\ Len(replies[now]) \in Nat /\ Len(replies[now]) > 0 /\ Len(t) = Len(replies[now]) - 1
      /\ 1 \in 1..Len(replies[now]) /\ r = replies[now][1]
      /\ \A i \in 1..Len(t) : i + 1 \in 1..Len(replies[now]) /\ 1 < i + 1 /\ t[i] = replies[now][i + 1]
  BY <1>1, TailAt
<1>3. r.id \in {c, Nobody}
  BY <1>1 DEF Reading
<1>4. CASE r.id = Nobody
  <2>1. 1 = Len(replies[now]) /\ serving[now] = Nobody /\ requests[now] = <<>>
    BY <1>2, <1>4 DEF Stream, Ended, Over
  <2>2. ~AmongIds(c, t)
    BY <1>2, <2>1 DEF AmongIds
  <2> QED BY <1>1, <2>1, <2>2, AmongEmpty DEF Out, Answered
<1>5. CASE r.id = c
  <2>1. Tells(r) /\ c # Nobody
    BY <1>2 DEF Stream
  <2>2. Ahead(c) /\ at[c] \in Nat
    BY <1>5, <2>1 DEF Tells, TypeOK
  <2>3. serving[now] # c /\ ~Among(c, requests[now])
    BY <2>1, <2>2 DEF Ahead, Among
  <2>4. ASSUME NEW i \in 1..Len(t), t[i].id = c PROVE FALSE
    <3>1. i + 1 \in 1..Len(replies[now]) /\ 1 < i + 1 /\ replies[now][i + 1].id = c
      BY <1>2, <2>4
    <3>2. at[replies[now][1].id] < at[replies[now][i + 1].id]
      BY <1>2, <2>1, <3>1 DEF Stream
    <3> QED BY <1>2, <1>5, <2>2, <3>1, <3>2
  <2>5. ~AmongIds(c, t)
    BY <2>4 DEF AmongIds
  <2> QED BY <1>1, <2>3, <2>5 DEF Out, Answered
<1> QED BY <1>3, <1>4, <1>5

LEMMA WantedStep ==
    TypeOK /\ History /\ Places /\ Stream /\ Wanted /\ [Next]_vars => Wanted'
<1> SUFFICES ASSUME TypeOK, History, Places, Stream, Wanted, [Next]_vars PROVE Wanted'
  OBVIOUS
<1> USE DEF liveVars, bridgeVars, clientVars
<1>t. /\ now \in Conn /\ replies[now] \in Seq(Reply) /\ requests[now] \in Seq(Command)
      /\ now \in Nat /\ \A c \in Command : era[c] <= now /\ era[c] \in Nat
  BY DEF TypeOK, History, Conn
\* The steps that tell no caller and send nothing.
<1>1. ASSUME verdict' = verdict, \A c \in Command : Out(c)' => Out(c) PROVE Wanted'
  BY <1>1 DEF Wanted
<1>2. CASE Reconnect
  <2>1. /\ now' = now + 1 /\ now' \in Conn /\ now' # now
        /\ UNCHANGED <<requests, serving, jammed, era>>
        /\ replies' = [replies EXCEPT ![now] = <<>>]
    BY <1>t, <1>2 DEF Reconnect, Conn
  <2>2. replies'[now'] = <<>>
    BY <2>1 DEF Stream, TypeOK
  <2>3. ASSUME NEW c \in Command, Out(c)' PROVE FALSE
    <3>1. serving[now'] = c \/ Among(c, requests[now'])
      BY <2>1, <2>2, <2>3, AmongEmpty DEF Out, Answered
    <3>2. era[c] = now'
      BY <2>1, <3>1 DEF Places, Among
    <3> QED BY <1>t, <2>1, <3>2
  <2> QED BY <2>3 DEF Wanted
<1>3. ASSUME NEW c \in Command, Send(c) PROVE Wanted'
  <2>1. /\ UNCHANGED <<now, replies, jammed, serving>> /\ verdict'[c] = "waiting"
        /\ \A d \in Command : d # c => verdict'[d] = verdict[d]
        /\ ~open[now] => requests'[now] = requests[now]
        /\ open[now] => requests'[now] = Append(requests[now], c)
    BY <1>3, <1>t, SendAt DEF Send
  <2>2. ASSUME NEW d \in Command, Out(d)', d # c PROVE Out(d)
    <3>1. Among(d, Append(requests[now], c)) => Among(d, requests[now])
      BY <1>t, <2>2, AmongAppend
    <3>2. Among(d, requests[now])' => Among(d, requests[now])
      BY <2>1, <3>1
    <3> QED BY <2>1, <2>2, <3>2 DEF Out, Answered
  <2> QED BY <2>1, <2>2 DEF Wanted
<1>4. ASSUME NEW c \in Command, Timeout(c) \/ Disconnected(c) PROVE Wanted'
  <2>1. /\ UNCHANGED <<now, replies, jammed, serving, requests>>
        /\ \E v \in {"in_doubt", "no_reply"} : verdict' = [verdict EXCEPT ![c] = v]
    BY <1>4 DEF Timeout, Disconnected
  <2>2. \A d \in Command : Out(d)' => Out(d)
    BY <2>1 DEF Out, Answered
  <2> QED BY <2>1, <2>2 DEF Wanted, TypeOK
<1>5. ASSUME NEW c \in Command, Receive(c) PROVE Wanted'
  <2>1. /\ UNCHANGED <<now, jammed, serving, requests>>
        /\ replies[now] # <<>> /\ replies'[now] = Tail(replies[now])
        /\ \A d \in Command : d # c => verdict'[d] = verdict[d]
    BY <1>t, <1>5 DEF Receive, TypeOK
  <2>2. \A d : AmongIds(d, Tail(replies[now])) => AmongIds(d, replies[now])
    BY <1>t, <2>1, AmongIdsTail
  <2>3. \A d \in Command : Out(d)' => Out(d)
    BY <2>1, <2>2 DEF Out, Answered
  <2>4. Out(c)' => verdict'[c] = "mismatch"
    BY <1>5, ReadIsOut
  <2> QED BY <2>1, <2>3, <2>4 DEF Wanted
<1>6. ASSUME NEW k \in Conn, TakeWrite(k) \/ TakeRead(k) \/ ReplyDone(k) \/ Abandon(k) PROVE Wanted'
  <2>1. verdict' = verdict
    BY <1>6 DEF TakeWrite, TakeRead, ReplyDone, Abandon
  <2> QED BY <1>1, <1>6, <2>1, OutMoves
<1>7. ASSUME NEW k \in Conn, RunTogether(k) \/ Swallow(k) PROVE Wanted'
  <2>1. /\ UNCHANGED <<now, verdict, serving, replies>>
        /\ requests' = [requests EXCEPT ![k] = <<>>]
        /\ jammed' = [jammed EXCEPT ![k] = TRUE] \/ jammed' = jammed
    BY <1>7 DEF RunTogether, Swallow
  <2>2. \/ requests'[now] = <<>>
        \/ requests'[now] = requests[now] /\ jammed'[now] = jammed[now]
    BY <1>t, <2>1 DEF TypeOK
  <2>3. \A c \in Command : Out(c)' => Out(c)
    BY <2>1, <2>2, AmongEmpty DEF Out, Answered
  <2> QED BY <1>1, <2>1, <2>3
<1>8. ASSUME NEW k \in Conn, EndHandler(k) PROVE Wanted'
  <2> DEFINE x == [id |-> Nobody, ok |-> FALSE]
  <2>1. /\ requests' = [requests EXCEPT ![k] = <<>>]
        /\ serving' = [serving EXCEPT ![k] = Nobody]
        /\ UNCHANGED <<now, verdict, jammed>>
        /\ Respond(k, x) \/ replies' = replies
    BY <1>8 DEF EndHandler
  <2>2. x \in Reply /\ x.id = Nobody
    BY DEF Reply
  <2>3. \A c : AmongIds(c, Append(replies[now], x)) <=> AmongIds(c, replies[now]) \/ c = x.id
    <3> HIDE DEF x
    <3> QED BY <1>t, <2>2, AmongIdsAppend
  <2>4. replies'[now] = replies[now] \/ replies'[now] = Append(replies[now], x)
    BY <1>t, <2>1 DEF Respond, TypeOK
  <2>5. \A c \in Command : Answered(c)' => Answered(c)
    BY <2>1, <2>2, <2>3, <2>4 DEF Answered
  <2>6. requests'[now] = <<>> \/ requests'[now] = requests[now]
    BY <1>t, <2>1 DEF TypeOK
  <2>7. \A c \in Command : Out(c)' => Out(c)
    BY <2>1, <2>5, <2>6, AmongEmpty DEF Out
  <2> QED BY <1>1, <2>1, <2>7
<1>9. CASE LiveExits
  <2>1. /\ UNCHANGED <<now, verdict, jammed>> /\ serving'[now] = Nobody /\ requests'[now] = <<>>
        /\ replies'[now] = replies[now] \/ replies'[now] = <<>>
    BY <1>9, <1>t DEF LiveExits, TypeOK
  <2>2. \A c \in Command : Out(c)' => Out(c)
    BY <2>1, AmongEmpty DEF Out, Answered
  <2> QED BY <1>1, <2>1, <2>2
<1>10. CASE MainThreadTask \/ UNCHANGED vars
  <2>1. UNCHANGED <<now, verdict, jammed, serving, replies, requests>>
    BY <1>10 DEF MainThreadTask, vars
  <2>2. \A c \in Command : Out(c)' => Out(c)
    BY <2>1 DEF Out, Answered
  <2> QED BY <1>1, <2>1, <2>2
<1> QED BY <1>2, <1>3, <1>4, <1>5, <1>6, <1>7, <1>8, <1>9, <1>10 DEF Next, Client, Bridge, Live

LEMMA CauseStep ==
    /\ TypeOK /\ History /\ Places /\ Stream /\ Wanted /\ Connected
    /\ FailureHasCause /\ [Next]_vars
    => FailureHasCause'
<1> SUFFICES ASSUME TypeOK, History, Places, Stream, Wanted, Connected, FailureHasCause,
                    [Next]_vars
             PROVE  FailureHasCause'
  OBVIOUS
<1> USE DEF liveVars, bridgeVars, clientVars
<1> DEFINE Missing == {"in_doubt", "no_reply", "mismatch"}
<1>t. /\ now \in Nat /\ \A c \in Command : at[c] \in Nat /\ at[c] <= clock /\ era[c] <= now
      /\ \A c \in Command : era[c] \in Nat
  BY DEF TypeOK, History, Conn
\* The steps that tell no caller: they open no connection a call was made on.
<1>1. ASSUME UNCHANGED <<verdict, at, era>>, \A c \in Command : era[c] \in Conn /\ open'[era[c]] => open[era[c]]
      PROVE  FailureHasCause'
  BY <1>1 DEF FailureHasCause, Connected, TypeOK
<1>2. CASE Reconnect
  <2>1. UNCHANGED <<verdict, at, era>> /\ open' = [open EXCEPT ![now + 1] = TRUE]
    BY <1>2 DEF Reconnect
  <2>2. \A c \in Command : era[c] # now + 1
    BY <1>t
  <2> QED BY <1>1, <2>1, <2>2 DEF TypeOK
<1>3. ASSUME NEW c \in Command, Send(c) PROVE FailureHasCause'
  <2>1. /\ verdict'[c] = "waiting" /\ verdict[c] = "none" /\ open' = open
        /\ \A d \in Command : d # c =>
              verdict'[d] = verdict[d] /\ at'[d] = at[d] /\ era'[d] = era[d]
    BY <1>3, SendAt DEF Send
  <2>2. \A e \in Command : verdict[e] \in Missing => e # c
    BY <2>1
  <2> QED BY <2>1, <2>2 DEF FailureHasCause
\* The steps that tell a caller.
<1>4. ASSUME NEW c \in Command, verdict[c] = "waiting", UNCHANGED <<at, era, open>>,
             \A d \in Command : d # c => verdict'[d] = verdict[d],
             c \in SideEffect /\ verdict'[c] = "no_reply" => ~open[era[c]],
             verdict'[c] = "mismatch" =>
                \E e \in Command : verdict[e] \in Missing /\ era[e] = era[c] /\ at[e] < at[c]
      PROVE  FailureHasCause'
  <2>1. \A e \in Command : verdict[e] \in Missing => verdict'[e] = verdict[e]
    BY <1>4
  <2>2. \A d \in SideEffect : verdict'[d] = "no_reply" => ~open'[era'[d]]
    BY <1>4 DEF FailureHasCause
  <2>3. ASSUME NEW d \in Command, verdict'[d] = "mismatch"
        PROVE  \E e \in Command : verdict'[e] \in Missing /\ era'[e] = era'[d] /\ at'[e] < at'[d]
    <3>1. PICK e \in Command : verdict[e] \in Missing /\ era[e] = era[d] /\ at[e] < at[d]
      BY <1>4, <2>3 DEF FailureHasCause
    <3> QED BY <1>4, <2>1, <3>1
  <2> QED BY <2>2, <2>3 DEF FailureHasCause
<1>5. ASSUME NEW c \in Command, Timeout(c) \/ Disconnected(c) PROVE FailureHasCause'
  <2>1. /\ verdict[c] = "waiting" /\ UNCHANGED <<at, era, open>>
        /\ \A d \in Command : d # c => verdict'[d] = verdict[d]
        /\ verdict'[c] \in {"in_doubt", "no_reply"}
        /\ c \in SideEffect /\ verdict'[c] = "no_reply" => ~open[now]
    BY <1>5 DEF Timeout, Disconnected, TypeOK
  <2>2. era[c] = now
    BY <2>1 DEF History
  <2> QED BY <1>4, <2>1, <2>2
<1>6. ASSUME NEW c \in Command, Receive(c) PROVE FailureHasCause'
  <2> DEFINE r == Head(replies[now])
  <2>1. /\ verdict[c] = "waiting" /\ UNCHANGED <<at, era, open>>
        /\ \A d \in Command : d # c => verdict'[d] = verdict[d]
        /\ verdict'[c] = Reading(c, r) /\ replies[now] # <<>> /\ replies[now] \in Seq(Reply)
    BY <1>6 DEF Receive, TypeOK
  <2>2. verdict'[c] # "no_reply"
    BY <2>1 DEF Reading
  <2>3. ASSUME verdict'[c] = "mismatch"
        PROVE  \E e \in Command : verdict[e] \in Missing /\ era[e] = era[c] /\ at[e] < at[c]
    <3>1. r.id \notin {c, Nobody} /\ r \in Reply
      BY <2>1, <2>3, TailAt DEF Reading
    <3>2. r.id \in Command
      BY <3>1 DEF Reply
    <3>3. Out(r.id)
      BY <2>1, AmongIdsTail DEF Out, Answered
    <3>4. verdict[r.id] # "waiting"
      BY <2>1, <3>1, <3>2, OneWaiting
    <3>5. verdict[r.id] \in Missing
      BY <3>2, <3>3, <3>4 DEF Wanted
    <3>6. Sent(r.id) /\ era[r.id] = now
      BY <3>2, <3>3, OutIsSent
    <3>7. at[c] = clock /\ era[c] = now
      BY <2>1 DEF History
    <3>8. at[r.id] # at[c]
      BY <3>1, <3>2, <3>6 DEF History, Sent
    <3>9. at[r.id] < at[c]
      BY <1>t, <3>2, <3>7, <3>8
    <3> QED BY <3>2, <3>5, <3>6, <3>7, <3>9
  <2> QED BY <1>4, <2>1, <2>2, <2>3
<1>7. ASSUME NEW k \in Conn, EndHandler(k) PROVE FailureHasCause'
  <2>1. UNCHANGED <<verdict, at, era>> /\ open' = [open EXCEPT ![k] = FALSE]
    BY <1>7 DEF EndHandler
  <2> QED BY <1>1, <2>1 DEF TypeOK
<1>8. ASSUME NEW k \in Conn, \/ TakeWrite(k) \/ TakeRead(k) \/ RunTogether(k) \/ Swallow(k)
                             \/ ReplyDone(k) \/ Abandon(k)
      PROVE  FailureHasCause'
  <2>1. UNCHANGED <<verdict, at, era, open>>
    BY <1>8 DEF TakeWrite, TakeRead, RunTogether, Swallow, ReplyDone, Abandon
  <2> QED BY <1>1, <2>1
<1>9. CASE LiveExits
  <2>1. UNCHANGED <<verdict, at, era>> /\ open' = [k \in Conn |-> FALSE]
    BY <1>9 DEF LiveExits
  <2> QED BY <1>1, <2>1
<1>10. CASE MainThreadTask \/ UNCHANGED vars
  <2>1. UNCHANGED <<verdict, at, era, open>>
    BY <1>10 DEF MainThreadTask, vars
  <2> QED BY <1>1, <2>1
<1> QED BY <1>2, <1>3, <1>5, <1>6, <1>7, <1>8, <1>9, <1>10 DEF Next, Client, Bridge, Live

\* When _command reports a write as failed for want of a reply, the bridge has
\* closed the connection it was sent over; when it reports a mismatched id, an
\* earlier call on that connection had missed its own reply. In particular no
\* stray reply is ever met on a connection that lost nothing.
THEOREM CommandFailureHasCause == Spec => []FailureHasCause
<1>1. Init => Wanted /\ FailureHasCause
  BY AmongEmpty DEF Init, Wanted, FailureHasCause, Out, Answered, Conn
<1>2. CommandInv /\ Wanted /\ FailureHasCause /\ [Next]_vars => Wanted' /\ FailureHasCause'
  BY WantedStep, CauseStep DEF CommandInv
<1> QED BY <1>1, <1>2, CommandCorrect, PTL DEF Spec

\* Where "Lost ack after dispatch is IN_DOUBT" (SAFETY_INVARIANTS.md, 8) is true:
\* of a write that Live carried out, as long as its connection is open and each
\* earlier call on it got its own reply, _command never says that it failed.
THEOREM CommandLostAckInStep == Spec => []LostAckInStepIsInDoubt
<1>1. CommandInv /\ FailureHasCause => LostAckInStepIsInDoubt
  <2> SUFFICES ASSUME CommandInv, FailureHasCause,
                      NEW c \in SideEffect, done[c] = "applied", InStep(c)
               PROVE  verdict[c] \in {"waiting", "result", "in_doubt"}
    BY DEF LostAckInStepIsInDoubt
  <2>1. c \in Command /\ verdict[c] \in Verdict
    BY DEF CommandInv, TypeOK
  <2>2. verdict[c] # "none"
    BY <2>1 DEF CommandInv, History, Places
  <2>3. verdict[c] # "refused"
    BY <2>1 DEF CommandInv, Told, InStep
  <2>4. verdict[c] # "no_reply"
    BY DEF FailureHasCause, InStep
  <2>5. verdict[c] # "mismatch"
    <3>1. SUFFICES ASSUME verdict[c] = "mismatch" PROVE FALSE
      OBVIOUS
    <3>2. PICK e \in Command : /\ verdict[e] \in {"in_doubt", "no_reply", "mismatch"}
                               /\ era[e] = era[c] /\ at[e] < at[c]
      BY <2>1, <3>1 DEF FailureHasCause
    <3>3. at[e] > 0
      BY <3>2 DEF CommandInv, History, TypeOK
    <3> QED BY <3>2, <3>3 DEF InStep
  <2> QED BY <2>1, <2>2, <2>3, <2>4, <2>5 DEF Verdict
<1> QED BY <1>1, CommandCorrect, CommandFailureHasCause, PTL

-----------------------------------------------------------------------------
(* The refinement of LiveLink.                                             *)

LEMMA RefinesInit == Init => Contract!LinkInit
<1> SUFFICES ASSUME Init PROVE Contract!LinkInit
  OBVIOUS
<1>1. [c \in Command |-> VerdictOf(c)] = [c \in Command |-> "none"]
  BY DEF Init, VerdictOf
<1>2. [c \in Command |-> FateOf(c)] = [c \in Command |-> "unsent"]
  <2>1. \A c \in Command : at[c] = 0 /\ done[c] = "no" /\ ~InFlight(c)
    BY DEF Init, InFlight
  <2>2. \A c \in Command : FateOf(c) = "unsent"
    BY <2>1 DEF FateOf
  <2> QED BY <2>2
<1> QED BY <1>1, <1>2 DEF Init, Contract!LinkInit

\* How a command that changed something in Live ended.
Effect == {"applied", "partial"}

\* Commands that leave Live without having changed anything are discarded together.
LEMMA DiscardStep ==
    ASSUME TypeOK, TypeOK', UNCHANGED <<now, verdict, at, era, clock>>,
           \A c \in Command : /\ InFlight(c)' => InFlight(c)
                              /\ done[c] \in Effect \/ done'[c] \in Effect => done'[c] = done[c]
    PROVE  [Contract!LinkNext]_(Contract!linkVars)
<1> DEFINE lost == {c \in Command : FateOf(c) # FateOf(c)'}
<1>1. \A c \in Command : VerdictOf(c)' = VerdictOf(c)
  BY DEF VerdictOf
<1>2. \A c \in Command : c \in lost => FateOf(c) = "pending" /\ FateOf(c)' = "untouched"
  <2>1. ASSUME NEW c \in Command, FateOf(c) # FateOf(c)'
        PROVE  FateOf(c) = "pending" /\ FateOf(c)' = "untouched"
    <3>1. at'[c] = at[c]
      OBVIOUS
    <3>2. /\ InFlight(c)' => InFlight(c)
          /\ done[c] \in Effect \/ done'[c] \in Effect => done'[c] = done[c]
      OBVIOUS
    <3> QED BY <2>1, <3>1, <3>2 DEF FateOf, Effect
  <2> QED BY <2>1
<1>3. [c \in Command |-> VerdictOf(c)]' = [c \in Command |-> VerdictOf(c)]
  BY <1>1
<1>4. CASE lost = {}
  <2>1. \A c \in Command : FateOf(c)' = FateOf(c)
    BY <1>4
  <2>2. [c \in Command |-> FateOf(c)]' = [c \in Command |-> FateOf(c)]
    BY <2>1
  <2> QED BY <1>3, <2>2 DEF Contract!linkVars
<1>5. CASE lost # {}
  <2>1. [c \in Command |-> FateOf(c)]' =
           [c \in Command |-> IF c \in lost THEN "untouched" ELSE FateOf(c)]
    <3>1. \A c \in Command : FateOf(c)' = IF c \in lost THEN "untouched" ELSE FateOf(c)
      BY <1>2
    <3> QED BY <3>1
  <2>2. Contract!Discard(lost)
    BY <1>2, <1>3, <1>5, <2>1 DEF Contract!Discard
  <2>3. lost \in SUBSET Command
    OBVIOUS
  <2> QED BY <2>2, <2>3 DEF Contract!LinkNext, Contract!Settle
<1> QED BY <1>4, <1>5

FateIs ==
    \A c \in Command :
        /\ at[c] = 0 => FateOf(c) = "unsent" /\ ~InFlight(c)
        /\ at[c] > 0 /\ done[c] \in Effect => FateOf(c) = done[c]
        /\ at[c] > 0 /\ InFlight(c) => FateOf(c) = "pending"
        /\ at[c] > 0 /\ done[c] \notin Effect /\ ~InFlight(c) => FateOf(c) = "untouched"

LEMMA FateValue == CommandInv => FateIs
<1> SUFFICES ASSUME CommandInv, NEW c \in Command
             PROVE  /\ at[c] = 0 => FateOf(c) = "unsent" /\ ~InFlight(c)
                    /\ at[c] > 0 /\ done[c] \in Effect => FateOf(c) = done[c]
                    /\ at[c] > 0 /\ InFlight(c) => FateOf(c) = "pending"
                    /\ at[c] > 0 /\ done[c] \notin Effect /\ ~InFlight(c)
                          => FateOf(c) = "untouched"
  BY DEF FateIs
<1>1. TypeOK /\ Places /\ at[c] \in Nat
  BY DEF CommandInv, TypeOK
<1>2. InFlight(c) => done[c] = "no" /\ at[c] > 0
  BY <1>1, FlightIsAmong DEF Places, Among, Sent
<1>3. at[c] = 0 => done[c] = "no"
  BY <1>1 DEF Places
<1> QED BY <1>1, <1>2, <1>3 DEF FateOf, Effect

\* Running the oldest write of its connection, or a read, is Run.
LEMMA RunStep ==
    ASSUME CommandInv, FateIs, FateIs', UNCHANGED <<now, verdict, at, era, clock>>,
           NEW end \in Effect,
           NEW c \in Command, done[c] = "no", done' = [done EXCEPT ![c] = end],
           Sent(c), InFlight(c), \A d \in Command : d # c => (InFlight(d)' <=> InFlight(d)),
           c \in SideEffect =>
              \A d \in SideEffect : era[d] = era[c] /\ at[d] < at[c] => ~InFlight(d)
    PROVE  Contract!Run(c, end)
<1>1. done \in [Command -> End \cup {"no"}] /\ at \in [Command -> Nat]
  BY DEF CommandInv, TypeOK
<1>2. FateOf(c) = "pending" /\ FateOf(c)' = end
  BY <1>1 DEF FateIs, Sent
<1>3. ASSUME NEW d \in Command, d # c PROVE FateOf(d)' = FateOf(d)
  <2>1. /\ done'[d] = done[d] /\ at'[d] = at[d] /\ (InFlight(d)' <=> InFlight(d))
        /\ at[d] = 0 \/ at[d] > 0
    BY <1>1, <1>3
  <2> QED BY <2>1 DEF FateIs
<1>4. [d \in Command |-> FateOf(d)]' = [[d \in Command |-> FateOf(d)] EXCEPT ![c] = end]
  BY <1>2, <1>3
<1>5. [d \in Command |-> VerdictOf(d)]' = [d \in Command |-> VerdictOf(d)]
  BY DEF VerdictOf
<1>6. ASSUME NEW d \in SideEffect, c \in SideEffect, era[d] = era[c], at[d] < at[c]
      PROVE  FateOf(d) # "pending"
  <2>1. ~InFlight(d) /\ d \in Command /\ (at[d] = 0 \/ at[d] > 0)
    BY <1>1, <1>6
  <2> QED BY <2>1 DEF FateIs, Effect
<1>7. \A d \in SideEffect : d \in Command
  OBVIOUS
<1> QED BY <1>2, <1>4, <1>5, <1>6, <1>7 DEF Contract!Run

LEMMA RefinesStep ==
    ASSUME CommandInv, CommandInv', FateIs, FateIs', [Next]_vars
    PROVE  [Contract!LinkNext]_(Contract!linkVars)
<1> USE DEF liveVars, bridgeVars, clientVars
<1>t. /\ TypeOK /\ TypeOK' /\ History /\ Places /\ Order /\ Stream /\ Waiting /\ Behind
      /\ mainQ \in Seq(SideEffect) /\ at \in [Command -> Nat]
      /\ \A k \in Conn : requests[k] \in Seq(Command)
      /\ done \in [Command -> End \cup {"no"}]
  BY DEF CommandInv, TypeOK
<1>i. Idle => \A c \in Command : VerdictOf(c) # "waiting"
  BY DEF Idle, VerdictOf
<1>1. CASE Reconnect
  <2>1. /\ Idle /\ now < MaxConn /\ now' = now + 1
        /\ UNCHANGED <<verdict, at, era, clock, requests, mainQ, done>>
    BY <1>1 DEF Reconnect
  <2>2. [c \in Command |-> VerdictOf(c)]' = [c \in Command |-> VerdictOf(c)]
    BY <2>1 DEF VerdictOf
  <2>3. [c \in Command |-> FateOf(c)]' = [c \in Command |-> FateOf(c)]
    BY <2>1 DEF FateOf, InFlight
  <2>4. Contract!Reconnect
    BY <1>i, <2>1, <2>2, <2>3 DEF Contract!Reconnect, Contract!Idle
  <2> QED BY <2>4 DEF Contract!LinkNext
<1>2. ASSUME NEW c \in Command, Send(c) PROVE [Contract!LinkNext]_(Contract!linkVars)
  <2>1. /\ Idle /\ verdict[c] = "none" /\ verdict' = [verdict EXCEPT ![c] = "waiting"]
        /\ clock' = clock + 1 /\ at' = [at EXCEPT ![c] = clock + 1] /\ era' = [era EXCEPT ![c] = now]
        /\ UNCHANGED <<now, mainQ, done>>
    BY <1>2 DEF Send
  <2>2. /\ at[c] = 0 /\ at'[c] > 0
        /\ \A d \in Command : d # c => at'[d] = at[d] /\ verdict'[d] = verdict[d]
    <3>1. /\ at[c] = 0 /\ at'[c] = clock + 1 /\ clock \in Nat
          /\ \A d \in Command : d # c => at'[d] = at[d] /\ verdict'[d] = verdict[d]
      BY <1>2, <1>t, SendAt
    <3> QED BY <3>1
  <2>3. [d \in Command |-> VerdictOf(d)]' = [[d \in Command |-> VerdictOf(d)] EXCEPT ![c] = "waiting"]
    <3>1. VerdictOf(c)' = "waiting"
      BY <1>t, <2>1 DEF VerdictOf, TypeOK
    <3>2. \A d \in Command : d # c => VerdictOf(d)' = VerdictOf(d)
      BY <2>2 DEF VerdictOf
    <3> QED BY <3>1, <3>2
  <2>4. ASSUME NEW d \in Command, d # c PROVE FateOf(d)' = FateOf(d)
    <3>1. done'[d] = done[d] /\ at'[d] = at[d] /\ (at[d] = 0 \/ at[d] > 0)
      BY <1>t, <2>1, <2>2, <2>4
    <3>2. InFlight(d)' => InFlight(d)
      <4>1. ~Send(d)
        BY <1>t, <2>1, <2>4 DEF Send, TypeOK
      <4> QED BY <1>t, <4>1, FlightStep
    <3>3. InFlight(d) => InFlight(d)'
      <4>1. Among(d, mainQ)' <=> Among(d, mainQ)
        BY <2>1
      <4>2. ASSUME NEW k \in Conn, Among(d, requests[k]) PROVE Among(d, requests[k])'
        <5>1. requests'[k] = requests[k] \/ requests'[k] = Append(requests[k], c)
          BY <1>2, <1>t DEF Send, TypeOK
        <5>2. Among(d, Append(requests[k], c))
          BY <1>t, <4>2, AmongAppend
        <5> QED BY <4>2, <5>1, <5>2
      <4> QED BY <1>t, <4>1, <4>2, FlightIsAmong, FlightIsAmongNext
    <3> QED BY <3>1, <3>2, <3>3 DEF FateIs
  <2>5. FateOf(c)' \in {"pending", "untouched"}
    <3>1. done'[c] \notin Effect
      BY <1>t, <2>1, <2>2 DEF Places, Effect
    <3> QED BY <2>2, <3>1 DEF FateIs
  <2>6. \E f \in {"pending", "untouched"} :
           [d \in Command |-> FateOf(d)]' = [[d \in Command |-> FateOf(d)] EXCEPT ![c] = f]
    BY <2>4, <2>5
  <2>7. Contract!Issue(c)
    <3>1. VerdictOf(c) = "none"
      BY <2>1 DEF VerdictOf
    <3> QED BY <1>i, <2>1, <2>3, <2>6, <3>1 DEF Contract!Issue, Contract!Idle
  <2> QED BY <2>7 DEF Contract!LinkNext
<1>3. ASSUME NEW c \in Command, NEW v \in Verdict, verdict[c] = "waiting",
             verdict' = [verdict EXCEPT ![c] = v],
             UNCHANGED <<now, at, era, clock, requests, mainQ, done>>
      PROVE  Contract!Answer(c, IF v \in {"no_reply", "mismatch"} THEN "failed" ELSE v)
  <2> DEFINE u == IF v \in {"no_reply", "mismatch"} THEN "failed" ELSE v
  <2>1. VerdictOf(c) = "waiting" /\ VerdictOf(c)' = u
    BY <1>3, <1>t DEF VerdictOf, TypeOK
  <2>2. \A d \in Command : d # c => VerdictOf(d)' = VerdictOf(d)
    BY <1>3, <1>t DEF VerdictOf, TypeOK
  <2>3. [d \in Command |-> VerdictOf(d)]' = [[d \in Command |-> VerdictOf(d)] EXCEPT ![c] = u]
    BY <2>1, <2>2
  <2>4. [d \in Command |-> FateOf(d)]' = [d \in Command |-> FateOf(d)]
    BY <1>3 DEF FateOf, InFlight
  <2> QED BY <1>3, <2>1, <2>3, <2>4 DEF Contract!Answer
<1>4. ASSUME NEW c \in Command, Timeout(c) \/ Disconnected(c) PROVE Contract!Return(c)
  <2>1. /\ verdict[c] = "waiting"
        /\ UNCHANGED <<now, at, era, clock, requests, mainQ, done>>
        /\ \E v \in {"no_reply"} \cup (IF c \in SideEffect THEN {"in_doubt"} ELSE {}) :
              verdict' = [verdict EXCEPT ![c] = v]
    BY <1>4 DEF Timeout, Disconnected
  <2>2. CASE verdict' = [verdict EXCEPT ![c] = "no_reply"]
    <3>1. Contract!Answer(c, "failed")
      BY <1>3, <2>1, <2>2 DEF Verdict
    <3> QED BY <3>1 DEF Contract!Return, Contract!ReturnFailed
  <2>3. CASE c \in SideEffect /\ verdict' = [verdict EXCEPT ![c] = "in_doubt"]
    <3>1. Contract!Answer(c, "in_doubt")
      BY <1>3, <2>1, <2>3 DEF Verdict
    <3> QED BY <2>3, <3>1 DEF Contract!Return, Contract!ReturnInDoubt
  <2> QED BY <2>1, <2>2, <2>3
<1>5. ASSUME NEW c \in Command, Receive(c) PROVE Contract!Return(c)
  <2> DEFINE v == Reading(c, Head(replies[now]))
  <2>1. /\ Sent(c) /\ verdict' = [verdict EXCEPT ![c] = v]
        /\ v \in {"result", "refused", "mismatch"}
        /\ v = "result" =>
              done[c] = "applied" /\ 1 \in 1..Len(replies[now]) /\ replies[now][1].id = c
        /\ v = "refused" => ~InFlight(c)
    BY <1>5, <1>t, ReadingIsTrue
  <2>2. /\ verdict[c] = "waiting"
        /\ UNCHANGED <<now, at, era, clock, requests, mainQ, done>>
    BY <1>5 DEF Receive
  <2> HIDE DEF v
  <2>3. CASE v = "mismatch"
    <3>1. Contract!Answer(c, "failed")
      BY <1>3, <2>1, <2>2, <2>3 DEF Verdict
    <3> QED BY <3>1 DEF Contract!Return, Contract!ReturnFailed
  <2>4. CASE v = "refused"
    <3>1. Contract!Answer(c, "refused")
      BY <1>3, <2>1, <2>2, <2>4 DEF Verdict
    <3>2. FateOf(c) \notin {"unsent", "pending"}
      BY <2>1, <2>4 DEF FateIs, Sent, Effect
    <3> QED BY <3>1, <3>2 DEF Contract!Return, Contract!ReturnRefused
  <2>5. CASE v = "result"
    <3>1. Contract!Answer(c, "result")
      BY <1>3, <2>1, <2>2, <2>5 DEF Verdict
    <3>2. FateOf(c) = "applied"
      BY <2>1, <2>5 DEF FateIs, Sent, Effect
    <3>3. ~Broken
      <4>1. SUFFICES ASSUME Broken PROVE FALSE
        OBVIOUS
      <4>2. Out(c)
        BY <2>1, <2>5 DEF Out, Answered, AmongIds
      <4>3. PICK e \in Command : Out(e) /\ verdict[e] # "waiting"
        BY <1>t, <2>2, <4>1, <4>2 DEF Behind
      <4>4. \E j \in 1..Len(replies[now]) : replies[now][j].id = e /\ j < 1
        BY <1>t, <2>1, <2>2, <2>5, <4>3, MissedIsAhead
      <4> QED BY <1>t, <4>4 DEF TypeOK
    <3>4. ~Contract!Broken
      <4>1. \A d \in Command : [e \in Command |-> VerdictOf(e)][d] \in {"in_doubt", "failed"} =>
               verdict[d] \in {"in_doubt", "no_reply", "mismatch", "failed"}
        BY DEF VerdictOf
      <4>2. \A d \in Command : verdict[d] # "failed"
        BY <1>t DEF TypeOK, Verdict
      <4> QED BY <3>3, <4>1, <4>2 DEF Contract!Broken, Broken, Missed
    <3> QED BY <3>1, <3>2, <3>4 DEF Contract!Return, Contract!ReturnResult
  <2> QED BY <2>1, <2>3, <2>4, <2>5
<1>6. ASSUME NEW k \in Conn, TakeRead(k) PROVE [Contract!LinkNext]_(Contract!linkVars)
  <2>1. PICK ok \in BOOLEAN :
           done' = [done EXCEPT ![Head(requests[k])] = IF ok THEN "applied" ELSE "raised"]
    BY <1>6 DEF TakeRead
  <2>2. /\ Listening(k) /\ requests' = [requests EXCEPT ![k] = Tail(@)]
        /\ Head(requests[k]) \notin SideEffect
        /\ UNCHANGED <<now, verdict, at, era, clock, mainQ>>
    BY <1>6 DEF TakeRead
  <2> DEFINE c == requests[k][1]
  <2>3. Taken(k)
    BY <1>t, <2>2, TakeAt
  <2>4. c = Head(requests[k]) /\ c \in Command /\ done[c] = "no" /\ Sent(c)
    BY <1>t, <2>3 DEF Taken, Places
  <2>5. InFlight(c)
    <3>1. Among(c, requests[k])
      BY <2>3 DEF Taken, Among
    <3> QED BY <1>t, <3>1, FlightIsAmong
  <2>6. ASSUME NEW d \in Command PROVE InFlight(d)' => InFlight(d)
    <3>1. ~Send(d)
      BY <1>t, <2>2 DEF Send, TypeOK
    <3> QED BY <1>t, <3>1, FlightStep
  <2>7. CASE ok
    <3>1. ASSUME NEW d \in Command, d # c PROVE InFlight(d) => InFlight(d)'
      <4>1. Among(d, requests[k]) => Among(d, requests[k])'
        <5>1. Among(d, requests[k]) <=> d = Head(requests[k]) \/ Among(d, Tail(requests[k]))
          BY <2>3, AmongTail DEF Taken
        <5> QED BY <2>3, <2>4, <3>1, <5>1 DEF Taken
      <4>2. \A j \in Conn : Among(d, requests[j]) => Among(d, requests[j])'
        BY <2>3, <4>1 DEF Taken
      <4>3. Among(d, mainQ)' <=> Among(d, mainQ)
        BY <2>2
      <4> QED BY <1>t, <4>2, <4>3, FlightIsAmong, FlightIsAmongNext
    <3>2. done' = [done EXCEPT ![c] = "applied"] /\ c \notin SideEffect
      BY <2>1, <2>2, <2>4, <2>7
    <3> HIDE DEF c
    <3>3. Contract!Apply(c)
      BY <2>2, <2>4, <2>5, <2>6, <3>1, <3>2, RunStep DEF Effect, Contract!Apply
    <3> QED BY <2>4, <3>3 DEF Contract!LinkNext, Contract!Settle
  <2>8. CASE ~ok
    <3>1. \A d \in Command : done[d] \in Effect \/ done'[d] \in Effect => done'[d] = done[d]
      BY <1>t, <2>1, <2>4, <2>8 DEF Effect
    <3> QED BY <1>t, <2>2, <2>6, <3>1, DiscardStep
  <2> QED BY <2>7, <2>8
<1>7. CASE MainThreadTask
  <2>1. PICK end \in End : done' = [done EXCEPT ![Head(mainQ)] = end]
    BY <1>7 DEF MainThreadTask
  <2>2. /\ mainQ # <<>> /\ mainQ' = Tail(mainQ)
        /\ UNCHANGED <<now, verdict, at, era, clock, requests>>
    BY <1>7 DEF MainThreadTask
  <2> DEFINE c == mainQ[1]
  <2>3. Head(mainQ) = c /\ c \in Command /\ c \in SideEffect /\ 1 \in 1..Len(mainQ)
    BY <1>t, <2>2, TailAt
  <2>4. done[c] = "no" /\ Sent(c)
    BY <1>t, <2>3 DEF Places
  <2>5. InFlight(c)
    <3>1. Among(c, mainQ)
      BY <2>3 DEF Among
    <3> QED BY <1>t, <3>1, FlightIsAmong
  <2>6. ASSUME NEW d \in Command PROVE InFlight(d)' => InFlight(d)
    <3>1. ~Send(d)
      BY <1>t, <2>2 DEF Send, TypeOK
    <3> QED BY <1>t, <3>1, FlightStep
  <2>7. CASE end \in Effect
    <3>1. ASSUME NEW d \in Command, d # c PROVE InFlight(d) => InFlight(d)'
      <4>1. Among(d, mainQ) => Among(d, mainQ)'
        <5>1. Among(d, mainQ) <=> d = Head(mainQ) \/ Among(d, Tail(mainQ))
          BY <1>t, <2>2, AmongTail
        <5> QED BY <2>2, <2>3, <3>1, <5>1
      <4>2. \A j \in Conn : Among(d, requests[j])' <=> Among(d, requests[j])
        BY <2>2
      <4> QED BY <1>t, <4>1, <4>2, FlightIsAmong, FlightIsAmongNext
    <3>2. done' = [done EXCEPT ![c] = end]
      BY <2>1, <2>3, <2>7
    <3>3. ASSUME NEW d \in SideEffect, era[d] = era[c], at[d] < at[c], InFlight(d) PROVE FALSE
      <4>1. at[d] \in Nat /\ at[c] \in Nat
        BY <1>t, <2>3
      <4>2. Among(d, mainQ) \/ \E j \in Conn : Among(d, requests[j])
        BY <1>t, <3>3, FlightIsAmong
      <4>3. ASSUME NEW i \in 1..Len(mainQ), mainQ[i] = d PROVE FALSE
        <5>1. i # 1
          BY <3>3, <4>1, <4>3
        <5>2. 1 < i
          BY <1>t, <2>3, <5>1
        <5>3. at[c] < at[d]
          BY <1>t, <2>3, <3>3, <4>3, <5>2 DEF Order
        <5> QED BY <3>3, <4>1, <5>3
      <4>4. ASSUME NEW j \in Conn, NEW i \in 1..Len(requests[j]), requests[j][i] = d PROVE FALSE
        <5>1. era[d] = j
          BY <1>t, <4>4 DEF Places
        <5>2. at[c] < at[d]
          BY <1>t, <2>3, <3>3, <4>4, <5>1 DEF Order
        <5> QED BY <3>3, <4>1, <5>2
      <4> QED BY <4>2, <4>3, <4>4 DEF Among
    <3> HIDE DEF c
    <3>4. Contract!Run(c, end)
      BY <2>2, <2>3, <2>4, <2>5, <2>6, <2>7, <3>1, <3>2, <3>3, RunStep
    <3>5. Contract!Apply(c) \/ Contract!Spoil(c)
      BY <2>3, <2>7, <3>4 DEF Effect, Contract!Apply, Contract!Spoil
    <3> QED BY <2>3, <3>5 DEF Contract!LinkNext, Contract!Settle
  <2>8. CASE end = "raised"
    <3>1. \A d \in Command : done[d] \in Effect \/ done'[d] \in Effect => done'[d] = done[d]
      BY <1>t, <2>1, <2>3, <2>4, <2>8 DEF Effect
    <3> QED BY <1>t, <2>2, <2>6, <3>1, DiscardStep
  <2> QED BY <2>1, <2>7, <2>8 DEF End, Effect
<1>8. CASE (\E k \in Conn : TakeWrite(k) \/ RunTogether(k) \/ Swallow(k) \/ ReplyDone(k)
                            \/ Abandon(k) \/ EndHandler(k)) \/ LiveExits \/ UNCHANGED vars
  <2>1. UNCHANGED <<now, verdict, at, era, clock, done>>
    BY <1>8 DEF TakeWrite, RunTogether, Swallow, ReplyDone, Abandon, EndHandler, LiveExits, vars
  <2>2. ASSUME NEW d \in Command PROVE InFlight(d)' => InFlight(d)
    <3>1. ~Send(d)
      BY <1>t, <2>1 DEF Send, TypeOK
    <3> QED BY <1>t, <3>1, FlightStep
  <2> QED BY <1>t, <2>1, <2>2, DiscardStep
<1> QED BY <1>1, <1>2, <1>4, <1>5, <1>6, <1>7, <1>8
    DEF Next, Client, Bridge, Live, Contract!LinkNext

\* What the adapter, the bridge and Live do is what LiveLink allows, for any
\* commands and any number of connections.
THEOREM CommandImplementsContract == Spec => ImplementsContract
<1>1. CommandInv /\ [Next]_vars => [Contract!LinkNext]_(Contract!linkVars)
  <2>1. CommandInv' => FateIs'
    BY FateValue, PTL
  <2>2. CommandInv /\ [Next]_vars => CommandInv' /\ FateIs
    BY CommandStep, FateValue
  <2> QED BY <2>1, <2>2, RefinesStep
<1>2. Spec => Contract!LinkInit /\ [][Contract!LinkNext]_(Contract!linkVars)
  BY <1>1, RefinesInit, CommandCorrect, PTL DEF Spec
<1> QED BY <1>2 DEF ImplementsContract, Contract!LinkSpec

=============================================================================
