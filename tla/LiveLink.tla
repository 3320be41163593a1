------------------------------ MODULE LiveLink ------------------------------
(***************************************************************************)
(* What the Core may rely on when it sends commands to Live over one TCP   *)
(* connection after another: the outcome of a call (verdict) against what  *)
(* became of the command inside Live (fate).                               *)
(*                                                                         *)
(* This is the abstract side. CommandLink models the adapter, the bridge   *)
(* thread and Live's main thread, and implements this specification;       *)
(* MutationBatch is built on it.                                           *)
(***************************************************************************)
EXTENDS Naturals

CONSTANTS
    Command,    \* the calls of AbletonTcpAdapter._command, one element each
    SideEffect, \* the calls made with side_effect=True
    MaxConn     \* bound: connections opened one after another

ASSUME LinkAssumption == SideEffect \subseteq Command /\ MaxConn \in Nat \ {0}

VARIABLES
    verdict, \* verdict[c]: what the caller of _command was told
    fate,    \* fate[c]: what became of c inside Live
    at,      \* at[c]: position of c in the order of issue, 0 before
    era,     \* era[c]: the connection c was sent on
    now,     \* the connection in use
    clock    \* number of commands issued

linkVars == <<verdict, fate, at, era, now, clock>>

\* "in_doubt" is WriteInDoubt; "refused" an error reply to c itself; "failed"
\* any other DawError: no reply, or the reply to some other request.
Verdict == {"none", "waiting", "result", "refused", "in_doubt", "failed"}

\* "partial": the handler in Live raised after it had changed something.
Fate == {"unsent", "pending", "applied", "partial", "untouched"}

LinkTypeOK ==
    /\ verdict \in [Command -> Verdict]
    /\ fate \in [Command -> Fate]
    /\ at \in [Command -> Nat]
    /\ era \in [Command -> 0..MaxConn]
    /\ now \in 1..MaxConn
    /\ clock \in Nat

LinkInit ==
    /\ verdict = [c \in Command |-> "none"]
    /\ fate = [c \in Command |-> "unsent"]
    /\ at = [c \in Command |-> 0]
    /\ era = [c \in Command |-> 0]
    /\ now = 1
    /\ clock = 0

\* One call at a time: _command blocks its caller.
Idle == \A c \in Command : verdict[c] # "waiting"

\* The connection has missed a reply: no later call on it can be in step.
Broken == \E c \in Command : era[c] = now /\ verdict[c] \in {"in_doubt", "failed"}

\* The bytes of c leave the Core; a dead peer never sees them.
Issue(c) ==
    /\ Idle
    /\ verdict[c] = "none"
    /\ verdict' = [verdict EXCEPT ![c] = "waiting"]
    /\ \E f \in {"pending", "untouched"} : fate' = [fate EXCEPT ![c] = f]
    /\ clock' = clock + 1
    /\ at' = [at EXCEPT ![c] = clock + 1]
    /\ era' = [era EXCEPT ![c] = now]
    /\ UNCHANGED now

\* Live runs c. Writes sent on one connection take effect in the order they
\* were sent; nothing orders the writes of two connections.
Run(c, end) ==
    /\ fate[c] = "pending"
    /\ \A d \in SideEffect :
          c \in SideEffect /\ era[d] = era[c] /\ at[d] < at[c] => fate[d] # "pending"
    /\ fate' = [fate EXCEPT ![c] = end]
    /\ UNCHANGED <<verdict, at, era, now, clock>>

\* Live carries c out.
Apply(c) == Run(c, "applied")

\* A write raises with a part of its effect in Live.
Spoil(c) == c \in SideEffect /\ Run(c, "partial")

\* Live refuses a command before it changed anything, or an ending connection or
\* Live itself loses some.
Discard(lost) ==
    /\ lost # {}
    /\ \A c \in lost : fate[c] = "pending"
    /\ fate' = [c \in Command |-> IF c \in lost THEN "untouched" ELSE fate[c]]
    /\ UNCHANGED <<verdict, at, era, now, clock>>

Answer(c, v) ==
    /\ verdict[c] = "waiting"
    /\ verdict' = [verdict EXCEPT ![c] = v]
    /\ UNCHANGED <<fate, at, era, now, clock>>

\* Mutant: any reply with status "success" is the result of the call.
ReturnResultUnchecked(c) == ~Broken /\ Answer(c, "result")

ReturnResult(c) == fate[c] = "applied" /\ ~Broken /\ Answer(c, "result")

\* An error reply says that Live is through with c, not that c had no effect.
ReturnRefused(c) == fate[c] \notin {"unsent", "pending"} /\ Answer(c, "refused")

ReturnInDoubt(c) == c \in SideEffect /\ Answer(c, "in_doubt")
ReturnFailed(c) == Answer(c, "failed")

\* disconnect() and connect(): what is pending inside Live stays pending.
Reconnect ==
    /\ Idle
    /\ now < MaxConn
    /\ now' = now + 1
    /\ UNCHANGED <<verdict, fate, at, era, clock>>

Settle ==
    \/ \E c \in Command : Apply(c) \/ Spoil(c)
    \/ \E lost \in SUBSET Command : Discard(lost)
Return(c) == ReturnResult(c) \/ ReturnRefused(c) \/ ReturnInDoubt(c) \/ ReturnFailed(c)

LinkNext == Reconnect \/ Settle \/ \E c \in Command : Issue(c) \/ Return(c)

LinkSpec == LinkInit /\ [][LinkNext]_linkVars

-----------------------------------------------------------------------------
(* What a caller may conclude from a verdict.                              *)

\* A call that returned a result was carried out by Live.
ResultIsApplied == \A c \in Command : verdict[c] = "result" => fate[c] = "applied"

\* A call that was refused is over: it will change nothing from now on. What it
\* changed before it was refused, a refusal does not tell.
RefusedIsOver ==
    \A c \in Command : verdict[c] = "refused" => fate[c] \notin {"unsent", "pending"}

\* Live knows of a command only once it was sent.
SentIsKnown == \A c \in Command : verdict[c] = "none" <=> fate[c] = "unsent"

LinkInv == LinkTypeOK /\ ResultIsApplied /\ RefusedIsOver /\ SentIsKnown
=============================================================================
