--------------------------- MODULE LiveLinkProofs ---------------------------
(* Proofs about LiveLink, for every set of commands and number of           *)
(* connections.                                                             *)
EXTENDS LiveLink, TLAPS

\* The verdicts hold nothing against Live at the start: no call was made.
LEMMA LinkInitInv == LinkInit => LinkInv
  BY LinkAssumption
  DEF LinkInit, LinkInv, LinkTypeOK, ResultIsApplied, RefusedIsOver, SentIsKnown,
      Verdict, Fate

\* Sending a command changes the verdict and the fate of that command together.
LEMMA IssueInv == ASSUME NEW c \in Command, LinkInv, Issue(c) PROVE LinkInv'
<1>1. LinkTypeOK'
  BY DEF LinkInv, LinkTypeOK, Issue, Verdict, Fate
<1>2. (ResultIsApplied /\ RefusedIsOver /\ SentIsKnown)'
  BY DEF LinkInv, LinkTypeOK, Issue, ResultIsApplied, RefusedIsOver, SentIsKnown
<1>3. QED
  BY <1>1, <1>2 DEF LinkInv

\* Live settles only commands that are pending, and no caller has been told
\* anything final of those.
LEMMA SettleInv == ASSUME LinkInv, Settle PROVE LinkInv'
<1>1. ASSUME NEW c \in Command, Apply(c) \/ Spoil(c) PROVE LinkInv'
  BY <1>1
  DEF LinkInv, LinkTypeOK, Apply, Spoil, Run, Fate, ResultIsApplied, RefusedIsOver, SentIsKnown
<1>2. ASSUME NEW lost \in SUBSET Command, Discard(lost) PROVE LinkInv'
  BY <1>2 DEF LinkInv, LinkTypeOK, Discard, Fate, ResultIsApplied, RefusedIsOver, SentIsKnown
<1>3. QED
  BY <1>1, <1>2 DEF Settle

\* A call returns what its own reply said, or that it does not know.
LEMMA ReturnInv == ASSUME NEW c \in Command, LinkInv, Return(c) PROVE LinkInv'
<1>1. PICK v \in {"result", "refused", "in_doubt", "failed"} :
        /\ Answer(c, v)
        /\ v = "result" => fate[c] = "applied"
        /\ v = "refused" => fate[c] \notin {"unsent", "pending"}
  BY DEF Return, ReturnResult, ReturnRefused, ReturnInDoubt, ReturnFailed
<1>2. LinkTypeOK'
  BY <1>1 DEF LinkInv, LinkTypeOK, Answer, Verdict
<1>3. (ResultIsApplied /\ RefusedIsOver /\ SentIsKnown)'
  BY <1>1 DEF LinkInv, LinkTypeOK, Answer, ResultIsApplied, RefusedIsOver, SentIsKnown
<1>4. QED
  BY <1>2, <1>3 DEF LinkInv

\* Every step of the link keeps the meaning of the verdicts.
LEMMA LinkStepInv == LinkInv /\ [LinkNext]_linkVars => LinkInv'
<1> SUFFICES ASSUME LinkInv, [LinkNext]_linkVars PROVE LinkInv'
  OBVIOUS
<1>1. CASE Reconnect
  BY <1>1, LinkAssumption
  DEF Reconnect, LinkInv, LinkTypeOK, ResultIsApplied, RefusedIsOver, SentIsKnown
<1>2. CASE Settle
  BY <1>2, SettleInv
<1>3. ASSUME NEW c \in Command, Issue(c) PROVE LinkInv'
  BY <1>3, IssueInv
<1>4. ASSUME NEW c \in Command, Return(c) PROVE LinkInv'
  BY <1>4, ReturnInv
<1>5. CASE UNCHANGED linkVars
  BY <1>5 DEF linkVars, LinkInv, LinkTypeOK, ResultIsApplied, RefusedIsOver, SentIsKnown
<1>6. QED
  BY <1>1, <1>2, <1>3, <1>4, <1>5 DEF LinkNext

\* Whatever the connection, the bridge and Live do: a result means the write
\* happened, a refusal means that it is over and nothing of it is on its way.
THEOREM LinkCorrect == LinkSpec => []LinkInv
  BY LinkInitInv, LinkStepInv, PTL DEF LinkSpec

\* What happened in Live stays: a command is settled once.
LEMMA SettledStays ==
    ASSUME LinkInv, [LinkNext]_linkVars, NEW c \in Command,
           fate[c] \in {"applied", "partial", "untouched"}
    PROVE  fate'[c] = fate[c]
<1>1. CASE Reconnect
  BY <1>1 DEF Reconnect
<1>2. CASE Settle
  BY <1>2 DEF Settle, Apply, Spoil, Run, Discard, LinkInv, LinkTypeOK
<1>3. ASSUME NEW d \in Command, Issue(d) PROVE fate'[c] = fate[c]
  BY <1>3 DEF Issue, LinkInv, LinkTypeOK, SentIsKnown
<1>4. ASSUME NEW d \in Command, Return(d) PROVE fate'[c] = fate[c]
  BY <1>4 DEF Return, ReturnResult, ReturnRefused, ReturnInDoubt, ReturnFailed, Answer
<1>5. CASE UNCHANGED linkVars
  BY <1>5 DEF linkVars
<1>6. QED
  BY <1>1, <1>2, <1>3, <1>4, <1>5 DEF LinkNext
=============================================================================
