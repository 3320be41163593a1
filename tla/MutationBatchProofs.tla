------------------------- MODULE MutationBatchProofs -------------------------
(***************************************************************************)
(* Proofs about MutationBatch, for every set of plans and every behaviour  *)
(* of the link: what a row says of Live is true, and no dependent write    *)
(* follows a failure, a doubt or a cancel.                                 *)
(***************************************************************************)
EXTENDS MutationBatch, LiveLinkProofs

\* The Core waits for one call, the one its program counter is at.
OneCall ==
    \A c \in Command : verdict[c] = "waiting" =>
        \/ pc = "rpc" /\ c = <<cur, rpc>>
        \/ pc = "compound" /\ c = Compound

\* No RPC of a later step was sent.
NotAhead ==
    /\ pc \in {"start", "compound"} => cur = 1
    /\ \A j \in 1..MaxSteps, r \in 1..6 :
          verdict[<<j, r>>] # "none" => j < cur \/ (j = cur /\ pc = "rpc")

\* While the batch runs, the steps from cur on have no row.
RowsBehind == pc # "done" => \A i \in Steps : i >= cur => rows[i] = "none"

\* A step waits for an RPC it has sent.
RpcSent == pc = "rpc" => cur \in Steps /\ verdict[<<cur, rpc>>] # "none"

\* A batch that goes on has applied every step so far.
GoesOn == pc \in {"step", "rpc"} /\ ~stop => \A i \in Steps : i < cur => rows[i] = "APPLIED"

\* Every call went over the connection in use.
OneConnection == \A c \in Command : verdict[c] # "none" => era[c] = now

\* When the RPC of a step returned a result, the connection missed no reply to
\* an earlier RPC of the step.
StepInStep ==
    pc = "rpc" /\ verdict[<<cur, rpc>>] = "result" =>
        \A r \in 1..6 : verdict[<<cur, r>>] \in {"none", "result", "refused"}

BatchInv ==
    /\ TypeOK
    /\ LinkInv
    /\ OneCall
    /\ NotAhead
    /\ RowsBehind
    /\ RpcSent
    /\ GoesOn
    /\ OneConnection
    /\ StepInStep
    /\ AppliedRowsAreTrue
    /\ NoDependentWriteAfterDoubt

-----------------------------------------------------------------------------
(* The commands of a batch, and the link's part of each step.              *)

\* The RPCs of the batch's steps are commands, and none is the compound one.
LEMMA StepIsCommand ==
    ASSUME TypeOK
    PROVE  /\ Compound \in Command
           /\ Len(plan) \in Nat /\ Len(plan) <= MaxSteps
           /\ \A i \in Steps : plan[i] \in Step
           /\ \A i \in Steps, r \in 1..6 : <<i, r>> \in Command /\ <<i, r>> # Compound
<1>1. plan \in Seq(Step) /\ Len(plan) <= MaxSteps
  BY BatchAssumption DEF TypeOK
<1>2. \A i \in Steps, r \in 1..6 : <<i, r>> \in StepCommand /\ i # 0
  BY <1>1, BatchAssumption DEF Steps, StepCommand
<1>3. \A i \in Steps : plan[i] \in Step
  BY <1>1 DEF Steps
<1>4. \A i \in Steps, r \in 1..6 : <<i, r>> \in Command /\ <<i, r>> # Compound
  BY <1>2, BatchAssumption DEF Compound
<1>5. Compound \in Command
  BY BatchAssumption
<1>6. Len(plan) \in Nat
  BY <1>1
<1>7. QED
  BY <1>1, <1>3, <1>4, <1>5, <1>6

\* A step that leaves the link alone, or takes one of its steps, keeps LinkInv
\* and what Live has settled.
LEMMA LinkPart ==
    ASSUME LinkInv, [LinkNext]_linkVars
    PROVE  /\ LinkInv'
           /\ \A c \in Command :
                 fate[c] \in {"applied", "partial", "untouched"} => fate'[c] = fate[c]
  BY LinkStepInv, SettledStays

\* Only steps the batch has reached were sent.
LEMMA SentBehind ==
    ASSUME TypeOK, NotAhead
    PROVE  \A j \in Steps : Sent(j) => j < cur \/ (j = cur /\ pc = "rpc")
<1>1. ASSUME NEW j \in Steps, Sent(j) PROVE j < cur \/ (j = cur /\ pc = "rpc")
  <2>1. j \in 1..MaxSteps
    BY StepIsCommand, BatchAssumption DEF Steps
  <2>2. QED
    BY <1>1, <2>1 DEF Sent, NotAhead
<1>2. QED
  BY <1>1

-----------------------------------------------------------------------------
(* The sequential transport.                                               *)

\* Step cur gets its row: APPLIED only after the result of its last RPC.
LEMMA RowInv ==
    ASSUME BatchInv, pc \in {"step", "rpc"}, cur \in Steps,
           \A c \in Command : verdict[c] # "waiting",
           NEW s \in RowStatus, s = "APPLIED" => pc = "rpc" /\ GotResult,
           UNCHANGED linkVars,
           UNCHANGED <<plan, ready, compound, cancelled, rpc, status, reply>>,
           rows' = [rows EXCEPT ![cur] = s], cur' = cur + 1, pc' = "step",
           stop' \in BOOLEAN, inDoubt' \in BOOLEAN, ~stop' => ~stop /\ s = "APPLIED"
    PROVE  BatchInv'
<1> USE DEF BatchInv
<1>1. cur \in Nat /\ Len(plan) \in Nat /\ rpc \in 1..6
  BY StepIsCommand DEF Steps, TypeOK
<1>2. \A i \in Steps, r \in 1..6 : <<i, r>> \in Command
  BY StepIsCommand
<1>3. TypeOK'
  <2>1. rows' \in [Steps -> RowStatus \cup {"none"}]
    BY <1>1 DEF TypeOK
  <2>2. cur' \in 1..(Len(plan) + 1)
    BY <1>1 DEF Steps
  <2>3. LinkTypeOK'
    BY DEF TypeOK, LinkTypeOK, linkVars
  <2>4. QED
    BY <2>1, <2>2, <2>3 DEF TypeOK, Steps
<1>4. LinkInv'
  BY LinkPart
<1>5. OneCall' /\ OneConnection'
  BY DEF OneCall, OneConnection, linkVars
<1>6. NotAhead'
  <2>1. ASSUME NEW j \in 1..MaxSteps, NEW r \in 1..6, verdict'[<<j, r>>] # "none"
        PROVE  j < cur'
    <3>1. verdict[<<j, r>>] # "none"
      BY <2>1 DEF linkVars
    <3>2. j < cur \/ j = cur
      BY <3>1 DEF NotAhead
    <3>3. QED
      BY <1>1, <3>2, BatchAssumption
  <2>2. QED
    BY <2>1 DEF NotAhead
<1>7. RowsBehind' /\ RpcSent' /\ StepInStep'
  BY <1>1 DEF RowsBehind, RpcSent, StepInStep, Steps, TypeOK
<1>8. GoesOn'
  BY <1>1 DEF GoesOn, Steps, TypeOK
<1>9. AppliedRowsAreTrue'
  <2>1. ASSUME s = "APPLIED"
        PROVE  SettledStep(cur) /\ fate[<<cur, rpc>>] = "applied"
    <3>1. \A r \in 1..6 : verdict[<<cur, r>>] \in {"none", "result", "refused"}
      BY <2>1 DEF StepInStep, GotResult
    <3>2. QED
      BY <1>1, <1>2, <2>1, <3>1
      DEF SettledStep, GotResult, LinkInv, SentIsKnown, ResultIsApplied, RefusedIsOver
  <2>2. ASSUME NEW i \in Steps, rows'[i] = "APPLIED", i # cur PROVE rows[i] = "APPLIED"
    BY <2>2 DEF TypeOK
  <2>3. ASSUME NEW i \in Steps, rows'[i] = "APPLIED", i = cur PROVE s = "APPLIED"
    BY <2>3 DEF TypeOK
  <2>4. QED
    BY <1>1, <2>1, <2>2, <2>3 DEF AppliedRowsAreTrue, SettledStep, Steps, linkVars
<1>10. NoDependentWriteAfterDoubt'
  <2>1. SUFFICES ASSUME NEW j \in Steps, Sent(j)', ~plan[j].independent,
                        NEW i \in Steps, i < j
                 PROVE  rows'[i] = "APPLIED"
    BY DEF NoDependentWriteAfterDoubt, Steps
  <2>2. Sent(j)
    BY <2>1 DEF Sent, linkVars
  <2>3. i # cur
    BY <1>1, <2>1, <2>2, SentBehind DEF Steps
  <2>4. QED
    BY <2>1, <2>2, <2>3 DEF NoDependentWriteAfterDoubt, TypeOK
<1>11. QED
  BY <1>3, <1>4, <1>5, <1>6, <1>7, <1>8, <1>9, <1>10

\* The row of a step whose last RPC has returned.
LEMMA RecordInv ==
    ASSUME BatchInv, NEW s \in RowStatus, Record(s), pc = "rpc",
           verdict[<<cur, rpc>>] \in Returned, s = "APPLIED" => GotResult
    PROVE  BatchInv'
<1>1. cur \in Steps /\ \A c \in Command : verdict[c] # "waiting"
  BY DEF BatchInv, RpcSent, OneCall, Returned
<1>2. stop' \in BOOLEAN /\ inDoubt' \in BOOLEAN /\ (~stop' => ~stop /\ s = "APPLIED")
  BY DEF Record
<1>3. QED
  BY <1>1, <1>2, RowInv DEF Record, liveVars

\* The row of a step that is not attempted.
LEMMA SkipInv == ASSUME BatchInv, SkipStep PROVE BatchInv'
<1>1. cur \in Steps /\ \A c \in Command : verdict[c] # "waiting"
  BY StepIsCommand DEF BatchInv, TypeOK, OneCall, SkipStep, Steps
<1>2. "NOT_ATTEMPTED" \in RowStatus /\ inDoubt' \in BOOLEAN
  BY DEF RowStatus, SkipStep, BatchInv, TypeOK
<1>3. QED
  BY <1>1, <1>2, RowInv DEF SkipStep, liveVars

\* An RPC of step cur is sent: a dependent step only while the batch goes on.
LEMMA SendInv ==
    ASSUME BatchInv, pc \in {"step", "rpc"}, cur \in Steps, NEW r \in 1..6,
           Issue(<<cur, r>>), pc' = "rpc", rpc' = r,
           UNCHANGED <<plan, ready, compound, cancelled, cur, inDoubt, rows, status, reply>>,
           stop' \in BOOLEAN, ~stop' => ~stop,
           plan[cur].independent \/ \A i \in Steps : i < cur => rows[i] = "APPLIED"
    PROVE  BatchInv'
<1> USE DEF BatchInv
<1> DEFINE c0 == <<cur, r>>
<1>1. \A i \in Steps, q \in 1..6 : <<i, q>> \in Command
  BY StepIsCommand
<1>2. c0 \in Command
  BY <1>1
<1>3. cur \in Nat /\ Len(plan) \in Nat
  BY StepIsCommand DEF Steps
<1>4. /\ verdict' = [verdict EXCEPT ![c0] = "waiting"]
      /\ era' = [era EXCEPT ![c0] = now] /\ now' = now
      /\ \E f \in {"pending", "untouched"} : fate' = [fate EXCEPT ![c0] = f]
      /\ verdict[c0] = "none"
      /\ \A c \in Command : verdict[c] # "waiting"
  BY DEF Issue, Idle
<1>5. LinkInv' /\ \A c \in Command : fate[c] = "applied" => fate'[c] = "applied"
  <2>1. LinkNext
    BY <1>2 DEF LinkNext
  <2>2. QED
    BY <2>1, LinkPart
<1>6. TypeOK'
  BY <1>5 DEF TypeOK, LinkInv, Steps
<1>7. OneCall' /\ OneConnection'
  BY <1>2, <1>4 DEF OneCall, OneConnection, TypeOK, LinkTypeOK
<1>8. NotAhead'
  <2>1. ASSUME NEW j \in 1..MaxSteps, NEW q \in 1..6, verdict'[<<j, q>>] # "none"
        PROVE  j < cur \/ j = cur
    <3>1. CASE <<j, q>> = c0
      BY <3>1
    <3>2. CASE <<j, q>> # c0
      <4>1. verdict[<<j, q>>] # "none"
        BY <1>2, <1>4, <2>1, <3>2 DEF TypeOK, LinkTypeOK
      <4>2. QED
        BY <4>1 DEF NotAhead
    <3>3. QED
      BY <3>1, <3>2
  <2>2. QED
    BY <2>1 DEF NotAhead
<1>9. RowsBehind' /\ GoesOn'
  BY DEF RowsBehind, GoesOn, Steps
<1>10. verdict'[<<cur', rpc'>>] = "waiting"
  BY <1>2, <1>4 DEF TypeOK, LinkTypeOK
<1>11. RpcSent' /\ StepInStep'
  BY <1>10 DEF RpcSent, StepInStep, Steps
<1>12. AppliedRowsAreTrue'
  <2>1. ASSUME NEW i \in Steps, rows[i] = "APPLIED" PROVE i < cur
    BY <1>3, <2>1 DEF RowsBehind, Steps
  <2>2. ASSUME NEW i \in Steps, i < cur PROVE \A q \in 1..6 : fate'[<<i, q>>] = fate[<<i, q>>]
    <3>1. i # cur
      BY <1>3, <2>2 DEF Steps
    <3>2. \A q \in 1..6 : <<i, q>> # c0
      BY <3>1
    <3>3. \A q \in 1..6 : <<i, q>> \in Command
      BY <1>1
    <3>4. QED
      BY <1>4, <3>2, <3>3 DEF TypeOK, LinkTypeOK
  <2>3. fate[Compound] = "applied" => fate'[Compound] = "applied"
    BY <1>5, StepIsCommand
  <2>4. ASSUME NEW i \in Steps, rows[i] = "APPLIED"
        PROVE  \/ fate'[Compound] = "applied" /\ reply.rows[i] = "APPLIED"
               \/ /\ \A q \in 1..6 : fate'[<<i, q>>] # "pending"
                  /\ \E q \in 1..6 : fate'[<<i, q>>] = "applied"
    <3>1. \A q \in 1..6 : fate'[<<i, q>>] = fate[<<i, q>>]
      BY <2>1, <2>2, <2>4
    <3>2. QED
      BY <2>3, <2>4, <3>1 DEF AppliedRowsAreTrue, SettledStep
  <2>5. Steps' = Steps /\ rows' = rows /\ reply' = reply
    BY DEF Steps
  <2>6. QED
    BY <2>4, <2>5 DEF AppliedRowsAreTrue, SettledStep
<1>13. NoDependentWriteAfterDoubt'
  <2>1. SUFFICES ASSUME NEW j \in Steps, Sent(j)', ~plan[j].independent,
                        NEW i \in Steps, i < j
                 PROVE  rows[i] = "APPLIED"
    BY DEF NoDependentWriteAfterDoubt, Steps
  <2>2. CASE j = cur
    BY <2>1, <2>2
  <2>3. CASE j # cur
    <3>1. \A q \in 1..6 : verdict'[<<j, q>>] = verdict[<<j, q>>]
      <4>1. \A q \in 1..6 : <<j, q>> # c0
        BY <2>3
      <4>2. \A q \in 1..6 : <<j, q>> \in Command
        BY <1>1
      <4>3. QED
        BY <1>4, <4>1, <4>2 DEF TypeOK, LinkTypeOK
    <3>2. Sent(j)
      BY <2>1, <3>1 DEF Sent
    <3>3. QED
      BY <2>1, <3>2 DEF NoDependentWriteAfterDoubt
  <2>4. QED
    BY <2>2, <2>3
<1>14. QED
  BY <1>5, <1>6, <1>7, <1>8, <1>9, <1>11, <1>12, <1>13

\* The next RPC of a step that is under way.
LEMMA ThenInv == ASSUME BatchInv, pc = "rpc", NEW r \in 1..6, Then(r) PROVE BatchInv'
<1>1. cur \in Steps /\ Sent(cur)
  BY DEF BatchInv, TypeOK, RpcSent, Sent
<1>2. plan[cur].independent \/ \A i \in Steps : i < cur => rows[i] = "APPLIED"
  BY <1>1 DEF BatchInv, NoDependentWriteAfterDoubt
<1>3. stop' \in BOOLEAN /\ (~stop' => ~stop)
  BY DEF Then, BatchInv, TypeOK
<1>4. QED
  BY <1>1, <1>2, <1>3, SendInv DEF Then, liveVars

\* The first RPC of a step.
LEMMA AttemptInv == ASSUME BatchInv, AttemptStep PROVE BatchInv'
<1>1. cur \in Steps /\ FirstRpc(plan[cur].op) \in 1..6
  BY StepIsCommand DEF BatchInv, TypeOK, AttemptStep, Steps, FirstRpc
<1>2. plan[cur].independent \/ ~stop
  BY DEF AttemptStep
<1>3. plan[cur].independent \/ \A i \in Steps : i < cur => rows[i] = "APPLIED"
  BY <1>2 DEF BatchInv, GoesOn, AttemptStep
<1>4. stop' \in BOOLEAN /\ (~stop' => ~stop)
  BY DEF AttemptStep
<1>5. QED
  BY <1>1, <1>3, <1>4, SendInv DEF AttemptStep, liveVars

-----------------------------------------------------------------------------
(* The compound transport, and the report of the batch.                    *)

\* Before the first step, and while the compound command is out, no step's RPC
\* was sent.
LEMMA NothingSent ==
    ASSUME TypeOK, NotAhead, pc \in {"start", "compound"}
    PROVE  \A j \in Steps : ~Sent(j)
<1>1. ASSUME NEW j \in Steps, Sent(j) PROVE FALSE
  <2>1. cur = 1
    BY DEF NotAhead
  <2>2. j < cur
    BY <1>1, SentBehind
  <2>3. QED
    BY <2>1, <2>2, StepIsCommand DEF Steps
<1>2. QED
  BY <1>1

\* The batch is reported with the rows it has, or with rows that are APPLIED only
\* where the compound reply says so.
LEMMA ReportInv ==
    ASSUME BatchInv, pc \in {"start", "compound", "step"},
           \A c \in Command : verdict[c] # "waiting",
           NEW r \in [Steps -> RowStatus \cup {"none"}],
           NEW s \in BatchStatus \cup {"none"},
           Report(r, s), UNCHANGED <<linkVars, liveVars>>,
           \/ r = rows
           \/ /\ pc \in {"start", "compound"}
              /\ \A i \in Steps : r[i] = "APPLIED" =>
                    fate[Compound] = "applied" /\ reply.rows[i] = "APPLIED"
    PROVE  BatchInv'
<1> USE DEF BatchInv
<1>1. TypeOK'
  <2>1. LinkTypeOK'
    BY DEF TypeOK, LinkTypeOK, linkVars
  <2>2. QED
    BY <2>1 DEF TypeOK, Steps, Report, liveVars
<1>2. LinkInv'
  BY LinkPart
<1>3. OneCall' /\ OneConnection' /\ RpcSent' /\ StepInStep' /\ RowsBehind' /\ GoesOn'
  BY DEF OneCall, OneConnection, RpcSent, StepInStep, RowsBehind, GoesOn, Report, linkVars
<1>4. NotAhead'
  BY DEF NotAhead, Report, linkVars
<1>5. Steps' = Steps /\ plan' = plan /\ rows' = r /\ reply' = reply /\ fate' = fate /\ verdict' = verdict
  BY DEF Report, linkVars, liveVars, Steps
<1>6. AppliedRowsAreTrue'
  BY <1>5 DEF AppliedRowsAreTrue, SettledStep
<1>7. NoDependentWriteAfterDoubt'
  <2>1. CASE r = rows
    BY <1>5, <2>1 DEF NoDependentWriteAfterDoubt, Sent
  <2>2. CASE pc \in {"start", "compound"}
    BY <1>5, <2>2, NothingSent DEF NoDependentWriteAfterDoubt, Sent
  <2>3. QED
    BY <2>1, <2>2
<1>8. QED
  BY <1>1, <1>2, <1>3, <1>4, <1>6, <1>7

\* The batch is refused, ends with the compound reply, or ends after its steps.
LEMMA EndInv ==
    ASSUME BatchInv, RejectBeforeDispatch \/ CompoundReturns \/ FinishSequential
    PROVE  BatchInv'
<1>1. ASSUME NEW s \in RowStatus
      PROVE  /\ AllRows(s) \in [Steps -> RowStatus \cup {"none"}]
             /\ s # "APPLIED" => \A i \in Steps : AllRows(s)[i] # "APPLIED"
  BY DEF AllRows
<1>2. CASE RejectBeforeDispatch
  <2>1. \A c \in Command : verdict[c] # "waiting"
    BY <1>2 DEF RejectBeforeDispatch, BatchInv, OneCall
  <2>2. "NOT_ATTEMPTED" \in RowStatus /\ "FAILED_BEFORE_EXECUTION" \in BatchStatus
    BY DEF RowStatus, BatchStatus
  <2>3. QED
    BY <1>1, <1>2, <2>1, <2>2, ReportInv DEF RejectBeforeDispatch
<1>3. CASE CompoundReturns
  <2>1. verdict[Compound] \in {"result", "in_doubt", "refused", "failed"}
    BY <1>3 DEF CompoundReturns
  <2>2. \A c \in Command : verdict[c] # "waiting"
    BY <1>3, <2>1 DEF CompoundReturns, BatchInv, OneCall
  <2>3. CASE verdict[Compound] = "result"
    <3>1. fate[Compound] = "applied"
      BY <2>3, StepIsCommand DEF BatchInv, LinkInv, ResultIsApplied
    <3>2. /\ reply.rows \in [Steps -> RowStatus \cup {"none"}]
          /\ reply.status \in BatchStatus \cup {"none"}
      BY DEF BatchInv, TypeOK
    <3>3. Report(reply.rows, reply.status)
      BY <1>3, <2>3 DEF CompoundReturns
    <3>4. QED
      BY <1>3, <2>2, <3>1, <3>2, <3>3, ReportInv DEF CompoundReturns
  <2>4. CASE verdict[Compound] = "in_doubt"
    <3>1. Report(AllRows("UNKNOWN"), "IN_DOUBT")
      BY <1>3, <2>4 DEF CompoundReturns
    <3>2. "UNKNOWN" \in RowStatus /\ "IN_DOUBT" \in BatchStatus
      BY DEF RowStatus, BatchStatus
    <3>3. QED
      BY <1>1, <1>3, <2>2, <3>1, <3>2, ReportInv DEF CompoundReturns
  <2>5. CASE verdict[Compound] \in {"refused", "failed"}
    <3>1. Report(AllRows("NOT_ATTEMPTED"), "FAILED_BEFORE_EXECUTION")
      BY <1>3, <2>5 DEF CompoundReturns
    <3>2. "NOT_ATTEMPTED" \in RowStatus /\ "FAILED_BEFORE_EXECUTION" \in BatchStatus
      BY DEF RowStatus, BatchStatus
    <3>3. QED
      BY <1>1, <1>3, <2>2, <3>1, <3>2, ReportInv DEF CompoundReturns
  <2>6. QED
    BY <2>1, <2>3, <2>4, <2>5
<1>4. CASE FinishSequential
  <2>1. \A c \in Command : verdict[c] # "waiting"
    BY <1>4 DEF FinishSequential, BatchInv, OneCall
  <2>2. Classify(rows, inDoubt) \in BatchStatus
    BY DEF Classify, BatchStatus
  <2>3. rows \in [Steps -> RowStatus \cup {"none"}]
    BY DEF BatchInv, TypeOK
  <2>4. QED
    BY <1>4, <2>1, <2>2, <2>3, ReportInv DEF FinishSequential
<1>5. QED
  BY <1>2, <1>3, <1>4

\* The compound command is sent before any step is.
LEMMA SendCompoundInv == ASSUME BatchInv, SendCompound PROVE BatchInv'
<1> USE DEF BatchInv
<1>1. Compound \in Command
  BY StepIsCommand
<1>2. \A i \in Steps, q \in 1..6 : <<i, q>> \in Command
  BY StepIsCommand
<1>3. \A i \in Steps, q \in 1..6 : <<i, q>> # Compound
  BY StepIsCommand
<1>4. /\ verdict' = [verdict EXCEPT ![Compound] = "waiting"]
      /\ era' = [era EXCEPT ![Compound] = now] /\ now' = now
      /\ \A c \in Command : verdict[c] # "waiting"
  BY DEF SendCompound, Issue, Idle
<1>5. LinkInv'
  BY <1>1, IssueInv DEF SendCompound
<1>6. /\ pc = "start" /\ pc' = "compound"
      /\ Steps' = Steps /\ plan' = plan /\ rows' = rows /\ cur' = cur /\ cur = 1
  BY DEF SendCompound, Steps, NotAhead
<1>7. TypeOK'
  BY <1>5, <1>6 DEF TypeOK, LinkInv, SendCompound, liveVars
<1>8. OneCall' /\ OneConnection'
  BY <1>1, <1>4, <1>6 DEF OneCall, OneConnection, TypeOK, LinkTypeOK
<1>9. \A j \in 1..MaxSteps, q \in 1..6 : verdict'[<<j, q>>] = verdict[<<j, q>>]
  <2>1. ASSUME NEW j \in 1..MaxSteps, NEW q \in 1..6
        PROVE  <<j, q>> \in Command /\ <<j, q>> # Compound
    <3>1. <<j, q>> \in StepCommand /\ j # 0
      BY <2>1, BatchAssumption DEF StepCommand
    <3>2. QED
      BY <3>1, BatchAssumption DEF Compound
  <2>2. QED
    BY <1>4, <2>1 DEF TypeOK, LinkTypeOK
<1>10. NotAhead'
  <2>1. \A j \in 1..MaxSteps, q \in 1..6 : verdict'[<<j, q>>] # "none" => j < cur
    BY <1>6, <1>9 DEF NotAhead
  <2>2. QED
    BY <1>6, <2>1 DEF NotAhead
<1>11. RowsBehind' /\ RpcSent' /\ GoesOn' /\ StepInStep'
  BY <1>6 DEF RowsBehind, RpcSent, GoesOn, StepInStep
<1>12. \A i \in Steps : rows[i] # "APPLIED"
  BY <1>6, StepIsCommand DEF RowsBehind, Steps
<1>13. \A j \in Steps : ~Sent(j)'
  <2>1. \A j \in Steps : j \in 1..MaxSteps
    BY StepIsCommand, BatchAssumption DEF Steps
  <2>2. QED
    BY <1>6, <1>9, <2>1, NothingSent DEF Sent
<1>14. AppliedRowsAreTrue' /\ NoDependentWriteAfterDoubt'
  BY <1>6, <1>12, <1>13 DEF AppliedRowsAreTrue, NoDependentWriteAfterDoubt
<1>15. QED
  BY <1>5, <1>7, <1>8, <1>10, <1>11, <1>14

\* Without the compound command, or when Live does not know it, the steps follow.
LEMMA StartInv == ASSUME BatchInv, StartSequential PROVE BatchInv'
<1> USE DEF BatchInv
<1>1. /\ UNCHANGED <<linkVars, plan, ready, compound, cancelled, cur, rpc, stop, inDoubt, rows,
                     status, liveVars>>
      /\ pc' = "step" /\ pc \in {"start", "compound"}
      /\ \A c \in Command : verdict[c] # "waiting"
  BY DEF StartSequential, OneCall
<1>2. Steps' = Steps
  BY <1>1 DEF Steps
<1>3. TypeOK' /\ LinkInv'
  <2>1. LinkTypeOK' /\ LinkInv'
    BY <1>1, LinkPart DEF LinkInv
  <2>2. QED
    BY <1>1, <1>2, <2>1 DEF TypeOK, liveVars
<1>4. OneCall' /\ OneConnection' /\ NotAhead'
  BY <1>1 DEF OneCall, OneConnection, NotAhead, linkVars
<1>5. RowsBehind' /\ RpcSent' /\ StepInStep'
  BY <1>1, <1>2 DEF RowsBehind, RpcSent, StepInStep
<1>6. cur = 1
  BY <1>1 DEF NotAhead
<1>7. GoesOn'
  BY <1>1, <1>2, <1>6, StepIsCommand DEF GoesOn, Steps
<1>8. fate' = fate /\ verdict' = verdict /\ rows' = rows /\ reply' = reply /\ plan' = plan
  BY <1>1 DEF linkVars, liveVars
<1>9. AppliedRowsAreTrue' /\ NoDependentWriteAfterDoubt'
  BY <1>2, <1>8 DEF AppliedRowsAreTrue, SettledStep, NoDependentWriteAfterDoubt, Sent
<1>10. QED
  BY <1>3, <1>4, <1>5, <1>7, <1>9

-----------------------------------------------------------------------------
(* Live and the connection: the Core's variables do not change.            *)

\* Live settles commands: it can only carry out or drop what was pending, and it
\* computes the compound reply when it carries out the compound command.
LEMMA LiveInv ==
    ASSUME BatchInv, TypeOK', Settle,
           UNCHANGED <<coreVars, verdict, at, era, now, clock>>,
           \A c \in Command : fate[c] # "pending" => fate'[c] = fate[c],
           reply' = reply \/ fate[Compound] = "pending"
    PROVE  BatchInv'
<1> USE DEF BatchInv
<1>1. LinkInv'
  BY SettleInv
<1>2. /\ Steps' = Steps /\ plan' = plan /\ rows' = rows /\ pc' = pc /\ cur' = cur /\ rpc' = rpc
      /\ stop' = stop /\ verdict' = verdict /\ era' = era /\ now' = now
  BY DEF coreVars, Steps
<1>3. OneCall' /\ OneConnection' /\ NotAhead' /\ RowsBehind' /\ RpcSent' /\ GoesOn' /\ StepInStep'
  <2>1. OneCall' /\ OneConnection'
    BY <1>2 DEF OneCall, OneConnection
  <2>2. NotAhead'
    BY <1>2 DEF NotAhead
  <2>3. RowsBehind' /\ RpcSent' /\ GoesOn'
    BY <1>2 DEF RowsBehind, RpcSent, GoesOn
  <2>4. StepInStep'
    BY <1>2 DEF StepInStep
  <2>5. QED
    BY <2>1, <2>2, <2>3, <2>4
<1>4. AppliedRowsAreTrue'
  <2>1. ASSUME NEW i \in Steps, rows[i] = "APPLIED"
        PROVE  \/ fate'[Compound] = "applied" /\ reply'.rows[i] = "APPLIED"
               \/ /\ \A r \in 1..6 : fate'[<<i, r>>] # "pending"
                  /\ \E r \in 1..6 : fate'[<<i, r>>] = "applied"
    <3>1. CASE fate[Compound] = "applied" /\ reply.rows[i] = "APPLIED"
      <4>1. fate'[Compound] = fate[Compound] /\ reply' = reply
        BY <3>1, StepIsCommand
      <4>2. QED
        BY <3>1, <4>1
    <3>2. CASE SettledStep(i) /\ \E r \in 1..6 : fate[<<i, r>>] = "applied"
      <4>1. \A r \in 1..6 : <<i, r>> \in Command
        BY StepIsCommand
      <4>2. \A r \in 1..6 : fate'[<<i, r>>] = fate[<<i, r>>]
        BY <3>2, <4>1 DEF SettledStep
      <4>3. QED
        BY <3>2, <4>2 DEF SettledStep
    <3>3. QED
      BY <2>1, <3>1, <3>2 DEF AppliedRowsAreTrue
  <2>2. QED
    BY <1>2, <2>1 DEF AppliedRowsAreTrue, SettledStep
<1>5. NoDependentWriteAfterDoubt'
  <2>1. SUFFICES ASSUME NEW j \in Steps, Sent(j)', ~plan[j].independent, NEW i \in Steps, i < j
                 PROVE  rows[i] = "APPLIED"
    BY <1>2 DEF NoDependentWriteAfterDoubt
  <2>2. Sent(j)
    BY <1>2, <2>1 DEF Sent
  <2>3. QED
    BY <2>1, <2>2 DEF NoDependentWriteAfterDoubt
<1>6. TypeOK'
  OBVIOUS
<1>7. QED
  BY ONLY <1>1, <1>3, <1>4, <1>5, <1>6 DEF BatchInv

\* Live's steps, one handler at a time.
LEMMA LiveStepInv == ASSUME BatchInv, Live PROVE BatchInv'
<1>1. CASE LiveRunsCompound
  <2>1. Compound \in Command
    BY StepIsCommand DEF BatchInv
  <2>2. Settle
    BY <1>1, <2>1 DEF LiveRunsCompound, Settle
  <2>3. fate[Compound] = "pending" /\ \A c \in Command : fate[c] # "pending" => fate'[c] = fate[c]
    BY <1>1 DEF LiveRunsCompound, Apply, Run, BatchInv, TypeOK, LinkTypeOK
  <2>4. reply' \in [rows : [Steps -> RowStatus \cup {"none"}], status : BatchStatus \cup {"none"}]
    BY <1>1 DEF LiveRunsCompound, RemoteReply, RemoteRows, AllRows, RowStatus, BatchStatus
  <2>5. TypeOK'
    BY <1>1, <2>2, <2>4, SettleInv DEF LiveRunsCompound, BatchInv, TypeOK, LinkInv, coreVars, Steps
  <2>6. QED
    BY <1>1, <2>2, <2>3, <2>5, LiveInv DEF LiveRunsCompound, Apply, Run
<1>2. CASE LiveRunsRpc
  <2>1. PICK c \in StepCommand : Apply(c)
    BY <1>2 DEF LiveRunsRpc
  <2>2. c \in Command
    BY BatchAssumption
  <2>3. Settle
    BY <2>1, <2>2 DEF Settle
  <2>4. \A d \in Command : fate[d] # "pending" => fate'[d] = fate[d]
    BY <2>1, <2>2 DEF Apply, Run, BatchInv, TypeOK, LinkTypeOK
  <2>5. TypeOK'
    BY <1>2, <2>1, <2>2, <2>3, SettleInv DEF LiveRunsRpc, BatchInv, TypeOK, LinkInv, coreVars, Steps
  <2>6. QED
    BY <1>2, <2>1, <2>3, <2>4, <2>5, LiveInv DEF LiveRunsRpc, Apply, Run
<1>3. CASE LiveRefuses
  <2>1. PICK c \in Command : Discard({c}) \/ Spoil(c)
    BY <1>3 DEF LiveRefuses
  <2>2. Settle
    BY <2>1 DEF Settle
  <2>3. /\ \A d \in Command : fate[d] # "pending" => fate'[d] = fate[d]
        /\ UNCHANGED <<verdict, at, era, now, clock>>
    BY <2>1 DEF Discard, Spoil, Run, BatchInv, TypeOK, LinkTypeOK
  <2>4. TypeOK'
    BY <1>3, <2>2, SettleInv DEF LiveRefuses, BatchInv, TypeOK, LinkInv, coreVars, liveVars, Steps
  <2>5. QED
    BY <1>3, <2>2, <2>3, <2>4, LiveInv DEF LiveRefuses, liveVars
<1>4. QED
  BY <1>1, <1>2, <1>3 DEF Live

\* A call returns. It returns a result only on a connection that has missed no
\* reply, and the batch has used one connection only.
LEMMA CallReturnsInv == ASSUME BatchInv, CallReturns PROVE BatchInv'
<1> USE DEF BatchInv
<1>1. PICK c \in Command : Return(c)
  BY DEF CallReturns
<1>2. PICK v \in {"result", "refused", "in_doubt", "failed"} :
        Answer(c, v) /\ (v = "result" => ~Broken)
  BY <1>1 DEF Return, ReturnResult, ReturnRefused, ReturnInDoubt, ReturnFailed
<1>3. /\ verdict[c] = "waiting" /\ verdict' = [verdict EXCEPT ![c] = v]
      /\ UNCHANGED <<fate, at, era, now, clock>>
  BY <1>2 DEF Answer
<1>4. /\ Steps' = Steps /\ plan' = plan /\ rows' = rows /\ pc' = pc /\ cur' = cur /\ rpc' = rpc
      /\ stop' = stop /\ reply' = reply
  BY DEF CallReturns, coreVars, liveVars, Steps
<1>5. LinkInv'
  BY <1>1, ReturnInv
<1>6. TypeOK'
  BY <1>4, <1>5 DEF CallReturns, TypeOK, LinkInv, coreVars, liveVars
<1>7. /\ \A d \in Command : verdict'[d] = "waiting" => verdict[d] = "waiting"
      /\ \A d \in Command : verdict'[d] # "none" <=> verdict[d] # "none"
  BY <1>3 DEF TypeOK, LinkTypeOK
<1>8. OneCall' /\ OneConnection'
  BY <1>3, <1>4, <1>7 DEF OneCall, OneConnection
<1>9. RpcSent' /\ RowsBehind' /\ GoesOn'
  <2>1. pc = "rpc" => <<cur, rpc>> \in Command
    BY StepIsCommand DEF RpcSent, TypeOK
  <2>2. QED
    BY <1>4, <1>7, <2>1 DEF RpcSent, RowsBehind, GoesOn
<1>10. NotAhead'
  <2>1. \A j \in 1..MaxSteps, r \in 1..6 : <<j, r>> \in Command
    BY BatchAssumption DEF StepCommand
  <2>2. QED
    BY <1>4, <1>7, <2>1 DEF NotAhead
<1>11. StepInStep'
  <2>1. SUFFICES ASSUME pc = "rpc", verdict'[<<cur, rpc>>] = "result", NEW r \in 1..6
                 PROVE  verdict'[<<cur, r>>] \in {"none", "result", "refused"}
    BY <1>4 DEF StepInStep
  <2>2. c = <<cur, rpc>>
    BY <1>3, <2>1 DEF OneCall
  <2>3. v = "result"
    BY <1>3, <2>1, <2>2 DEF TypeOK, LinkTypeOK
  <2>4. \A d \in Command : verdict[d] # "none" => verdict[d] \notin {"in_doubt", "failed"}
    BY <1>2, <2>3 DEF Broken, OneConnection
  <2>5. \A d \in Command : verdict[d] = "waiting" => d = c
    BY <2>1, <2>2 DEF OneCall
  <2>6. \A d \in Command : d # c => verdict[d] \in {"none", "result", "refused"}
    BY <2>4, <2>5 DEF TypeOK, LinkTypeOK, Verdict
  <2>7. <<cur, r>> \in Command
    BY <2>1, StepIsCommand DEF RpcSent
  <2>8. QED
    BY <1>3, <2>3, <2>6, <2>7 DEF TypeOK, LinkTypeOK
<1>12. AppliedRowsAreTrue'
  BY <1>3, <1>4 DEF AppliedRowsAreTrue, SettledStep
<1>13. NoDependentWriteAfterDoubt'
  <2>1. \A i \in Steps, r \in 1..6 : <<i, r>> \in Command
    BY StepIsCommand
  <2>2. \A i \in Steps : Sent(i)' => Sent(i)
    BY <1>7, <2>1 DEF Sent
  <2>3. QED
    BY <1>4, <2>2 DEF NoDependentWriteAfterDoubt
<1>14. QED
  BY <1>5, <1>6, <1>8, <1>9, <1>10, <1>11, <1>12, <1>13

-----------------------------------------------------------------------------
(* The step's RPCs return.                                                 *)

\* Each kind of step goes on with an RPC of its own or is recorded, APPLIED only
\* after a result.
LEMMA StepReturnsInv ==
    ASSUME BatchInv, PlainReturns \/ InputReturns \/ OutputReturns
    PROVE  BatchInv'
<1>1. \A v : Raised(v) \in RowStatus /\ Raised(v) # "APPLIED"
  BY DEF Raised, RowStatus
<1>2. "APPLIED" \in RowStatus /\ "FAILED" \in RowStatus
  BY DEF RowStatus
<1>3. ASSUME pc = "rpc", verdict[<<cur, rpc>>] \in Returned,
             NEW s \in RowStatus, Record(s), s = "APPLIED" => GotResult
      PROVE  BatchInv'
  BY <1>3, RecordInv
<1>4. ASSUME pc = "rpc", \E r \in 1..6 : Then(r) PROVE BatchInv'
  BY <1>4, ThenInv
<1>5. CASE PlainReturns
  <2>1. pc = "rpc" /\ verdict[<<cur, rpc>>] \in Returned
    BY <1>5 DEF PlainReturns, Got
  <2>2. PICK s \in RowStatus : Record(s) /\ (s = "APPLIED" => GotResult)
    BY <1>1, <1>2, <1>5 DEF PlainReturns
  <2>3. QED
    BY <1>3, <2>1, <2>2
<1>6. CASE InputReturns
  <2>1. pc = "rpc" /\ verdict[<<cur, rpc>>] \in Returned
    BY <1>6 DEF InputReturns, Got
  <2>2. \/ \E r \in 1..6 : Then(r)
        \/ \E s \in RowStatus : Record(s) /\ (s = "APPLIED" => GotResult)
    BY <1>1, <1>2, <1>6 DEF InputReturns
  <2>3. QED
    BY <1>3, <1>4, <2>1, <2>2
<1>7. CASE OutputReturns
  <2>1. pc = "rpc" /\ verdict[<<cur, rpc>>] \in Returned
    BY <1>7 DEF OutputReturns, Got
  <2>2. \/ \E r \in 1..6 : Then(r)
        \/ \E s \in RowStatus : Record(s) /\ (s = "APPLIED" => GotResult)
    BY <1>1, <1>2, <1>7 DEF OutputReturns
  <2>3. QED
    BY <1>3, <1>4, <2>1, <2>2
<1>8. QED
  BY <1>5, <1>6, <1>7

-----------------------------------------------------------------------------
(* The invariant, and the theorems.                                        *)

\* Nothing was sent and nothing is recorded when the batch starts.
LEMMA BatchInitInv == Init => BatchInv
<1> SUFFICES ASSUME Init PROVE BatchInv
  OBVIOUS
<1>1. LinkInv
  BY LinkInitInv DEF Init
<1>2. \A c \in Command : verdict[c] = "none"
  BY DEF Init, LinkInit
<1>3. plan \in Seq(Step)
  BY BatchAssumption DEF Init
<1>4. TypeOK
  <2>1. Len(plan) \in Nat
    BY <1>3
  <2>2. cur \in 1..(Len(plan) + 1) /\ rpc \in 1..6
    BY <2>1 DEF Init
  <2>3. /\ rows \in [Steps -> RowStatus \cup {"none"}]
        /\ reply \in [rows : [Steps -> RowStatus \cup {"none"}], status : BatchStatus \cup {"none"}]
    BY DEF Init, AllRows
  <2>4. plan \in Plans /\ ready \in BOOLEAN /\ compound \in BOOLEAN /\ cancelled = FALSE
    BY DEF Init
  <2>5. pc = "start" /\ stop = FALSE /\ inDoubt = FALSE /\ status = "none"
    BY DEF Init
  <2>6. QED
    BY <1>1, <2>2, <2>3, <2>4, <2>5 DEF TypeOK, LinkInv
<1>5. OneCall /\ OneConnection /\ RpcSent /\ StepInStep /\ GoesOn /\ RowsBehind
  BY <1>2 DEF Init, OneCall, OneConnection, RpcSent, StepInStep, GoesOn, RowsBehind, AllRows
<1>6. NotAhead
  <2>1. \A j \in 1..MaxSteps, r \in 1..6 : <<j, r>> \in Command
    BY BatchAssumption DEF StepCommand
  <2>2. QED
    BY <1>2, <2>1 DEF Init, NotAhead
<1>7. AppliedRowsAreTrue
  BY DEF Init, AllRows, AppliedRowsAreTrue
<1>8. NoDependentWriteAfterDoubt
  <2>1. \A j \in Steps : ~Sent(j)
    BY <1>4, <1>6, NothingSent DEF Init
  <2>2. QED
    BY <2>1 DEF NoDependentWriteAfterDoubt
<1>9. QED
  BY <1>1, <1>4, <1>5, <1>6, <1>7, <1>8 DEF BatchInv

\* A cancel only sets the flag; a step that changes nothing changes nothing.
LEMMA CancelInv == ASSUME BatchInv, Cancel \/ UNCHANGED vars PROVE BatchInv'
<1> USE DEF BatchInv
<1>1. /\ UNCHANGED <<linkVars, plan, ready, compound, pc, cur, rpc, stop, inDoubt, rows, status,
                     liveVars>>
      /\ cancelled' \in BOOLEAN
  BY DEF Cancel, vars, coreVars, TypeOK
<1>2. LinkInv'
  BY <1>1, LinkPart
<1>3. TypeOK'
  BY <1>1, <1>2 DEF TypeOK, LinkInv, Steps, liveVars
<1>4. OneCall' /\ OneConnection' /\ NotAhead' /\ RowsBehind' /\ RpcSent' /\ GoesOn' /\ StepInStep'
  BY <1>1
  DEF OneCall, OneConnection, NotAhead, RowsBehind, RpcSent, GoesOn, StepInStep, Steps, linkVars
<1>5. AppliedRowsAreTrue' /\ NoDependentWriteAfterDoubt'
  BY <1>1
  DEF AppliedRowsAreTrue, SettledStep, NoDependentWriteAfterDoubt, Sent, Steps, linkVars, liveVars
<1>6. QED
  BY <1>2, <1>3, <1>4, <1>5

\* Every step of the Core, the link, Live and the caller keeps the invariant.
LEMMA BatchStepInv == BatchInv /\ [Next]_vars => BatchInv'
<1> SUFFICES ASSUME BatchInv, [Next]_vars PROVE BatchInv'
  OBVIOUS
<1>1. CASE Core
  <2>1. CASE RejectBeforeDispatch \/ CompoundReturns \/ FinishSequential
    BY <2>1, EndInv
  <2>2. CASE SendCompound
    BY <2>2, SendCompoundInv
  <2>3. CASE StartSequential
    BY <2>3, StartInv
  <2>4. CASE SkipStep
    BY <2>4, SkipInv
  <2>5. CASE AttemptStep
    BY <2>5, AttemptInv
  <2>6. CASE PlainReturns \/ InputReturns \/ OutputReturns
    BY <2>6, StepReturnsInv
  <2>7. QED
    BY <1>1, <2>1, <2>2, <2>3, <2>4, <2>5, <2>6 DEF Core
<1>2. CASE CallReturns
  BY <1>2, CallReturnsInv
<1>3. CASE Live
  BY <1>3, LiveStepInv
<1>4. CASE Cancel \/ UNCHANGED vars
  BY <1>4, CancelInv
<1>5. QED
  BY <1>1, <1>2, <1>3, <1>4 DEF Next

\* The inductive invariant holds of every batch.
THEOREM BatchCorrect == Spec => []BatchInv
  BY BatchInitInv, BatchStepInv, PTL DEF Spec

\* The variables keep their types (execute_mutation_plan's rows and status).
THEOREM BatchTypeOK == Spec => []TypeOK
<1>1. BatchInv => TypeOK
  BY DEF BatchInv
<1>2. QED
  BY <1>1, BatchCorrect, PTL

\* A step that execute_mutation_plan reports APPLIED was carried out by Live, and
\* nothing of it is pending, for every plan and every order of losses.
THEOREM BatchAppliedRowsAreTrue == Spec => []AppliedRowsAreTrue
<1>1. BatchInv => AppliedRowsAreTrue
  BY DEF BatchInv
<1>2. QED
  BY <1>1, BatchCorrect, PTL

\* run_ordered_steps never sends a dependent step after a step that is not known
\* to be applied.
THEOREM BatchNoDependentWrite == Spec => []NoDependentWriteAfterDoubt
<1>1. BatchInv => NoDependentWriteAfterDoubt
  BY DEF BatchInv
<1>2. QED
  BY <1>1, BatchCorrect, PTL

-----------------------------------------------------------------------------
(* What the report of the whole batch promises.                            *)

\* The compound command was not sent, or Live did not know it.
Bypassed ==
    verdict[Compound] = "none" \/ (verdict[Compound] = "refused" /\ fate[Compound] = "untouched")

\* The steps are sent only when the compound command had no effect.
OneTransport ==
    /\ pc = "start" => verdict[Compound] = "none"
    /\ pc \in {"step", "rpc"} => Bypassed

\* The status is the last thing a batch gets.
StatusLast == pc # "done" => status = "none"

\* No RPC of a skipped step was sent.
SkippedUnsent ==
    pc \in {"step", "rpc"} => \A i \in Steps : rows[i] = "NOT_ATTEMPTED" => ~Sent(i)

OutcomeInv == OneTransport /\ StatusLast /\ SkippedUnsent /\ CompleteIsSettled
              /\ FailedBeforeSentNothing

\* Steps that send nothing and settle nothing anew, and report nothing.
LEMMA OutcomeStays ==
    ASSUME BatchInv, OutcomeInv, UNCHANGED <<plan, status>>,
           \A c \in Command : (verdict'[c] = "none" <=> verdict[c] = "none"),
           \A c \in Command : fate[c] # "pending" => fate'[c] = fate[c],
           verdict'[Compound] = verdict[Compound] \/ (pc = "compound" /\ pc' = "compound"),
           pc = "done" => pc' = "done",
           pc' = pc \/ (pc' = "step" /\ Bypassed),
           pc' \in {"step", "rpc"} =>
              \A i \in Steps : rows'[i] = "NOT_ATTEMPTED" => ~Sent(i)
    PROVE  OutcomeInv'
<1>1. Compound \in Command /\ SideEffect \subseteq Command /\ Steps' = Steps
  BY StepIsCommand, BatchAssumption DEF BatchInv, Steps
<1>2. OneTransport'
  BY <1>1 DEF OutcomeInv, OneTransport, Bypassed
<1>3. StatusLast'
  BY DEF OutcomeInv, StatusLast
<1>4. SkippedUnsent'
  <2>1. \A i \in Steps, r \in 1..6 : <<i, r>> \in Command
    BY StepIsCommand DEF BatchInv
  <2>2. \A i \in Steps : Sent(i)' => Sent(i)
    BY <2>1 DEF Sent
  <2>3. QED
    BY <1>1, <2>2 DEF SkippedUnsent
<1>5. CompleteIsSettled'
  BY DEF OutcomeInv, CompleteIsSettled
<1>6. FailedBeforeSentNothing'
  BY <1>1 DEF OutcomeInv, FailedBeforeSentNothing
<1>7. QED
  BY <1>2, <1>3, <1>4, <1>5, <1>6 DEF OutcomeInv

\* A command that is sent while the batch runs: no status is given yet.
LEMMA OutcomeSends ==
    ASSUME BatchInv, OutcomeInv, UNCHANGED <<plan, status, rows>>, pc # "done",
           NEW c \in Command, Issue(c),
           \/ c = Compound /\ pc' = "compound"
           \/ /\ c # Compound /\ pc \in {"step", "rpc"} /\ pc' = "rpc"
              /\ \E r \in 1..6 : c = <<cur, r>>
    PROVE  OutcomeInv'
<1>1. /\ status' = "none" /\ Steps' = Steps /\ rows' = rows
      /\ Compound \in Command /\ pc' # "done" /\ pc' # "start"
  BY StepIsCommand DEF OutcomeInv, StatusLast, BatchInv, Steps
<1>2. verdict' = [verdict EXCEPT ![c] = "waiting"]
  BY DEF Issue
<1>3. OneTransport'
  <2>1. c # Compound =>
           verdict'[Compound] = verdict[Compound] /\ fate'[Compound] = fate[Compound]
    BY <1>1, <1>2 DEF Issue, BatchInv, TypeOK, LinkTypeOK
  <2>2. QED
    BY <1>1, <2>1 DEF OutcomeInv, OneTransport, Bypassed
<1>4. SkippedUnsent'
  <2>1. SUFFICES ASSUME NEW i \in Steps, rows[i] = "NOT_ATTEMPTED", pc' = "rpc"
                 PROVE  ~Sent(i)'
    BY <1>1 DEF SkippedUnsent
  <2>2. pc \in {"step", "rpc"} /\ ~Sent(i) /\ \E r \in 1..6 : c = <<cur, r>>
    BY <2>1 DEF OutcomeInv, SkippedUnsent
  <2>3. i # cur
    BY <2>1, <2>2, StepIsCommand DEF BatchInv, RowsBehind, Steps
  <2>4. \A r \in 1..6 : <<i, r>> \in Command /\ <<i, r>> # c
    <3>1. \A r \in 1..6 : <<i, r>> \in Command
      BY StepIsCommand DEF BatchInv
    <3>2. PICK q \in 1..6 : c = <<cur, q>>
      BY <2>2
    <3>3. \A r \in 1..6 : <<i, r>> # <<cur, q>>
      BY <2>3
    <3>4. QED
      BY <3>1, <3>2, <3>3
  <2>5. QED
    BY <1>2, <2>2, <2>4 DEF Sent, BatchInv, TypeOK, LinkTypeOK
<1>5. QED
  BY <1>1, <1>3, <1>4 DEF OutcomeInv, StatusLast, CompleteIsSettled, FailedBeforeSentNothing

\* After the last step, a batch whose steps are all APPLIED has nothing pending.
LEMMA AllAppliedIsSettled ==
    ASSUME BatchInv, OutcomeInv, pc = "step", cur = Len(plan) + 1,
           \A i \in Steps : rows[i] = "APPLIED", NEW c \in Command
    PROVE  fate[c] # "pending"
<1>1. Compound \in Command /\ fate[Compound] \in {"unsent", "untouched"}
  <2>1. Compound \in Command /\ Bypassed
    BY StepIsCommand DEF BatchInv, OutcomeInv, OneTransport
  <2>2. QED
    BY <2>1 DEF BatchInv, LinkInv, SentIsKnown, Bypassed
<1>2. CASE c = Compound
  BY <1>1, <1>2
<1>3. CASE c # Compound
  <2>1. PICK i \in 1..MaxSteps, r \in 1..6 : c = <<i, r>>
    BY <1>3, BatchAssumption DEF StepCommand
  <2>2. CASE i \in Steps
    BY <1>1, <2>1, <2>2 DEF BatchInv, AppliedRowsAreTrue, SettledStep
  <2>3. CASE i \notin Steps
    <3>1. ~(i < cur)
      BY <2>3, StepIsCommand, BatchAssumption DEF BatchInv, Steps
    <3>2. verdict[c] = "none"
      BY <2>1, <3>1 DEF BatchInv, NotAhead
    <3>3. QED
      BY <3>2 DEF BatchInv, LinkInv, SentIsKnown
  <2>4. QED
    BY <2>2, <2>3
<1>4. QED
  BY <1>2, <1>3

\* After the last step, a batch whose steps were all skipped has sent none.
LEMMA AllSkippedIsUnsent ==
    ASSUME BatchInv, OutcomeInv, pc = "step", cur = Len(plan) + 1,
           \A i \in Steps : rows[i] = "NOT_ATTEMPTED", verdict[Compound] = "none",
           NEW c \in SideEffect
    PROVE  verdict[c] = "none"
<1>1. CASE c = Compound
  BY <1>1
<1>2. CASE c # Compound
  <2>1. PICK i \in 1..MaxSteps, r \in 1..6 : c = <<i, r>>
    BY <1>2, BatchAssumption DEF StepCommand
  <2>2. CASE i \in Steps
    BY <2>1, <2>2 DEF OutcomeInv, SkippedUnsent, Sent
  <2>3. CASE i \notin Steps
    <3>1. ~(i < cur)
      BY <2>3, StepIsCommand, BatchAssumption DEF BatchInv, Steps
    <3>2. QED
      BY <2>1, <3>1 DEF BatchInv, NotAhead
  <2>4. QED
    BY <2>2, <2>3
<1>3. QED
  BY <1>1, <1>2

\* Before anything was sent, no command has a verdict.
LEMMA StartIsUnsent ==
    ASSUME BatchInv, OutcomeInv, pc = "start", NEW c \in Command
    PROVE  verdict[c] = "none"
<1>1. CASE c = Compound
  BY <1>1 DEF OutcomeInv, OneTransport
<1>2. CASE c # Compound
  <2>1. PICK i \in 1..MaxSteps, r \in 1..6 : c = <<i, r>>
    BY <1>2, BatchAssumption DEF StepCommand
  <2>2. ~(i < cur)
    BY BatchAssumption DEF BatchInv, NotAhead
  <2>3. QED
    BY <2>1, <2>2 DEF BatchInv, NotAhead
<1>3. QED
  BY <1>1, <1>2

\* While the compound command is all that was sent, only it can be pending.
LEMMA CompoundAlone ==
    ASSUME BatchInv, pc = "compound", NEW c \in Command, c # Compound
    PROVE  fate[c] # "pending"
<1>1. PICK i \in 1..MaxSteps, r \in 1..6 : c = <<i, r>>
  BY BatchAssumption DEF StepCommand
<1>2. ~(i < cur)
  BY BatchAssumption DEF BatchInv, NotAhead
<1>3. verdict[c] = "none"
  BY <1>1, <1>2 DEF BatchInv, NotAhead
<1>4. QED
  BY <1>3 DEF BatchInv, LinkInv, SentIsKnown

\* The batch gets its status s.
LEMMA OutcomeReported ==
    ASSUME BatchInv, OutcomeInv, NEW r, NEW s, Report(r, s), UNCHANGED <<linkVars, liveVars>>,
           s = "COMPLETE" => \A c \in Command : fate[c] # "pending",
           s = "FAILED_BEFORE_EXECUTION" /\ verdict[Compound] = "none" =>
              \A c \in SideEffect : verdict[c] = "none"
    PROVE  OutcomeInv'
<1>1. pc' = "done" /\ status' = s /\ fate' = fate /\ verdict' = verdict
  BY DEF Report, linkVars
<1>2. QED
  BY <1>1 DEF OutcomeInv, OneTransport, StatusLast, SkippedUnsent, CompleteIsSettled,
              FailedBeforeSentNothing

LEMMA OutcomeEnds ==
    ASSUME BatchInv, OutcomeInv, RejectBeforeDispatch \/ CompoundReturns \/ FinishSequential
    PROVE  OutcomeInv'
<1>1. CASE RejectBeforeDispatch
  <2>1. \A c \in SideEffect : verdict[c] = "none"
    BY <1>1, StartIsUnsent, BatchAssumption DEF RejectBeforeDispatch
  <2>2. QED
    BY <1>1, <2>1, OutcomeReported DEF RejectBeforeDispatch
<1>2. CASE CompoundReturns
  <2>1. /\ pc = "compound" /\ UNCHANGED <<linkVars, liveVars>>
        /\ verdict[Compound] \in {"result", "in_doubt", "refused", "failed"}
    BY <1>2 DEF CompoundReturns
  <2>2. CASE verdict[Compound] = "result"
    <3>1. Report(reply.rows, reply.status)
      BY <1>2, <2>2 DEF CompoundReturns
    <3>2. fate[Compound] = "applied"
      BY <2>2, StepIsCommand DEF BatchInv, LinkInv, ResultIsApplied
    <3>3. \A c \in Command : fate[c] # "pending"
      BY <2>1, <3>2, CompoundAlone
    <3>4. QED
      BY <2>1, <2>2, <3>1, <3>3, OutcomeReported
  <2>3. CASE verdict[Compound] = "in_doubt"
    <3>1. Report(AllRows("UNKNOWN"), "IN_DOUBT")
      BY <1>2, <2>3 DEF CompoundReturns
    <3>2. QED
      BY <2>1, <3>1, OutcomeReported
  <2>4. CASE verdict[Compound] \in {"refused", "failed"}
    <3>1. Report(AllRows("NOT_ATTEMPTED"), "FAILED_BEFORE_EXECUTION")
      BY <1>2, <2>4 DEF CompoundReturns
    <3>2. QED
      BY <2>1, <2>4, <3>1, OutcomeReported
  <2>5. QED
    BY <2>1, <2>2, <2>3, <2>4
<1>3. CASE FinishSequential
  <2>1. /\ pc = "step" /\ cur = Len(plan) + 1 /\ UNCHANGED <<linkVars, liveVars>>
        /\ Report(rows, Classify(rows, inDoubt))
    BY <1>3 DEF FinishSequential
  <2>2. ASSUME Classify(rows, inDoubt) = "COMPLETE" PROVE \A c \in Command : fate[c] # "pending"
    <3>1. \A i \in Steps : rows[i] = "APPLIED"
      BY <2>2 DEF Classify
    <3>2. QED
      BY <2>1, <3>1, AllAppliedIsSettled
  <2>3. ASSUME Classify(rows, inDoubt) = "FAILED_BEFORE_EXECUTION", verdict[Compound] = "none"
        PROVE  \A c \in SideEffect : verdict[c] = "none"
    <3>1. \A i \in Steps : rows[i] = "NOT_ATTEMPTED"
      BY <2>3 DEF Classify
    <3>2. QED
      BY <2>1, <2>3, <3>1, AllSkippedIsUnsent
  <2>4. QED
    BY <2>1, <2>2, <2>3, OutcomeReported
<1>4. QED
  BY <1>1, <1>2, <1>3

\* A step is skipped or its last RPC is over: it gets a row, and NOT_ATTEMPTED
\* only if none of its RPCs was sent.
LEMMA OutcomeRow ==
    ASSUME BatchInv, OutcomeInv, pc \in {"step", "rpc"}, cur \in Steps, NEW s,
           s = "NOT_ATTEMPTED" => pc = "step",
           rows' = [rows EXCEPT ![cur] = s], pc' = "step", UNCHANGED linkVars,
           UNCHANGED <<plan, status>>
    PROVE  OutcomeInv'
<1>1. verdict' = verdict /\ fate' = fate
  BY DEF linkVars
<1>2. ASSUME NEW i \in Steps, rows'[i] = "NOT_ATTEMPTED" PROVE ~Sent(i)
  <2>1. CASE i # cur
    <3>1. rows[i] = "NOT_ATTEMPTED"
      BY <1>2, <2>1 DEF BatchInv, TypeOK
    <3>2. QED
      BY <3>1 DEF OutcomeInv, SkippedUnsent
  <2>2. CASE i = cur
    <3>1. pc = "step"
      BY <1>2, <2>2 DEF BatchInv, TypeOK
    <3>2. ~(i < cur) /\ i \in Nat
      BY <2>2, StepIsCommand DEF BatchInv, Steps
    <3>3. QED
      BY <3>1, <3>2, SentBehind DEF BatchInv
  <2>3. QED
    BY <2>1, <2>2
<1>3. Bypassed
  BY DEF OutcomeInv, OneTransport
<1>4. QED
  BY <1>1, <1>2, <1>3, OutcomeStays

LEMMA OutcomeStep ==
    ASSUME BatchInv, OutcomeInv, [Next]_vars
    PROVE  OutcomeInv'
<1>1. CASE RejectBeforeDispatch \/ CompoundReturns \/ FinishSequential
  BY <1>1, OutcomeEnds
<1>2. CASE SendCompound
  BY <1>2, OutcomeSends, StepIsCommand DEF SendCompound, BatchInv
<1>3. CASE StartSequential
  <2>1. /\ pc' = "step" /\ pc \in {"start", "compound"} /\ Bypassed
        /\ UNCHANGED <<verdict, fate, plan, status, rows>>
    BY <1>3 DEF StartSequential, linkVars, OutcomeInv, OneTransport, Bypassed
  <2>2. \A i \in Steps : ~Sent(i)
    BY <2>1, NothingSent DEF BatchInv
  <2>3. QED
    BY <2>1, <2>2, OutcomeStays
<1>4. CASE SkipStep
  <2>1. cur \in Steps
    BY <1>4, StepIsCommand DEF SkipStep, BatchInv, TypeOK, Steps
  <2>2. QED
    BY <1>4, <2>1, OutcomeRow DEF SkipStep
<1>5. CASE AttemptStep
  <2>1. cur \in Steps /\ FirstRpc(plan[cur].op) \in 1..6
    BY <1>5, StepIsCommand DEF AttemptStep, BatchInv, TypeOK, Steps, FirstRpc
  <2>2. <<cur, FirstRpc(plan[cur].op)>> \in Command /\ <<cur, FirstRpc(plan[cur].op)>> # Compound
    BY <2>1, StepIsCommand DEF BatchInv
  <2>3. QED
    BY <1>5, <2>1, <2>2, OutcomeSends DEF AttemptStep
<1>6. CASE PlainReturns \/ InputReturns \/ OutputReturns
  <2>1. pc = "rpc" /\ cur \in Steps
    BY <1>6 DEF PlainReturns, InputReturns, OutputReturns, Got, BatchInv, RpcSent
  <2>2. \/ \E s \in {"APPLIED", "FAILED", "UNKNOWN"} : Record(s)
        \/ \E r \in 1..6 : Then(r)
    BY <1>6 DEF PlainReturns, InputReturns, OutputReturns, Raised
  <2>3. ASSUME NEW s \in {"APPLIED", "FAILED", "UNKNOWN"}, Record(s) PROVE OutcomeInv'
    BY <2>1, <2>3, OutcomeRow DEF Record
  <2>4. ASSUME NEW r \in 1..6, Then(r) PROVE OutcomeInv'
    <3>1. <<cur, r>> \in Command /\ <<cur, r>> # Compound
      BY <2>1, StepIsCommand DEF BatchInv
    <3>2. QED
      BY <2>1, <2>4, <3>1, OutcomeSends DEF Then
  <2>5. QED
    BY <2>2, <2>3, <2>4
<1>7. CASE CallReturns
  <2>1. PICK c \in Command : Return(c)
    BY <1>7 DEF CallReturns
  <2>2. PICK v \in {"result", "refused", "in_doubt", "failed"} : Answer(c, v)
    BY <2>1 DEF Return, ReturnResult, ReturnRefused, ReturnInDoubt, ReturnFailed
  <2>3. /\ \A d \in Command : verdict'[d] = "none" <=> verdict[d] = "none"
        /\ fate' = fate /\ verdict[c] = "waiting"
        /\ c # Compound => verdict'[Compound] = verdict[Compound]
    BY <2>2, StepIsCommand DEF Answer, BatchInv, TypeOK, LinkTypeOK
  <2>4. pc = "compound" \/ c # Compound
    <3>1. \A i \in Steps, r \in 1..6 : <<i, r>> # Compound
      BY StepIsCommand DEF BatchInv
    <3>2. pc = "rpc" => cur \in Steps /\ rpc \in 1..6
      BY DEF BatchInv, RpcSent, TypeOK
    <3>3. QED
      BY <2>3, <3>1, <3>2 DEF BatchInv, OneCall
  <2>5. UNCHANGED <<plan, status, pc, rows>>
    BY <1>7 DEF CallReturns, coreVars
  <2>6. \A i \in Steps : pc \in {"step", "rpc"} /\ rows'[i] = "NOT_ATTEMPTED" => ~Sent(i)
    BY <2>5 DEF OutcomeInv, SkippedUnsent
  <2>7. QED
    BY <2>3, <2>4, <2>5, <2>6, OutcomeStays
<1>8. CASE Live
  <2>1. UNCHANGED <<plan, status, pc, rows, verdict>>
    BY <1>8 DEF Live, LiveRunsCompound, LiveRunsRpc, LiveRefuses, coreVars, Apply, Spoil,
           Run, Discard
  <2>2. \A c \in Command : fate[c] # "pending" => fate'[c] = fate[c]
    <3>1. CASE \E d \in Command : Apply(d)
      BY <3>1 DEF Apply, Run, BatchInv, TypeOK, LinkTypeOK
    <3>2. CASE \E d \in Command : Discard({d}) \/ Spoil(d)
      BY <3>2 DEF Discard, Spoil, Run, BatchInv, TypeOK, LinkTypeOK
    <3>3. QED
      BY <1>8, <3>1, <3>2, StepIsCommand, BatchAssumption
      DEF Live, LiveRunsCompound, LiveRunsRpc, LiveRefuses, BatchInv
  <2>3. \A i \in Steps : pc \in {"step", "rpc"} /\ rows'[i] = "NOT_ATTEMPTED" => ~Sent(i)
    BY <2>1 DEF OutcomeInv, SkippedUnsent
  <2>4. QED
    BY <2>1, <2>2, <2>3, OutcomeStays
<1>9. CASE Cancel \/ UNCHANGED vars
  <2>1. UNCHANGED <<plan, status, pc, rows, verdict, fate>>
    BY <1>9 DEF Cancel, vars, coreVars, linkVars
  <2>2. \A i \in Steps : pc \in {"step", "rpc"} /\ rows'[i] = "NOT_ATTEMPTED" => ~Sent(i)
    BY <2>1 DEF OutcomeInv, SkippedUnsent
  <2>3. QED
    BY <2>1, <2>2, OutcomeStays
<1>10. QED
  BY <1>1, <1>2, <1>3, <1>4, <1>5, <1>6, <1>7, <1>8, <1>9 DEF Next, Core

LEMMA OutcomeStarts == Init => OutcomeInv
<1> SUFFICES ASSUME Init PROVE OutcomeInv
  OBVIOUS
<1>1. verdict[Compound] = "none" /\ pc = "start" /\ status = "none"
  BY BatchAssumption DEF Init, LinkInit
<1>2. QED
  BY <1>1 DEF OutcomeInv, OneTransport, StatusLast, SkippedUnsent, CompleteIsSettled,
              FailedBeforeSentNothing

\* The report of a batch is true of all its commands.
THEOREM BatchOutcome == Spec => []OutcomeInv
<1>1. BatchInv /\ OutcomeInv /\ [Next]_vars => OutcomeInv'
  BY OutcomeStep
<1>2. QED
  BY <1>1, OutcomeStarts, BatchCorrect, PTL DEF Spec

\* COMPLETE, from the compound reply or from the steps, means that no write of
\* the batch is still to take effect, for every plan and every loss.
THEOREM BatchCompleteIsSettled == Spec => []CompleteIsSettled
<1>1. OutcomeInv => CompleteIsSettled
  BY DEF OutcomeInv
<1>2. QED
  BY <1>1, BatchOutcome, PTL

\* A step by step batch reported FAILED_BEFORE_EXECUTION has sent no write.
THEOREM BatchFailedBeforeSentNothing == Spec => []FailedBeforeSentNothing
<1>1. OutcomeInv => FailedBeforeSentNothing
  BY DEF OutcomeInv
<1>2. QED
  BY <1>1, BatchOutcome, PTL
-----------------------------------------------------------------------------
(* The batch on top of the link.                                           *)

\* A step of the batch, of Live or of the caller is a step of LiveLink: the
\* commands the batch sends are calls the link takes, one at a time.
LEMMA BatchLinkStep == ASSUME BatchInv, [Next]_vars PROVE [LinkNext]_linkVars
<1> USE DEF LinkNext
<1>1. TypeOK /\ Len(plan) \in Nat
  BY StepIsCommand DEF BatchInv
<1>2. CASE SendCompound
  BY <1>1, <1>2, StepIsCommand DEF SendCompound
<1>3. CASE AttemptStep
  <2>1. cur \in Steps /\ FirstRpc(plan[cur].op) \in 1..6
    BY <1>1, <1>3 DEF AttemptStep, TypeOK, Steps, FirstRpc
  <2>2. QED
    BY <1>1, <1>3, <2>1, StepIsCommand DEF AttemptStep
<1>4. ASSUME pc = "rpc", NEW r \in 1..6, Then(r) PROVE [LinkNext]_linkVars
  <2>1. cur \in Steps
    BY <1>4 DEF BatchInv, RpcSent
  <2>2. QED
    BY <1>1, <1>4, <2>1, StepIsCommand DEF Then
<1>5. CASE PlainReturns
  BY <1>5 DEF PlainReturns, Record, linkVars
<1>6. CASE InputReturns
  <2>1. CASE \E s \in RowStatus : Record(s)
    BY <2>1 DEF Record, linkVars
  <2>2. CASE pc = "rpc" /\ \E r \in {1, 3, 4, 6} : Then(r)
    BY <1>4, <2>2
  <2>3. QED
    BY <1>6, <2>1, <2>2 DEF InputReturns, Got, Raised, RowStatus
<1>7. CASE OutputReturns
  <2>1. CASE \E s \in RowStatus : Record(s)
    BY <2>1 DEF Record, linkVars
  <2>2. CASE pc = "rpc" /\ Then(3)
    BY <1>4, <2>2
  <2>3. QED
    BY <1>7, <2>1, <2>2 DEF OutputReturns, Got, Raised, RowStatus
<1>8. CASE RejectBeforeDispatch \/ StartSequential \/ CompoundReturns \/ SkipStep \/ FinishSequential
  BY <1>8 DEF RejectBeforeDispatch, StartSequential, CompoundReturns, SkipStep, FinishSequential
<1>9. CASE Live
  <2>1. Settle
    BY <1>1, <1>9, StepIsCommand, BatchAssumption
    DEF Live, LiveRunsCompound, LiveRunsRpc, LiveRefuses, Settle
  <2>2. QED
    BY <2>1
<1>10. CASE CallReturns
  BY <1>10 DEF CallReturns
<1>11. CASE Cancel \/ UNCHANGED vars
  BY <1>11 DEF Cancel, vars
<1>12. QED
  BY <1>2, <1>3, <1>5, <1>6, <1>7, <1>8, <1>9, <1>10, <1>11 DEF Next, Core

\* execute_mutation_plan uses the link as LiveLink allows: with CommandLink's
\* implementation of it, what the batch concludes from a verdict is what the
\* adapter, the bridge and Live really do.
THEOREM BatchUsesLink == Spec => LinkSpec
<1>1. Init => LinkInit
  BY DEF Init
<1>2. BatchInv /\ [Next]_vars => [LinkNext]_linkVars
  BY BatchLinkStep
<1>3. QED
  BY <1>1, <1>2, BatchCorrect, PTL DEF Spec, LinkSpec
-----------------------------------------------------------------------------
(* The batch comes to an end.                                              *)

\* How many RPCs of its step the RPC r closes, in the order they are sent.
Stage(op, r) ==
    CASE r = 2 -> 1
      [] r = 1 -> IF op = "input" THEN 2 ELSE 1
      [] r = 4 -> 3
      [] OTHER -> IF op = "input" THEN 4 ELSE 2

\* What is left of the batch: five for every step, less the RPCs it has used.
Remaining ==
    CASE pc = "start"    -> 5 * (Len(plan) + 1 - cur) + 3
      [] pc = "compound" -> 5 * (Len(plan) + 1 - cur) + 2
      [] pc = "step"     -> 5 * (Len(plan) + 1 - cur) + 1
      [] pc = "rpc"      -> 5 * (Len(plan) + 1 - cur) + 1 - Stage(plan[cur].op, rpc)
      [] OTHER           -> 0

LEMMA StageType == \A op, r : Stage(op, r) \in 1..4
  BY DEF Stage

RemainingFits == Remaining \in Nat /\ (pc # "done" => Remaining > 0)

LEMMA RemainingType == BatchInv => RemainingFits
<1> SUFFICES ASSUME BatchInv PROVE RemainingFits
  OBVIOUS
<1>1. Len(plan) + 1 - cur \in Nat /\ (pc = "rpc" => Len(plan) + 1 - cur > 0)
  BY StepIsCommand DEF BatchInv, TypeOK, RpcSent, Steps
<1>2. pc \in {"start", "compound", "step", "rpc", "done"}
  BY DEF BatchInv, TypeOK
<1> HIDE DEF BatchInv
<1>3. Stage(plan[cur].op, rpc) \in 1..4
  BY StageType
<1> QED BY <1>1, <1>2, <1>3 DEF Remaining, RemainingFits

\* Every line of execute_mutation_plan that the model steps over brings the batch
\* nearer to its end, and nothing else takes it away from it.
LEMMA RemainingStep ==
    BatchInv /\ RemainingFits /\ RemainingFits' /\ [Next]_vars
        => Remaining \in Nat /\ Remaining' <= Remaining /\ (Core => Remaining' < Remaining)
<1> SUFFICES ASSUME BatchInv, RemainingFits, RemainingFits', [Next]_vars
             PROVE  Remaining' <= Remaining /\ (Core => Remaining' < Remaining)
  BY DEF RemainingFits
<1> DEFINE left == Len(plan) + 1 - cur
<1>r. /\ Remaining \in Nat /\ Remaining' \in Nat
      /\ pc # "done" => Remaining > 0
      /\ Stage(plan[cur].op, rpc) \in 1..4
      /\ Stage(plan'[cur'].op, rpc') \in 1..4
  BY StageType DEF RemainingFits
<1>t. left \in Nat /\ Len(plan) \in Nat /\ cur \in Nat
  BY StepIsCommand DEF BatchInv, TypeOK
<1>1. ASSUME UNCHANGED <<plan, pc, cur, rpc>> PROVE Remaining' = Remaining
  <2>1. (Len(plan) + 1 - cur)' = Len(plan) + 1 - cur
    BY <1>1
  <2>2. Stage(plan[cur].op, rpc)' = Stage(plan[cur].op, rpc)
    BY <1>1 DEF Stage
  <2> QED BY <1>1, <2>1, <2>2 DEF Remaining
<1>2. CASE \/ RejectBeforeDispatch \/ CompoundReturns \/ FinishSequential
  <2>1. pc # "done" /\ pc' = "done"
    BY <1>2 DEF RejectBeforeDispatch, CompoundReturns, FinishSequential, Report
  <2>2. Remaining' = 0
    BY <2>1 DEF Remaining
  <2> QED BY <1>r, <1>t, <2>1, <2>2
<1>3. CASE SendCompound \/ StartSequential
  <2>1. /\ UNCHANGED <<plan, cur>>
        /\ \/ pc = "start" /\ pc' = "compound"
           \/ pc \in {"start", "compound"} /\ pc' = "step"
    BY <1>3 DEF SendCompound, StartSequential
  <2> QED BY <1>r, <1>t, <2>1 DEF Remaining
<1>4. CASE SkipStep
  <2>1. plan' = plan /\ pc = "step" /\ pc' = "step" /\ cur' = cur + 1
    BY <1>4 DEF SkipStep
  <2>2. Remaining = 5 * left + 1 /\ Remaining' = 5 * (left - 1) + 1
    BY <1>r, <1>t, <2>1 DEF Remaining
  <2> QED BY <1>r, <1>t, <2>2
<1>5. CASE AttemptStep
  <2>1. UNCHANGED <<plan, cur>> /\ pc = "step" /\ pc' = "rpc"
    BY <1>5 DEF AttemptStep
  <2>2. Remaining = 5 * left + 1 /\ Remaining' = 5 * left + 1 - Stage(plan[cur].op, rpc)'
    BY <2>1 DEF Remaining
  <2> QED BY <1>r, <1>t, <2>2
<1>6. ASSUME pc = "rpc", NEW s \in RowStatus, Record(s) PROVE Remaining' < Remaining
  <2>1. plan' = plan /\ pc' = "step" /\ cur' = cur + 1
    BY <1>6 DEF Record
  <2>2. Remaining = 5 * left + 1 - Stage(plan[cur].op, rpc) /\ Remaining' = 5 * (left - 1) + 1
    BY <1>r, <1>t, <1>6, <2>1 DEF Remaining
  <2> QED BY <1>r, <1>t, <2>2
<1>7. ASSUME pc = "rpc", NEW r \in 1..6, Then(r),
             Stage(plan[cur].op, rpc) < Stage(plan[cur].op, r)
      PROVE  Remaining' < Remaining
  <2>1. UNCHANGED <<plan, pc, cur>> /\ rpc' = r
    BY <1>7 DEF Then
  <2>2. /\ Remaining = 5 * left + 1 - Stage(plan[cur].op, rpc)
        /\ Remaining' = 5 * left + 1 - Stage(plan[cur].op, r)
    BY <1>7, <2>1 DEF Remaining
  <2>3. Stage(plan[cur].op, r) \in 1..4
    BY StageType
  <2> QED BY <1>r, <1>t, <1>7, <2>2, <2>3
<1>8. CASE PlainReturns \/ InputReturns \/ OutputReturns
  <2>1. pc = "rpc"
    BY <1>8 DEF PlainReturns, InputReturns, OutputReturns, Got
  <2>2. \/ \E s \in RowStatus : Record(s)
        \/ \E r \in 1..6 : Then(r) /\ Stage(plan[cur].op, rpc) < Stage(plan[cur].op, r)
    <3>1. CASE PlainReturns
      BY <3>1 DEF PlainReturns, Raised, RowStatus
    <3>2. CASE InputReturns
      BY <3>2 DEF InputReturns, Got, Raised, RowStatus, Stage
    <3>3. CASE OutputReturns
      BY <3>3 DEF OutputReturns, Got, Raised, RowStatus, Stage
    <3> QED BY <1>8, <3>1, <3>2, <3>3
  <2> QED BY <1>r, <1>t, <1>6, <1>7, <2>1, <2>2
<1>9. CASE CallReturns \/ Live \/ Cancel \/ UNCHANGED vars
  <2>1. UNCHANGED <<plan, pc, cur, rpc>>
    BY <1>9 DEF CallReturns, Live, LiveRunsCompound, LiveRunsRpc, LiveRefuses, Cancel, coreVars, vars
  <2>2. Core => Remaining' < Remaining
    BY <1>2, <1>3, <1>4, <1>5, <1>8 DEF Core
  <2> QED BY <1>1, <1>r, <2>1, <2>2
<1> QED BY <1>r, <1>t, <1>2, <1>3, <1>4, <1>5, <1>8, <1>9 DEF Next, Core

\* No batch goes on for ever: what is left of it is a number that every step of
\* execute_mutation_plan makes smaller and nothing else changes, whatever is
\* refused, lost or cancelled. A batch of n steps is over after 5n + 3 of them.
THEOREM BatchRunsDown ==
    Spec => [][/\ Remaining \in Nat /\ Remaining' <= Remaining
               /\ Core => Remaining' < Remaining]_vars
<1>1. BatchInv /\ RemainingFits /\ RemainingFits' /\ [Next]_vars =>
        [/\ Remaining \in Nat /\ Remaining' <= Remaining
         /\ Core => Remaining' < Remaining]_vars
  BY RemainingStep
<1> QED BY <1>1, RemainingType, BatchCorrect, PTL DEF Spec
=============================================================================
