--------------------------- MODULE MutationBatch ---------------------------
(***************************************************************************)
(* execute_mutation_plan: the temporary writes that park, route and restore*)
(* capture hosts, sent to Live as one compound command or step by step.    *)
(*                                                                         *)
(* The module adds the Core's side to LiveLink: which RPC follows which,   *)
(* what stops the batch, and what each step and the batch are reported as. *)
(* The order of RPCs inside a step is the code's; their arguments are not  *)
(* modelled, what Live makes of each one is a choice of the link.          *)
(***************************************************************************)
EXTENDS LiveLink, Sequences, FiniteSets

CONSTANTS
    Plans,    \* the step sequences the compilers can produce
    MaxSteps  \* bound: the longest of them

\* A parameter, send or monitoring value; a routing whose type is given; an
\* input routing to find by name; an output routing to pick from candidates.
Op == {"value", "routing", "input", "output"}
Step == [host : Nat, op : Op, independent : BOOLEAN]

\* RPC r of step i is the command <<i, r>>; odd numbers are writes, even reads.
Compound == <<0, 1>>
StepCommand == (1..MaxSteps) \X (1..6)

ASSUME BatchAssumption ==
    /\ MaxSteps \in Nat
    /\ Command = {Compound} \cup StepCommand
    /\ SideEffect = {Compound} \cup {c \in StepCommand : c[2] \in {1, 3}}
    /\ Plans \subseteq Seq(Step)
    /\ \A p \in Plans : Len(p) <= MaxSteps

VARIABLES
    plan,      \* MutationBatch.steps
    ready,     \* prestate and journals are persisted, the project matches
    compound,  \* compound_available(daw) and the adapter has the method
    cancelled, \* the caller's cancel callable
    pc,        \* where execute_mutation_plan is
    cur,       \* the step run_ordered_steps is at
    rpc,       \* the RPC of that step being waited for
    stop, inDoubt, \* run_ordered_steps' flags
    rows,      \* the step results so far
    status,    \* the batch status, once reported
    reply      \* what Live's compound handler computed: step rows and status

coreVars == <<plan, ready, compound, cancelled, pc, cur, rpc, stop, inDoubt, rows, status>>
liveVars == <<reply>>
vars == <<linkVars, coreVars, liveVars>>

RowStatus == {"APPLIED", "FAILED", "NOT_ATTEMPTED", "UNKNOWN"}
BatchStatus == {"COMPLETE", "PARTIAL_FAILURE", "FAILED_BEFORE_EXECUTION", "IN_DOUBT"}
Steps == 1..Len(plan)

\* Every row of a batch that was never sent, or was refused as a whole.
AllRows(s) == [i \in Steps |-> s]

TypeOK ==
    /\ LinkTypeOK
    /\ plan \in Plans
    /\ ready \in BOOLEAN /\ compound \in BOOLEAN /\ cancelled \in BOOLEAN
    /\ pc \in {"start", "compound", "step", "rpc", "done"}
    /\ cur \in 1..(Len(plan) + 1)
    /\ rpc \in 1..6
    /\ stop \in BOOLEAN /\ inDoubt \in BOOLEAN
    /\ rows \in [Steps -> RowStatus \cup {"none"}]
    /\ status \in BatchStatus \cup {"none"}
    /\ reply \in [rows : [Steps -> RowStatus \cup {"none"}], status : BatchStatus \cup {"none"}]

Init ==
    /\ LinkInit
    /\ plan \in Plans
    /\ ready \in BOOLEAN
    /\ compound \in BOOLEAN
    /\ cancelled = FALSE
    /\ pc = "start"
    /\ cur = 1
    /\ rpc = 1
    /\ stop = FALSE /\ inDoubt = FALSE
    /\ rows = AllRows("none")
    /\ status = "none"
    /\ reply = [rows |-> AllRows("none"), status |-> "none"]

Report(r, s) ==
    /\ rows' = r
    /\ status' = s
    /\ pc' = "done"
    /\ UNCHANGED <<plan, ready, compound, cancelled, cur, rpc, stop, inDoubt>>

-----------------------------------------------------------------------------
(* The compound transport.                                                 *)

\* Validation, the project check and a cancel come before any byte is sent.
RejectBeforeDispatch ==
    /\ pc = "start"
    /\ ~ready \/ cancelled
    /\ Report(AllRows("NOT_ATTEMPTED"), "FAILED_BEFORE_EXECUTION")
    /\ UNCHANGED <<linkVars, liveVars>>

SendCompound ==
    /\ pc = "start" /\ ready /\ ~cancelled /\ compound
    /\ Issue(Compound)
    /\ pc' = "compound"
    /\ UNCHANGED <<plan, ready, compound, cancelled, cur, rpc, stop, inDoubt, rows, status, liveVars>>

\* No compound transport, or the bridge answers "Unknown command": then it has
\* run nothing of it.
StartSequential ==
    /\ \/ pc = "start" /\ ready /\ ~cancelled /\ ~compound
       \/ pc = "compound" /\ verdict[Compound] = "refused" /\ fate[Compound] = "untouched"
    /\ pc' = "step"
    /\ UNCHANGED <<linkVars, plan, ready, compound, cancelled, cur, rpc, stop, inDoubt,
                   rows, status, liveVars>>

\* Mutant: a refused or failed compound command is not handled.
CompoundReturnsHandled ==
    /\ pc = "compound"
    /\ \/ verdict[Compound] = "result" /\ Report(reply.rows, reply.status)
       \/ verdict[Compound] = "in_doubt" /\ Report(AllRows("UNKNOWN"), "IN_DOUBT")
    /\ UNCHANGED <<linkVars, liveVars>>

CompoundReturns ==
    /\ pc = "compound"
    /\ CASE verdict[Compound] = "result"   -> Report(reply.rows, reply.status)
         [] verdict[Compound] = "in_doubt" -> Report(AllRows("UNKNOWN"), "IN_DOUBT")
         [] verdict[Compound] \in {"refused", "failed"} ->
              Report(AllRows("NOT_ATTEMPTED"), "FAILED_BEFORE_EXECUTION")
         [] OTHER -> FALSE
    /\ UNCHANGED <<linkVars, liveVars>>

-----------------------------------------------------------------------------
(* The sequential transport: run_ordered_steps over _apply_sequential_step.*)

\* Mutant: a batch none of whose steps was applied counts as never sent.
ClassifyNoneApplied(r, doubt) ==
    IF doubt THEN "IN_DOUBT"
    ELSE IF \A i \in Steps : r[i] = "APPLIED" THEN "COMPLETE"
    ELSE IF \A i \in Steps : r[i] # "APPLIED" THEN "FAILED_BEFORE_EXECUTION"
    ELSE "PARTIAL_FAILURE"

\* _classify_batch
Classify(r, doubt) ==
    IF doubt THEN "IN_DOUBT"
    ELSE IF \E i \in Steps : r[i] = "UNKNOWN" THEN "IN_DOUBT"
    ELSE IF \A i \in Steps : r[i] = "APPLIED" THEN "COMPLETE"
    ELSE IF \A i \in Steps : r[i] = "NOT_ATTEMPTED" THEN "FAILED_BEFORE_EXECUTION"
    ELSE "PARTIAL_FAILURE"

FirstRpc(op) == IF op = "input" THEN 2 ELSE 1

SkipStep ==
    /\ pc = "step" /\ cur <= Len(plan)
    /\ stop \/ cancelled
    /\ ~plan[cur].independent
    /\ rows' = [rows EXCEPT ![cur] = "NOT_ATTEMPTED"]
    /\ cur' = cur + 1
    /\ stop' = TRUE
    /\ UNCHANGED <<linkVars, plan, ready, compound, cancelled, pc, rpc, inDoubt, status, liveVars>>

AttemptStep ==
    /\ pc = "step" /\ cur <= Len(plan)
    /\ (stop \/ cancelled) => plan[cur].independent
    /\ stop' = (stop \/ cancelled)
    /\ rpc' = FirstRpc(plan[cur].op)
    /\ Issue(<<cur, FirstRpc(plan[cur].op)>>)
    /\ pc' = "rpc"
    /\ UNCHANGED <<plan, ready, compound, cancelled, cur, inDoubt, rows, status, liveVars>>

\* Mutant: doubt about a step does not stop the batch.
RecordAndGoOn(s) ==
    /\ rows' = [rows EXCEPT ![cur] = s]
    /\ stop' = (stop \/ s = "FAILED")
    /\ inDoubt' = (inDoubt \/ s = "UNKNOWN")
    /\ cur' = cur + 1
    /\ pc' = "step"
    /\ UNCHANGED <<linkVars, plan, ready, compound, cancelled, rpc, status, liveVars>>

\* The step's last RPC is over and the step is recorded as s.
Record(s) ==
    /\ rows' = [rows EXCEPT ![cur] = s]
    /\ stop' = (stop \/ s # "APPLIED")
    /\ inDoubt' = (inDoubt \/ s = "UNKNOWN")
    /\ cur' = cur + 1
    /\ pc' = "step"
    /\ UNCHANGED <<linkVars, plan, ready, compound, cancelled, rpc, status, liveVars>>

\* The step goes on with RPC r.
Then(r) ==
    /\ Issue(<<cur, r>>)
    /\ rpc' = r
    /\ UNCHANGED <<plan, ready, compound, cancelled, pc, cur, stop, inDoubt, rows, status, liveVars>>

\* The row an exception makes: WriteInDoubt is UNKNOWN, any other is FAILED.
Raised(v) == IF v = "in_doubt" THEN "UNKNOWN" ELSE "FAILED"

Returned == {"result", "refused", "in_doubt", "failed"}
Got(op, r) == pc = "rpc" /\ plan[cur].op = op /\ rpc = r /\ verdict[<<cur, r>>] \in Returned
GotResult == verdict[<<cur, rpc>>] = "result"

\* Mutant: a write without an answer is taken for applied.
PlainReturnsTrusting ==
    /\ Got("value", 1) \/ Got("routing", 1)
    /\ Record(IF verdict[<<cur, 1>>] = "refused" THEN "FAILED" ELSE "APPLIED")

PlainReturns ==
    /\ Got("value", 1) \/ Got("routing", 1)
    /\ Record(IF GotResult THEN "APPLIED" ELSE Raised(verdict[<<cur, 1>>]))

\* Input routing by name: read the inputs (2), set the type (1), read the
\* channels (4), then set the channel (3) or read the routing back (6).
InputReturns ==
    \/ /\ Got("input", 2)
       /\ \/ GotResult /\ Then(1)
          \/ Record("FAILED") \* the read failed, or no input has the name
    \/ /\ Got("input", 1)
       /\ IF GotResult THEN Then(4) ELSE Record(Raised(verdict[<<cur, 1>>]))
    \/ /\ Got("input", 4)
       /\ IF GotResult THEN Then(3) \/ Then(6) ELSE Record("FAILED")
    \/ \E last \in {3, 6} :
          /\ Got("input", last)
          /\ Record(IF GotResult THEN "APPLIED" ELSE Raised(verdict[<<cur, last>>]))

\* Output routing by candidates: "No Output" (1), then "Sends Only" (3). Any
\* DawError, or a routing that still observes Main, moves on to the next; the
\* last error is raised after the last candidate.
OutputReturns ==
    \/ /\ Got("output", 1)
       /\ \/ GotResult /\ Record("APPLIED")
          \/ Then(3)
    \/ /\ Got("output", 3)
       /\ \/ GotResult /\ Record("APPLIED")
          \/ GotResult /\ Record(Raised(verdict[<<cur, 1>>]))
          \/ ~GotResult /\ Record(Raised(verdict[<<cur, 3>>]))

FinishSequential ==
    /\ pc = "step" /\ cur = Len(plan) + 1
    /\ Report(rows, Classify(rows, inDoubt))
    /\ UNCHANGED <<linkVars, liveVars>>

-----------------------------------------------------------------------------
(* Live, and the caller.                                                   *)

\* _execute_mutation_batch on the main thread, when failing is the set of steps
\* whose operation would raise: all up to the first of them is attempted, then
\* only the independent steps.
RemoteRows(failing) ==
    [i \in Steps |->
        IF (\A j \in failing : i <= j) \/ plan[i].independent
        THEN IF i \in failing THEN "FAILED" ELSE "APPLIED"
        ELSE "NOT_ATTEMPTED"]

\* Mutant: the batch status is the envelope's, "success".
RemoteReplyEnvelope ==
    {[rows |-> RemoteRows(failing), status |-> "success"] : failing \in SUBSET Steps}

RemoteReply ==
    {[rows |-> AllRows("NOT_ATTEMPTED"), status |-> "FAILED_BEFORE_EXECUTION"]}
    \cup {[rows |-> RemoteRows(failing),
           status |-> IF failing = {} THEN "COMPLETE" ELSE "PARTIAL_FAILURE"] :
             failing \in SUBSET Steps}

LiveRunsCompound ==
    /\ Apply(Compound)
    /\ reply' \in RemoteReply
    /\ UNCHANGED coreVars

\* A routing call whose type Live does not find is carried out too: the single-command
\* handlers answer it with type_matched False, the compound handler raises.
LiveRunsRpc ==
    /\ \E c \in StepCommand : Apply(c)
    /\ UNCHANGED <<coreVars, reply>>

\* A handler raises, before it changed anything or after, or never runs.
LiveRefuses ==
    /\ \E c \in Command : Discard({c}) \/ Spoil(c)
    /\ UNCHANGED <<coreVars, liveVars>>

CallReturns ==
    /\ \E c \in Command : Return(c)
    /\ UNCHANGED <<coreVars, liveVars>>

Cancel ==
    /\ pc # "done" /\ ~cancelled
    /\ cancelled' = TRUE
    /\ UNCHANGED <<linkVars, plan, ready, compound, pc, cur, rpc, stop, inDoubt, rows, status, liveVars>>

Core ==
    \/ RejectBeforeDispatch \/ SendCompound \/ StartSequential \/ CompoundReturns
    \/ SkipStep \/ AttemptStep \/ PlainReturns \/ InputReturns \/ OutputReturns
    \/ FinishSequential

Live == LiveRunsCompound \/ LiveRunsRpc \/ LiveRefuses

Next == Core \/ CallReturns \/ Live \/ Cancel

\* The Core runs on, and every call returns (CommandLink!EveryCallReturns).
Spec == Init /\ [][Next]_vars /\ WF_vars(Core) /\ WF_vars(CallReturns)

-----------------------------------------------------------------------------
(* Properties.                                                             *)

Sent(i) == \E r \in 1..6 : verdict[<<i, r>>] # "none"
SettledStep(i) == \A r \in 1..6 : fate[<<i, r>>] # "pending"

\* A step reported APPLIED was carried out by Live and nothing of it is still to
\* happen: a late reply or a second candidate never passes for the step's own.
AppliedRowsAreTrue ==
    \A i \in Steps : rows[i] = "APPLIED" =>
        \/ fate[Compound] = "applied" /\ reply.rows[i] = "APPLIED"
        \/ SettledStep(i) /\ \E r \in 1..6 : fate[<<i, r>>] = "applied"

\* COMPLETE closes the batch: no write of it is pending in Live, so nothing that
\* the capture pass does next can be overtaken by one.
CompleteIsSettled ==
    status = "COMPLETE" => \A c \in Command : fate[c] # "pending"

\* A dependent step is sent only when every step before it is known to be
\* applied: nothing is stacked on a failure, on doubt or on a cancel.
NoDependentWriteAfterDoubt ==
    \A j \in Steps : Sent(j) /\ ~plan[j].independent =>
        \A i \in Steps : i < j => rows[i] = "APPLIED"

\* FAILED_BEFORE_EXECUTION of a batch that went step by step: no write of it
\* ever left the Core.
FailedBeforeSentNothing ==
    status = "FAILED_BEFORE_EXECUTION" /\ verdict[Compound] = "none" =>
        \A c \in SideEffect : verdict[c] = "none"

\* A batch always ends, whatever the link does, since every call returns.
BatchEnds == <>(pc = "done")
=============================================================================
