----------------------------- MODULE SafeWrite -----------------------------
(***************************************************************************)
(* SafeWriteExecutor.run with the TransactionManager it drives: the steps  *)
(* of one production intent are journaled, written to Live one at a time,  *)
(* read back, and kept or rolled back.                                     *)
(*                                                                         *)
(* The module adds the Core's side to LiveLink, and what Live shows of its *)
(* tracks. One read stands for the RPCs of one snapshot; what it shows is  *)
(* what Live shows when the run goes on, and an edit of the user in between*)
(* is one made before. No read returns a result once the connection missed *)
(* a reply (LiveLink), so the branches that settle a write in doubt from a *)
(* fresh snapshot are never taken.                                         *)
(***************************************************************************)
EXTENDS LiveLink, Integers, SequencesExt

CONSTANTS
    Plans,    \* the executions of the intents the compiler produces
    MaxSteps, \* bound: the longest of them
    Track,    \* Live's tracks, those a plan creates included
    Session,  \* the order of the tracks when the run starts
    Shape,    \* Shape[t]: what a fingerprint holds of t at that time
    Editable  \* bound: the tracks the user edits during the run, once each

Kind == {"volume", "parameter", "device", "create", "pattern", "arrangement"}
Step == [kind : Kind, track : Track, index : Int]

StepCall == {"before", "write", "fill", "look", "doubt", "created", "undo"}
RunCall == {"snapshot", "readback", "current", "resolve", "restored"}
WriteCall == {"write", "fill", "undo"}

ASSUME SafeWriteAssumption ==
    /\ MaxSteps \in Nat \ {0}
    /\ Command = (StepCall \X (1..MaxSteps)) \cup (RunCall \X {0})
    /\ SideEffect = WriteCall \X (1..MaxSteps)
    /\ Plans \subseteq Seq(Step)
    /\ \A p \in Plans : Len(p) \in 1..MaxSteps
    /\ Session \in Seq(Track)
    /\ Shape \in [Track -> SUBSET UNION {Shape[t] : t \in Track}]
    /\ Editable \subseteq Track

VARIABLES
    plan, decision, \* intent.executions and intent.decision_after_verify
    cancelled,      \* WriteCancellation.requested
    pc, cur,        \* where the run is, and at which step
    recorded,       \* txn.actions, by the number of their step
    print,          \* action.target_fingerprint
    seen,           \* the fingerprint of resolved[action_id]
    addr,           \* the track index _rollback_actions resolved for each inverse
    txn,            \* the status of the open transaction, "none" or "closed"
    last,           \* the transaction's last journal record
    why, outcome,   \* what made the run roll back; what it returned
    live, look,     \* Live's tracks in order, and what a fingerprint shows of each
    struck          \* the track each inverse took effect on

runVars == <<pc, cur, recorded, print, seen, addr, txn, last, why, outcome>>
intentVars == <<plan, decision, cancelled>>
dawVars == <<live, look, struck>>
vars == <<linkVars, runVars, intentVars, dawVars>>

StepNo == 1..MaxSteps
Steps == 1..Len(plan)
Feature == Track \cup {"midi", "device", "clip", "notes"} \cup (UNION {Shape[t] : t \in Track})
Status == {"none", "PLANNED", "PREPARED", "SENT", "APPLIED", "VERIFIED", "IN_DOUBT",
           "ROLLED_BACK", "ROLLBACK_CONFLICT", "FAILED"}
Reason == {"PARTIAL_FAILURE", "CANCELLED", "READBACK_MISMATCH", "ROLLBACK", "direct"}
Outcome == {"PRECONDITION_FAILED", "EXECUTION_FAILED", "PARTIAL_FAILURE", "IN_DOUBT",
            "READBACK_MISMATCH", "ROLLBACK_FAILED", "CANCELLED", "ROLLBACK", "KEEP"}

TypeOK ==
    /\ LinkTypeOK
    /\ plan \in Plans /\ decision \in {"KEEP", "ROLLBACK"} /\ cancelled \in BOOLEAN
    /\ pc \in StepCall \cup RunCall \cup {"check", "planned", "step", "abort", "done", "crashed"}
    /\ cur \in 1..(MaxSteps + 1)
    /\ recorded \subseteq Steps
    /\ print \in [StepNo -> SUBSET Feature]
    /\ seen \in [Track -> SUBSET Feature]
    /\ addr \in [StepNo -> Nat]
    /\ txn \in Status \cup {"closed"}
    /\ last \in [kind : {"none", "write", "prepare", "rollback", "commit", "fail"}, status : Status]
    /\ why \in Reason \cup {"none"} /\ outcome \in Outcome \cup {"none"}
    /\ live \in Seq(Track) /\ look \in [Track -> SUBSET Feature]
    /\ struck \in [StepNo -> Track \cup {"none"}]

Init ==
    /\ LinkInit
    /\ plan \in Plans /\ decision \in {"KEEP", "ROLLBACK"} /\ cancelled = FALSE
    /\ pc = "snapshot" /\ cur = 1
    /\ recorded = {}
    /\ print = [i \in StepNo |-> {}]
    /\ seen = Shape
    /\ addr = [i \in StepNo |-> 0]
    /\ txn = "none" /\ last = [kind |-> "none", status |-> "none"]
    /\ why = "none" /\ outcome = "none"
    /\ live = Session /\ look = Shape
    /\ struck = [i \in StepNo |-> "none"]

-----------------------------------------------------------------------------
(* What the commands do inside Live.                                       *)

Target(i) == plan[i].track

\* What a step's writes add to the fingerprint of its track, and the inverse of
\* the step takes away. Volumes, parameters and the Arrangement are not in it.
Added(call, kind) ==
    CASE kind = "create" /\ call = "write" -> {"midi"}
      [] kind = "device" /\ call = "write" -> {"device"}
      [] kind = "pattern" /\ call = "write" -> {"clip"}
      [] kind = "pattern" /\ call = "fill" -> {"notes"}
      [] OTHER -> {}

\* index -1 appends.
InsertTrack(t, index) ==
    IF index = -1 THEN Append(live, t) ELSE InsertAt(live, index + 1, t)

\* Live raises when it is given an index past its last track.
WriteTakesEffect(call, i) ==
    /\ IF plan[i].kind = "create" /\ call = "write"
       THEN plan[i].index \in -1..Len(live) /\ live' = InsertTrack(Target(i), plan[i].index)
       ELSE UNCHANGED live
    /\ look' = [look EXCEPT ![Target(i)] = @ \cup Added(call, plan[i].kind)]
    /\ UNCHANGED struck

\* An inverse names its track by index; deleting Arrangement clips goes by id.
Addressed(i) == IF plan[i].kind = "arrangement" THEN Target(i) ELSE live[addr[i]]

\* delete_clip and delete_device fail on a track that has none.
UndoTakesEffect(i) ==
    LET t == Addressed(i)
        kind == plan[i].kind IN
    /\ addr[i] \in 1..Len(live)
    /\ kind \in {"device", "pattern"} => Added("write", kind) \subseteq look[t]
    /\ live' = IF kind = "create" THEN RemoveAt(live, addr[i]) ELSE live
    /\ look' = IF kind = "create" THEN look
               ELSE [look EXCEPT ![t] = @ \ (Added("write", kind) \cup Added("fill", kind))]
    /\ struck' = [struck EXCEPT ![i] = t]

TakesEffect(c) ==
    CASE c \notin SideEffect -> UNCHANGED dawVars
      [] c \in {"write", "fill"} \X StepNo -> WriteTakesEffect(c[1], c[2])
      [] OTHER -> UndoTakesEffect(c[2])

LiveApplies(c) == Apply(c) /\ TakesEffect(c) /\ UNCHANGED <<runVars, intentVars>>

\* A handler raises late: create_midi_track with the track made, others with a
\* change that no fingerprint shows.
LiveSpoils(c) ==
    /\ Spoil(c)
    /\ TakesEffect(c) \/ UNCHANGED dawVars
    /\ UNCHANGED <<runVars, intentVars>>

LiveRefuses(c) == Discard({c}) /\ UNCHANGED <<runVars, intentVars, dawVars>>

UserEdits(t) ==
    /\ t \in Editable /\ Contains(live, t) /\ t \notin look[t]
    /\ look' = [look EXCEPT ![t] = @ \cup {t}]
    /\ UNCHANGED <<linkVars, runVars, intentVars, live, struck>>

-----------------------------------------------------------------------------
(* The run: one call at a time, and what follows each return.              *)

Calling == pc \in StepCall \cup RunCall
Call == <<pc, IF pc \in StepCall THEN cur ELSE 0>>
Returned == Calling /\ verdict[Call] = "result"
Raised == Calling /\ verdict[Call] \in {"refused", "in_doubt", "failed"}

SendCall == Calling /\ Issue(Call) /\ UNCHANGED <<runVars, intentVars, dawVars>>

CallReturns ==
    /\ Calling /\ Return(Call)
    /\ UNCHANGED <<runVars, intentVars, dawVars>>

ledger == <<recorded, print, seen, addr>>

Go(p) == pc' = p
Journal(k, s) == last' = [kind |-> k, status |-> s]
Finish(o) == pc' = "done" /\ outcome' = o
CloseTxn(k, s) == txn' = "closed" /\ Journal(k, s)

MarkInDoubt ==
    /\ CloseTxn("write", "IN_DOUBT")
    /\ Finish("IN_DOUBT")
    /\ UNCHANGED <<cur, ledger, why>>

(* Planning.                                                               *)

\* What a snapshot shows: the notes of a clip whose get_clip_notes failed are
\* taken for none.
Snapshots == {[t \in Track |-> IF t \in unread THEN look[t] \ {"notes"} ELSE look[t]] :
                 unread \in SUBSET {t \in Track : "notes" \in look[t]}}

ReceiveSnapshot ==
    /\ pc = "snapshot" /\ Returned
    /\ seen' \in Snapshots
    /\ Go("check")
    /\ UNCHANGED <<cur, recorded, print, addr, txn, last, why, outcome>>

SnapshotRaises ==
    /\ pc = "snapshot" /\ Raised
    /\ Finish("EXECUTION_FAILED")
    /\ UNCHANGED <<cur, ledger, txn, last, why>>

\* Project, targets and preconditions are checked, and a cancel is honoured,
\* before a transaction exists.
Reject ==
    /\ pc = "check"
    /\ Finish("PRECONDITION_FAILED")
    /\ UNCHANGED <<cur, ledger, txn, last, why>>

CancelBeforeWrite ==
    /\ pc = "check" /\ cancelled
    /\ Finish("CANCELLED")
    /\ UNCHANGED <<cur, ledger, txn, last, why>>

Begin ==
    /\ pc = "check"
    /\ txn' = "PLANNED" /\ Journal("write", "PLANNED")
    /\ Go("planned")
    /\ UNCHANGED <<cur, ledger, why, outcome>>

MarkPrepared ==
    /\ pc = "planned"
    /\ txn' = "PREPARED" /\ Journal("prepare", "PREPARED")
    /\ Go("step")
    /\ UNCHANGED <<cur, ledger, why, outcome>>

-----------------------------------------------------------------------------
(* Rollback.                                                               *)

\* Every recorded action is on a track this transaction created.
OnlyCreatedTracks ==
    \A i \in recorded : \E j \in recorded :
        plan[j].kind = "create" /\ Target(j) = Target(i)

\* _rollback_applied, up to its own snapshot or to abort().
RollBackApplied(reason) ==
    /\ why' = reason
    /\ Go(IF OnlyCreatedTracks THEN "current" ELSE "abort")
    /\ UNCHANGED <<cur, ledger, txn, last, outcome>>

\* abort() from run()'s own handler.
AbortDirectly ==
    /\ why' = "direct"
    /\ Go("abort")
    /\ UNCHANGED <<cur, ledger, txn, last, outcome>>

\* The last thing recorded of a created track that its fingerprint shows.
Content(t) ==
    CHOOSE i \in recorded :
        /\ Target(i) = t /\ plan[i].kind # "arrangement"
        /\ \A j \in recorded : Target(j) = t /\ plan[j].kind # "arrangement" => j <= i

Refreshable(shown) ==
    \A i \in recorded : plan[i].kind = "create" =>
        Contains(live, Target(i)) /\ shown[Target(i)] = print[Content(Target(i))]

Refreshed(shown) == [i \in StepNo |-> IF i \in recorded THEN shown[Target(i)] ELSE print[i]]

CurrentReturns ==
    /\ pc = "current" /\ Returned
    /\ \E shown \in Snapshots :
          print' = IF Refreshable(shown) THEN Refreshed(shown) ELSE print
    /\ Go("abort")
    /\ UNCHANGED <<cur, recorded, seen, addr, txn, last, why, outcome>>

CurrentRaises ==
    /\ pc = "current" /\ Raised
    /\ IF txn = "SENT" THEN MarkInDoubt ELSE AbortDirectly

LastOf(S) == CHOOSE i \in S : \A j \in S : j <= i

\* Mutant: the inverses run from the snapshot the run already has.
AbortOnOldSnapshot ==
    /\ pc = "abort"
    /\ Journal("rollback", "SENT")
    /\ addr' = [i \in StepNo |-> 1]
    /\ cur' = LastOf(recorded)
    /\ Go("undo")
    /\ UNCHANGED <<recorded, print, seen, txn, why, outcome>>

Abort ==
    /\ pc = "abort"
    /\ Journal("rollback", "SENT")
    /\ Go("resolve")
    /\ UNCHANGED <<cur, ledger, txn, why, outcome>>

\* resolve_by_fingerprint: the track itself when it still looks as it was
\* recorded, else the only track of the session that does.
Matches(i, shown) == {t \in Track : Contains(live, t) /\ shown[t] = print[i]}
Resolved(i, shown) ==
    LET found == Matches(i, shown) IN
    IF Target(i) \in found THEN {Target(i)}
    ELSE IF \E t \in Track : found = {t} THEN found ELSE {}

IndexOf(t) == CHOOSE n \in 1..Len(live) : live[n] = t
RolledBackAs(o) == IF why = "direct" THEN "EXECUTION_FAILED" ELSE o

\* Every target is resolved, its index included, before the first inverse.
ResolveReturns ==
    /\ pc = "resolve" /\ Returned
    /\ \E shown \in Snapshots :
          /\ \A i \in recorded : Resolved(i, shown) # {}
          /\ addr' = [i \in StepNo |->
                 IF i \in recorded THEN IndexOf(CHOOSE t \in Resolved(i, shown) : TRUE) ELSE 0]
    /\ cur' = LastOf(recorded)
    /\ Go("undo")
    /\ UNCHANGED <<recorded, print, seen, txn, last, why, outcome>>

ResolveConflicts ==
    /\ pc = "resolve" /\ Returned
    /\ \E i \in recorded, shown \in Snapshots : Resolved(i, shown) = {}
    /\ CloseTxn("rollback", "ROLLBACK_CONFLICT")
    /\ Finish(RolledBackAs("ROLLBACK_FAILED"))
    /\ UNCHANGED <<cur, ledger, why>>

Earlier == {i \in recorded : i < cur}

RolledBack ==
    /\ CloseTxn("rollback", "ROLLED_BACK")
    /\ IF why = "ROLLBACK" THEN Go("restored") /\ UNCHANGED outcome ELSE Finish(RolledBackAs(why))
    /\ UNCHANGED <<cur, ledger, why>>

UndoNext ==
    /\ cur' = LastOf(Earlier)
    /\ UNCHANGED <<pc, ledger, txn, last, why, outcome>>

\* Mutant: the first inverse ends the rollback.
UndoReturnsOnce == pc = "undo" /\ Returned /\ RolledBack

UndoReturns ==
    /\ pc = "undo" /\ Returned
    /\ IF Earlier = {} THEN RolledBack ELSE UndoNext

\* Mutant: the caller hears of the failure that led to the rollback only.
RollbackRaisesSilently ==
    /\ pc \in {"resolve", "undo"} /\ Raised
    /\ CloseTxn("rollback", "FAILED")
    /\ Finish(RolledBackAs(why))
    /\ UNCHANGED <<cur, ledger, why>>

\* The snapshot or an inverse fails, in doubt or not: nothing more is undone.
RollbackRaises ==
    /\ pc \in {"resolve", "undo"} /\ Raised
    /\ CloseTxn("rollback", "FAILED")
    /\ Finish(RolledBackAs("ROLLBACK_FAILED"))
    /\ UNCHANGED <<cur, ledger, why>>

RestoredReturns ==
    /\ pc = "restored" /\ Returned
    /\ \E o \in {IF cancelled THEN "CANCELLED" ELSE "ROLLBACK", "ROLLBACK_FAILED"} : Finish(o)
    /\ UNCHANGED <<cur, ledger, txn, last, why>>

RestoredRaises ==
    /\ pc = "restored" /\ Raised
    /\ Finish("EXECUTION_FAILED")
    /\ UNCHANGED <<cur, ledger, txn, last, why>>

-----------------------------------------------------------------------------
(* Executing the steps.                                                    *)

\* Cancelled before the first write: _cancel_open calls mark_cancelled, which
\* TransactionManager does not have; run() aborts the empty transaction.
CancelOpen ==
    /\ pc = "step" /\ cancelled /\ cur = 1
    /\ CloseTxn("fail", "FAILED")
    /\ Finish("EXECUTION_FAILED")
    /\ UNCHANGED <<cur, ledger, why>>

CancelApplied ==
    /\ pc = "step" /\ cancelled /\ cur \in 2..Len(plan)
    /\ RollBackApplied("CANCELLED")

ReadsFirst == {"create", "arrangement"}

\* Mutant: the write is journaled when it is recorded only.
MarkSentLater ==
    /\ pc = "step" /\ cur \in Steps /\ ~cancelled
    /\ txn' = "SENT"
    /\ Go(IF plan[cur].kind \in ReadsFirst THEN "before" ELSE "write")
    /\ UNCHANGED <<cur, ledger, last, why, outcome>>

MarkSent ==
    /\ pc = "step" /\ cur \in Steps /\ ~cancelled
    /\ txn' = "SENT" /\ Journal("write", "SENT")
    /\ Go(IF plan[cur].kind \in ReadsFirst THEN "before" ELSE "write")
    /\ UNCHANGED <<cur, ledger, why, outcome>>

\* Mutant: the loop ends one step early.
AllSentEarly ==
    /\ pc = "step" /\ cur >= Len(plan)
    /\ Go("readback")
    /\ UNCHANGED <<cur, ledger, txn, last, why, outcome>>

AllSent ==
    /\ pc = "step" /\ cur > Len(plan)
    /\ Go("readback")
    /\ UNCHANGED <<cur, ledger, txn, last, why, outcome>>

\* create_midi_track names the new track in a second command; a pattern is a
\* clip and its notes. Volumes and parameters: a parameter is not looked at.
CallAfter(call) ==
    CASE call = "before" -> "write"
      [] call = "write" /\ plan[cur].kind \in {"create", "pattern"} -> "fill"
      [] OTHER -> "look"

StepCallReturns ==
    /\ pc \in {"before", "write", "fill"} /\ Returned
    /\ ~(pc = "write" /\ plan[cur].kind = "parameter")
    /\ Go(CallAfter(pc))
    /\ UNCHANGED <<cur, ledger, txn, last, why, outcome>>

NextStep == Go("step") /\ cur' = cur + 1

\* Mutant: the action is booked under the number of the step after it.
RecordStepShifted ==
    /\ Returned
    /\ pc = "look" \/ (pc = "write" /\ plan[cur].kind = "parameter")
    /\ NextStep
    /\ recorded' = recorded \cup {cur + 1}
    /\ txn' = "APPLIED" /\ Journal("write", "APPLIED")
    /\ UNCHANGED <<print, seen, addr, why, outcome>>

\* TransactionManager.record. Parameters and Arrangement clips are recorded with
\* the fingerprint the track had when the step was resolved.
RecordStep ==
    /\ Returned
    /\ pc = "look" \/ (pc = "write" /\ plan[cur].kind = "parameter")
    /\ recorded' = recorded \cup {cur}
    /\ IF plan[cur].kind \in {"parameter", "arrangement"}
       THEN print' = [print EXCEPT ![cur] = seen[Target(cur)]]
       ELSE \E shown \in Snapshots :
               /\ plan[cur].kind = "pattern" => shown[Target(cur)] = look[Target(cur)]
               /\ print' = [print EXCEPT ![cur] = shown[Target(cur)]]
    /\ txn' = "APPLIED" /\ Journal("write", "APPLIED")
    /\ IF plan[cur].kind = "create" THEN Go("created") /\ UNCHANGED cur ELSE NextStep
    /\ UNCHANGED <<seen, addr, why, outcome>>

\* The created track is resolved for the steps that depend on it.
CreatedReturns ==
    /\ pc = "created" /\ Returned
    /\ \E shown \in Snapshots : seen' = [seen EXCEPT ![Target(cur)] = shown[Target(cur)]]
    /\ NextStep
    /\ UNCHANGED <<recorded, print, addr, txn, last, why, outcome>>

\* Mutant: a transaction with nothing recorded is failed, whatever was sent.
StepFailsNothingRecorded ==
    IF cur > 1 THEN RollBackApplied("PARTIAL_FAILURE")
    ELSE IF recorded = {}
    THEN /\ CloseTxn("fail", "FAILED")
         /\ Finish("EXECUTION_FAILED")
         /\ UNCHANGED <<cur, ledger, why>>
    ELSE AbortDirectly

\* _run's handler of any exception but WriteInDoubt.
StepFails ==
    IF cur > 1 THEN RollBackApplied("PARTIAL_FAILURE")
    ELSE IF txn = "SENT" THEN MarkInDoubt
    ELSE AbortDirectly

\* The look shows no such object, or several: WriteInDoubt for a volume, whose
\* track is gone; a failure of the step for the rest.
LookMisses ==
    /\ pc = "look" /\ Returned
    /\ IF plan[cur].kind = "volume" THEN MarkInDoubt ELSE StepFails

\* A write in doubt is looked for in a fresh snapshot.
WriteRaisesInDoubt ==
    /\ pc \in {"write", "fill"} /\ verdict[Call] = "in_doubt"
    /\ Go("doubt")
    /\ UNCHANGED <<cur, ledger, txn, last, why, outcome>>

\* Mutant: the snapshot that fails to settle a doubt is not handled.
StepRaisesButDoubt ==
    /\ pc \in {"before", "write", "fill", "look", "created"} /\ Raised
    /\ verdict[Call] # "in_doubt"
    /\ StepFails

StepRaises ==
    /\ pc \in {"before", "write", "fill", "look", "created", "doubt"} /\ Raised
    /\ verdict[Call] # "in_doubt"
    /\ StepFails

-----------------------------------------------------------------------------
(* Readback, reconciliation, verification and the decision.                *)

ReadbackMismatch == pc = "readback" /\ Returned /\ RollBackApplied("READBACK_MISMATCH")

Unreconciled == pc = "readback" /\ Returned /\ MarkInDoubt

ReadbackRaises == pc = "readback" /\ Raised /\ AbortDirectly

VerifiedThenRollback ==
    /\ pc = "readback" /\ Returned
    /\ cancelled \/ decision = "ROLLBACK"
    /\ RollBackApplied("ROLLBACK")

Commit ==
    /\ pc = "readback" /\ Returned
    /\ ~cancelled /\ decision = "KEEP"
    /\ \E shown \in Snapshots : print' = Refreshed(shown)
    /\ CloseTxn("commit", "VERIFIED")
    /\ Finish("KEEP")
    /\ UNCHANGED <<cur, recorded, seen, addr, why>>

Cancel ==
    /\ ~cancelled /\ pc \notin {"done", "crashed"}
    /\ cancelled' = TRUE
    /\ UNCHANGED <<linkVars, runVars, plan, decision, dawVars>>

\* The Core exits; Live and the journal stay.
Crash ==
    /\ pc \notin {"done", "crashed"}
    /\ Go("crashed")
    /\ UNCHANGED <<linkVars, intentVars, dawVars, cur, ledger, txn, last, why, outcome>>

Handle ==
    \/ ReceiveSnapshot \/ SnapshotRaises \/ Reject \/ CancelBeforeWrite \/ Begin \/ MarkPrepared
    \/ CancelOpen \/ CancelApplied \/ MarkSent \/ AllSent
    \/ StepCallReturns \/ RecordStep \/ CreatedReturns
    \/ LookMisses \/ WriteRaisesInDoubt \/ StepRaises
    \/ ReadbackMismatch \/ Unreconciled \/ ReadbackRaises \/ VerifiedThenRollback \/ Commit
    \/ CurrentReturns \/ CurrentRaises \/ Abort \/ ResolveReturns \/ ResolveConflicts
    \/ UndoReturns \/ RollbackRaises \/ RestoredReturns \/ RestoredRaises

Core == SendCall \/ (Handle /\ UNCHANGED <<linkVars, intentVars, dawVars>>)

Next ==
    \/ Core \/ CallReturns \/ Cancel \/ Crash
    \/ \E c \in Command : LiveApplies(c) \/ LiveSpoils(c) \/ LiveRefuses(c)
    \/ \E t \in Track : UserEdits(t)

Spec == Init /\ [][Next]_vars /\ WF_vars(Core) /\ WF_vars(CallReturns)

-----------------------------------------------------------------------------
(* What recovery makes of the journal, and the properties.                 *)

\* classify_journal, from the transaction's last record: the run may end or
\* crash here, whatever Live makes of what it was sent.
Recovery ==
    CASE last.status \in {"VERIFIED", "ROLLED_BACK"}             -> "VERIFIED"
      [] last.status = "ROLLBACK_CONFLICT"                      -> "ROLLBACK_CONFLICT"
      [] last.status = "IN_DOUBT"                               -> "IN_DOUBT"
      [] last.status = "SENT" /\ last.kind # "rollback"         -> "IN_DOUBT"
      [] last.status \in {"SENT", "FAILED"} /\ last.kind = "rollback" -> "ROLLBACK_REQUIRED"
      [] last.status = "FAILED" /\ last.kind # "rollback"       -> "VERIFIED"
      [] OTHER -> "RECOVERY_REQUIRED"

Undone(i) == fate[<<"undo", i>>] = "applied"
WritesOf(i) == {<<"write", i>>} \cup
    (IF plan[i].kind \in {"create", "pattern"} THEN {<<"fill", i>>} ELSE {})

\* Write-ahead: wherever the Core crashes, a journal that says "not marked sent"
\* means that no write left the Core, and no inverse leaves it before the
\* journal says that a rollback has started.
WriteAhead ==
    \A i \in StepNo :
        /\ verdict[<<"write", i>>] # "none" => last.status \notin {"none", "PLANNED", "PREPARED"}
        /\ verdict[<<"undo", i>>] # "none" => last.kind = "rollback"

\* A transaction that recovery will not look at again has nothing on its way: no
\* write of it changes Live later.
ClosedIsSettled ==
    Recovery \in {"VERIFIED", "ROLLBACK_CONFLICT"} =>
        \A c \in SideEffect : fate[c] # "pending"

\* A kept intent is in Live as a whole, and no inverse of it was sent.
KeptIsWhole ==
    last.status = "VERIFIED" => \A i \in Steps :
        /\ \A c \in WritesOf(i) : fate[c] = "applied"
        /\ verdict[<<"undo", i>>] = "none"

\* Once a write is in doubt or failed without an answer, the run writes nothing
\* more, neither a later step nor an inverse.
NothingOnTopOfDoubt ==
    \A c, d \in SideEffect :
        verdict[c] \in {"in_doubt", "failed"} /\ verdict[d] # "none" => at[d] <= at[c]

\* A rollback conflict is found before the first inverse: Live keeps every step.
ConflictMutatesNothing ==
    last.status = "ROLLBACK_CONFLICT" => \A i \in Steps : verdict[<<"undo", i>>] = "none"

\* A clip or a device is undone before the track it was put on.
UndoneInReverse ==
    \A i \in recorded : verdict[<<"undo", i>>] # "none" =>
        \A j \in recorded : j > i => Undone(j)

\* ROLLED_BACK means that every recorded action was undone.
RolledBackUndoesRecorded == last.status = "ROLLED_BACK" => \A i \in recorded : Undone(i)

\* Whatever path a run ends by, its transaction is closed: the next begin() would
\* raise "A transaction is already open" otherwise.
ClosedAtEnd == pc = "done" => txn \in {"none", "closed"}

\* What the caller is told is what the journal says. EXECUTION_FAILED is told
\* of any end but a kept one.
ToldAsJournaled ==
    pc = "done" =>
        /\ (outcome = "KEEP") <=> (last.status = "VERIFIED")
        /\ (outcome = "IN_DOUBT") <=> (last.status = "IN_DOUBT")
        /\ outcome \in {"PARTIAL_FAILURE", "READBACK_MISMATCH", "ROLLBACK"} => last.status = "ROLLED_BACK"
        /\ outcome = "CANCELLED" => last.status \in {"none", "ROLLED_BACK"}

\* A run ends, whatever the link and the user do, since every call returns.
RunEnds == <>(pc \in {"done", "crashed"})

\* "Records only this agent's actions and can roll them back exactly."
\* (agent/transactions.py:58): an inverse takes effect on the track of its step.
UndoHitsItsTarget == \A i \in Steps : struck[i] \in {"none", Target(i)}

-----------------------------------------------------------------------------
(* The transaction the run implements.                                     *)

Written(i) ==
    IF i \notin Steps \/ \A c \in WritesOf(i) : fate[c] \notin {"applied", "partial"} THEN "none"
    ELSE IF \A c \in WritesOf(i) : fate[c] = "applied" THEN "whole" ELSE "some"

Closed ==
    CASE last.status = "VERIFIED"                        -> "kept"
      [] last.status = "ROLLED_BACK"                     -> "rolled_back"
      [] last.status = "ROLLBACK_CONFLICT"               -> "conflict"
      [] last.status = "FAILED" /\ last.kind = "fail"    -> "failed"
      [] last.status = "FAILED" /\ last.kind = "rollback" -> "unsettled"
      [] last.status = "IN_DOUBT"                        -> "unsettled"
      [] OTHER                                           -> "open"

Transaction == INSTANCE AgentTransaction WITH
    Step <- StepNo,
    todo <- Steps,
    written <- [i \in StepNo |-> Written(i)],
    booked <- recorded,
    undone <- {i \in StepNo : Undone(i)},
    closed <- Closed,
    answer <- outcome

\* The run is a transaction: its steps take effect in order and one at a time, they
\* are undone in reverse, a closed transaction is what the journal says it is and
\* stays so, and the caller is told one of the outcomes that fit.
ImplementsTransaction == Transaction!Spec
=============================================================================
