--------------------------- MODULE SafeWriteProofs ---------------------------
(***************************************************************************)
(* Proofs about SafeWrite, for every set of plans, every session, every    *)
(* edit of the user and every behaviour of the link: the journal, what the *)
(* caller is told and what Live was sent agree wherever the run ends or    *)
(* the Core crashes.                                                       *)
(***************************************************************************)
EXTENDS SafeWrite, LiveLinkProofs, FiniteSetTheorems, SequenceTheorems,
        WellFoundedInduction

Doubt == {"in_doubt", "failed"}
Record(k, s) == [kind |-> k, status |-> s]
Planning == {"snapshot", "check", "planned"}
InStep == {"before", "write", "fill", "look", "doubt", "created"}
Over == {"done", "crashed"}
AfterUndo == {"restored", "done", "crashed"}

\* The Core waits for one call, the one its program counter is at.
OneCall ==
    \A c \in Command : verdict[c] = "waiting" => pc = "crashed" \/ (Calling /\ c = Call)

\* Every call went over the connection in use.
OneConnection == \A c \in Command : verdict[c] # "none" => era[c] = now

\* The call in progress is the last one issued.
CallsInOrder ==
    \A c \in Command : at[c] <= clock /\ (verdict[c] = "waiting" => at[c] = clock)

\* Before a rollback resolves its targets, and while it undoes them, no call but
\* the one in progress has gone without an answer.
Clean ==
    pc \notin {"doubt", "current", "abort", "resolve"} \cup Over =>
        \A c \in Command : verdict[c] \in Doubt => Calling /\ c = Call

\* The snapshot that the rollback is resolved from shows that the connection
\* missed no reply.
ResolveInStep ==
    /\ pc \notin {"resolve", "undo"} \cup AfterUndo => verdict[<<"resolve", 0>>] = "none"
    /\ pc = "resolve" /\ verdict[<<"resolve", 0>>] = "result" =>
           \A c \in Command : verdict[c] \notin Doubt

\* Where the run is, by the journal's last record, and the status in memory.
JournalPlace ==
    /\ pc \in Planning => cur = 1
    /\ pc \in {"snapshot", "check"} => txn = "none" /\ last = Record("none", "none")
    /\ pc = "planned" => last = Record("write", "PLANNED")
    /\ pc = "step" =>
           (cur = 1 /\ last = Record("prepare", "PREPARED")) \/ last = Record("write", "APPLIED")
    /\ pc \in InStep \ {"created"} => last = Record("write", "SENT") /\ txn = "SENT"
    /\ pc \in {"created", "readback"} => last = Record("write", "APPLIED")
    /\ pc \in {"current", "abort"} => last \in {Record("write", "SENT"), Record("write", "APPLIED")}
    /\ pc \in {"resolve", "undo"} => last = Record("rollback", "SENT")
    /\ pc = "restored" => last = Record("rollback", "ROLLED_BACK") /\ txn = "closed"
    /\ pc \in {"current", "abort", "resolve", "undo"} => why \in Reason

\* No write is sent while planning, and no inverse before its targets are known.
NothingYet ==
    /\ pc \in Planning => \A i \in StepNo : verdict[<<"write", i>>] = "none"
    /\ pc \notin {"undo"} \cup AfterUndo => \A i \in StepNo : verdict[<<"undo", i>>] = "none"

\* The writes of the steps so far have returned results.
WholeSoFar ==
    /\ pc \in Planning \cup InStep \cup {"step", "readback"} =>
           /\ cur \in Nat \ {0}
           /\ \A i \in Steps : i < cur => \A c \in WritesOf(i) : verdict[c] = "result"
    /\ pc \in InStep => cur \in Steps
    /\ pc = "fill" => verdict[<<"write", cur>>] = "result"
    /\ pc \in {"look", "created"} => \A c \in WritesOf(cur) : verdict[c] = "result"
    /\ pc = "readback" => cur > Len(plan)

\* What the rollback has passed is undone, what it has not reached was not sent.
UndoneSoFar ==
    /\ recorded \subseteq Steps
    /\ pc \in InStep \cup {"step", "readback"} => cur = 1 \/ recorded # {}
    /\ pc \in {"created", "current", "abort", "resolve"} => recorded # {}
    /\ pc = "undo" =>
           /\ cur \in recorded
           /\ \A i \in recorded : i > cur => verdict[<<"undo", i>>] = "result"
           /\ \A i \in recorded : i < cur => verdict[<<"undo", i>>] = "none"

RunInv ==
    /\ plan \in Plans
    /\ LinkInv /\ OneCall /\ OneConnection /\ CallsInOrder
    /\ Clean /\ ResolveInStep /\ JournalPlace /\ NothingYet
    /\ WriteAhead /\ ClosedIsSettled /\ NothingOnTopOfDoubt /\ ConflictMutatesNothing
    /\ ClosedAtEnd /\ ToldAsJournaled
    /\ WholeSoFar /\ KeptIsWhole
    /\ UndoneSoFar /\ UndoneInReverse /\ RolledBackUndoesRecorded

-----------------------------------------------------------------------------
(* Finite sets of numbers, the commands of a run, and the links part.      *)

\* A non-empty set of step numbers has a last one: LastOf is defined.
LEMMA LastExists ==
    ASSUME NEW S, NEW n \in Nat, S \subseteq 1..n, S # {}
    PROVE  LastOf(S) \in S /\ \A j \in S : j <= LastOf(S)
<1> DEFINE Above(i) == {j \in S : i < j}
           T == {Above(i) : i \in S}
           R == StrictSubsetOrdering(S)
<1>1. ASSUME NEW U \in SUBSET S PROVE U \in FiniteSubsetsOf(S)
  <2>1. IsFiniteSet(1..n)
    BY FS_Interval
  <2>2. U \in SUBSET (1..n)
    OBVIOUS
  <2>3. IsFiniteSet(U)
    BY <2>1, <2>2, FS_Subset
  <2>4. QED
    BY <2>3 DEF FiniteSubsetsOf
<1>2. T \subseteq FiniteSubsetsOf(S)
  <2>1. \A i \in S : Above(i) \in SUBSET S
    OBVIOUS
  <2>2. QED
    BY <1>1, <2>1
<1>3. T # {}
  OBVIOUS
<1>4. IsWellFoundedOn(R, FiniteSubsetsOf(S))
  BY FS_StrictSubsetOrderingWellFounded
<1>5. \E x \in T : \A y \in T : ~ (<<y, x>> \in R)
  <2> HIDE DEF T, R
  <2>1. QED
    BY <1>2, <1>3, <1>4, WFMin
<1>6. PICK i \in S : \A y \in T : <<y, Above(i)>> \notin R
  BY <1>5
<1>7. ASSUME NEW j \in S, i < j PROVE FALSE
  <2>1. i \in Int /\ j \in Int
    OBVIOUS
  <2>2. ASSUME NEW k \in Above(j) PROVE k \in Above(i)
    <3>1. k \in Int /\ j < k
      OBVIOUS
    <3>2. QED
      BY <1>7, <2>1, <3>1
  <2>3. j \in Above(i) /\ j \notin Above(j)
    BY <1>7, <2>1
  <2>4. <<Above(j), Above(i)>> \in R
    BY <2>2, <2>3 DEF StrictSubsetOrdering
  <2>5. QED
    BY <1>6, <2>4
<1>8. \A j \in S : j <= i
  BY <1>7
<1>9. QED
  BY <1>8 DEF LastOf

\* The steps of the plan have numbers, and their calls and writes are commands.
LEMMA CommandsOfRun ==
    ASSUME plan \in Plans
    PROVE  /\ Len(plan) \in Nat \ {0} /\ Len(plan) <= MaxSteps /\ MaxSteps \in Nat
           /\ Steps \subseteq StepNo
           /\ \A k \in StepCall, i \in StepNo : <<k, i>> \in Command
           /\ \A k \in RunCall : <<k, 0>> \in Command /\ <<k, 0>> \notin SideEffect
           /\ \A k \in StepCall, i \in StepNo : <<k, i>> \in SideEffect <=> k \in WriteCall
           /\ \A i \in Steps : WritesOf(i) \subseteq SideEffect
           /\ SideEffect \subseteq Command
<1>1. Len(plan) \in 1..MaxSteps /\ MaxSteps \in Nat
  BY SafeWriteAssumption
<1>2. Steps \subseteq StepNo
  BY <1>1 DEF Steps, StepNo
<1>3. \A k \in StepCall, i \in StepNo : <<k, i>> \in Command
  BY SafeWriteAssumption DEF StepNo
<1>4. \A k \in RunCall : <<k, 0>> \in Command /\ <<k, 0>> \notin SideEffect
  BY SafeWriteAssumption DEF RunCall, WriteCall
<1>5. \A k \in StepCall, i \in StepNo : <<k, i>> \in SideEffect <=> k \in WriteCall
  BY SafeWriteAssumption DEF StepNo, WriteCall
<1>6. \A i \in Steps : WritesOf(i) \subseteq SideEffect
  BY <1>2, SafeWriteAssumption DEF WritesOf, WriteCall, StepNo
<1>7. QED
  BY <1>1, <1>2, <1>3, <1>4, <1>5, <1>6, LinkAssumption

\* A call in progress is a command.
LEMMA CallIsCommand == ASSUME RunInv, Calling PROVE Call \in Command
<1>1. CASE pc \in RunCall
  <2>1. Call = <<pc, 0>>
    BY <1>1 DEF Call, RunCall, StepCall
  <2>2. QED
    BY <1>1, <2>1, CommandsOfRun DEF RunInv
<1>2. CASE pc \in StepCall
  <2>1. Call = <<pc, cur>>
    BY <1>2 DEF Call
  <2>2. cur \in StepNo
    BY <1>2, CommandsOfRun DEF RunInv, WholeSoFar, UndoneSoFar, StepCall, InStep
  <2>3. QED
    BY <1>2, <2>1, <2>2, CommandsOfRun DEF RunInv
<1>3. QED
  BY <1>1, <1>2 DEF Calling

\* A step that leaves the link alone, or takes one of its steps, keeps LinkInv
\* and what Live has settled.
LEMMA LinkPart ==
    ASSUME LinkInv, [LinkNext]_linkVars
    PROVE  LinkInv' /\ \A c \in Command : fate[c] \in {"applied", "partial", "untouched"} => fate'[c] = fate[c]
  BY LinkStepInv, SettledStays

\* While the Core handles a return, no call is in progress.
LEMMA Quiet ==
    ASSUME RunInv, Handle
    PROVE  \A c \in Command : verdict[c] # "waiting"
<1>1. Returned \/ Raised \/ (~Calling /\ pc # "crashed")
  BY DEF Handle, ReceiveSnapshot, SnapshotRaises, Reject, CancelBeforeWrite, Begin, MarkPrepared,
     CancelOpen, CancelApplied, MarkSent, AllSent, StepCallReturns, RecordStep, CreatedReturns,
     LookMisses, WriteRaisesInDoubt, StepRaises, ReadbackMismatch, Unreconciled, ReadbackRaises,
     VerifiedThenRollback, Commit, CurrentReturns, CurrentRaises, Abort, ResolveReturns,
     ResolveConflicts, UndoReturns, RollbackRaises, RestoredReturns, RestoredRaises,
     Calling, StepCall, RunCall, Raised
<1>2. QED
  BY <1>1 DEF Returned, Raised, RunInv, OneCall, Calling, StepCall, RunCall

\* A result was returned on a connection that had answered every call.
LEMMA NoDoubt ==
    ASSUME RunInv, Returned \/ ~Calling, pc \notin {"doubt", "current", "abort"} \cup Over
    PROVE  \A c \in Command : verdict[c] \notin Doubt
<1>1. CASE pc = "resolve"
  <2>1. Call = <<"resolve", 0>> /\ Returned
    BY <1>1 DEF Call, StepCall, Calling, RunCall
  <2>2. QED
    BY <1>1, <2>1 DEF RunInv, ResolveInStep, Returned
<1>2. CASE pc # "resolve"
  BY <1>2 DEF RunInv, Clean, Returned, Doubt
<1>3. QED
  BY <1>1, <1>2

\* Without a call in progress or in doubt, Live has settled everything.
LEMMA NothingPending ==
    ASSUME LinkInv, NEW c \in Command, verdict[c] \notin Doubt, verdict[c] # "waiting"
    PROVE  fate[c] # "pending"
  BY DEF LinkInv, LinkTypeOK, Verdict, ResultIsApplied, RefusedIsOver, SentIsKnown, Doubt

-----------------------------------------------------------------------------
(* What the Core does between two calls.                                   *)

\* Between two calls the link stands still and no call is in progress.
LEMMA HandleLinkParts ==
    ASSUME RunInv, Handle, UNCHANGED <<linkVars, intentVars, dawVars>>
    PROVE  LinkInv' /\ OneCall' /\ OneConnection' /\ CallsInOrder' /\ NothingOnTopOfDoubt'
<1>1. UNCHANGED linkVars
  OBVIOUS
<1>2. LinkInv'
  BY <1>1, LinkPart DEF RunInv
<1>3. OneCall'
  BY <1>1, Quiet DEF OneCall, linkVars
<1>4. OneConnection' /\ CallsInOrder' /\ NothingOnTopOfDoubt'
  BY <1>1 DEF RunInv, OneConnection, CallsInOrder, NothingOnTopOfDoubt, linkVars
<1>5. QED
  BY <1>2, <1>3, <1>4

\* The run goes from one place to another only with every call answered, or into
\* a rollback.
LEMMA HandleClean ==
    ASSUME RunInv, Handle, UNCHANGED <<linkVars, intentVars, dawVars>>
    PROVE  Clean' /\ ResolveInStep'
<1>1. verdict' = verdict
  BY DEF linkVars
<1>2. \/ pc' \in {"doubt", "current", "abort", "resolve"} \cup Over
      \/ (Returned \/ ~Calling) /\ pc \notin {"doubt", "current", "abort"} \cup Over
  BY DEF Handle, ReceiveSnapshot, SnapshotRaises, Reject, CancelBeforeWrite, Begin, MarkPrepared,
     CancelOpen, CancelApplied, MarkSent, AllSent, StepCallReturns, RecordStep, CreatedReturns,
     LookMisses, WriteRaisesInDoubt, StepRaises, ReadbackMismatch, Unreconciled, ReadbackRaises,
     VerifiedThenRollback, Commit, CurrentReturns, CurrentRaises, Abort, ResolveReturns,
     ResolveConflicts, UndoReturns, RollbackRaises, RestoredReturns, RestoredRaises,
     StepFails, RollBackApplied, AbortDirectly, MarkInDoubt, RolledBack, UndoNext, NextStep, Go,
     Finish, Calling, StepCall, RunCall, Over
<1>3. Clean'
  BY <1>1, <1>2, NoDoubt DEF Clean
<1>4. pc \in {"resolve", "undo"} \cup AfterUndo => pc' \in {"undo"} \cup AfterUndo
  BY DEF Handle, ReceiveSnapshot, SnapshotRaises, Reject, CancelBeforeWrite, Begin, MarkPrepared,
     CancelOpen, CancelApplied, MarkSent, AllSent, StepCallReturns, RecordStep, CreatedReturns,
     LookMisses, WriteRaisesInDoubt, StepRaises, ReadbackMismatch, Unreconciled, ReadbackRaises,
     VerifiedThenRollback, Commit, CurrentReturns, CurrentRaises, Abort, ResolveReturns,
     ResolveConflicts, UndoReturns, RollbackRaises, RestoredReturns, RestoredRaises,
     RolledBack, UndoNext, Go, Finish, AfterUndo
<1>5. pc' = "resolve" => pc = "abort"
  BY DEF Handle, ReceiveSnapshot, SnapshotRaises, Reject, CancelBeforeWrite, Begin, MarkPrepared,
     CancelOpen, CancelApplied, MarkSent, AllSent, StepCallReturns, RecordStep, CreatedReturns,
     LookMisses, WriteRaisesInDoubt, StepRaises, ReadbackMismatch, Unreconciled, ReadbackRaises,
     VerifiedThenRollback, Commit, CurrentReturns, CurrentRaises, Abort, ResolveReturns,
     ResolveConflicts, UndoReturns, RollbackRaises, RestoredReturns, RestoredRaises,
     StepFails, RollBackApplied, AbortDirectly, MarkInDoubt, RolledBack, UndoNext, NextStep, Go,
     Finish, CallAfter
<1>6. ResolveInStep'
  <2>1. pc' \notin {"resolve", "undo"} \cup AfterUndo => verdict[<<"resolve", 0>>] = "none"
    BY <1>4 DEF RunInv, ResolveInStep, AfterUndo
  <2>2. pc' = "resolve" => verdict[<<"resolve", 0>>] = "none"
    BY <1>5 DEF RunInv, ResolveInStep, AfterUndo
  <2>3. QED
    BY <1>1, <2>1, <2>2 DEF ResolveInStep
<1>7. QED
  BY <1>3, <1>6

\* The journal record of each action says where the run is, and what the caller
\* is told at the end.
LEMMA HandleJournal ==
    ASSUME RunInv, Handle, UNCHANGED <<linkVars, intentVars, dawVars>>
    PROVE  JournalPlace' /\ ClosedAtEnd' /\ ToldAsJournaled'
<1> DEFINE Goal == JournalPlace' /\ ClosedAtEnd' /\ ToldAsJournaled'
<1> USE DEF RunInv, JournalPlace, ClosedAtEnd, ToldAsJournaled, Record, Go, Journal, Finish, CloseTxn,
    Planning, InStep, Reason, ledger
<1>1. CASE ReceiveSnapshot
  BY <1>1 DEF ReceiveSnapshot
<1>2. CASE SnapshotRaises
  BY <1>2 DEF SnapshotRaises
<1>3. CASE Reject
  BY <1>3 DEF Reject
<1>4. CASE CancelBeforeWrite
  BY <1>4 DEF CancelBeforeWrite
<1>5. CASE Begin
  BY <1>5 DEF Begin
<1>6. CASE MarkPrepared
  BY <1>6 DEF MarkPrepared
<1>7. CASE CancelOpen
  BY <1>7 DEF CancelOpen
<1>8. CASE CancelApplied
  BY <1>8 DEF CancelApplied, RollBackApplied
<1>9. CASE MarkSent
  BY <1>9 DEF MarkSent
<1>10. CASE AllSent
  BY <1>10, CommandsOfRun DEF AllSent
<1>11. CASE StepCallReturns
  BY <1>11 DEF StepCallReturns, CallAfter
<1>12. CASE RecordStep
  BY <1>12 DEF RecordStep, NextStep
<1>13. CASE CreatedReturns
  BY <1>13 DEF CreatedReturns, NextStep
<1>14. CASE LookMisses
  BY <1>14 DEF LookMisses, MarkInDoubt, StepFails, RollBackApplied, AbortDirectly
<1>15. CASE WriteRaisesInDoubt
  BY <1>15 DEF WriteRaisesInDoubt
<1>16. CASE StepRaises
  BY <1>16 DEF StepRaises, MarkInDoubt, StepFails, RollBackApplied, AbortDirectly
<1>17. CASE ReadbackMismatch
  BY <1>17 DEF ReadbackMismatch, RollBackApplied
<1>18. CASE Unreconciled
  BY <1>18 DEF Unreconciled, MarkInDoubt
<1>19. CASE ReadbackRaises
  BY <1>19 DEF ReadbackRaises, AbortDirectly
<1>20. CASE VerifiedThenRollback
  BY <1>20 DEF VerifiedThenRollback, RollBackApplied
<1>21. CASE Commit
  BY <1>21 DEF Commit
<1>22. CASE CurrentReturns
  BY <1>22 DEF CurrentReturns
<1>23. CASE CurrentRaises
  BY <1>23 DEF CurrentRaises, MarkInDoubt, AbortDirectly
<1>24. CASE Abort
  BY <1>24 DEF Abort
<1>25. CASE ResolveReturns
  BY <1>25 DEF ResolveReturns
<1>26. CASE ResolveConflicts
  BY <1>26 DEF ResolveConflicts, RolledBackAs
<1>27. CASE UndoReturns
  BY <1>27 DEF UndoReturns, RolledBack, UndoNext, RolledBackAs
<1>28. CASE RollbackRaises
  BY <1>28 DEF RollbackRaises, RolledBackAs
<1>29. CASE RestoredReturns
  BY <1>29 DEF RestoredReturns
<1>30. CASE RestoredRaises
  BY <1>30 DEF RestoredRaises
<1>31. QED
  BY <1>1, <1>2, <1>3, <1>4, <1>5, <1>6, <1>7, <1>8, <1>9, <1>10, <1>11, <1>12, <1>13, <1>14,
     <1>15, <1>16, <1>17, <1>18, <1>19, <1>20, <1>21, <1>22, <1>23, <1>24, <1>25, <1>26, <1>27,
     <1>28, <1>29, <1>30 DEF Handle

\* Which record follows at which place: the record stays, the transaction goes
\* on, a rollback goes on or fails, or the transaction is closed for good with
\* every call answered.
LEMMA HandleRecords ==
    ASSUME Handle
    PROVE  \/ last' = last
           \/ /\ pc \in {"check", "planned"}
              /\ last' \in {Record("write", "PLANNED"), Record("prepare", "PREPARED")}
           \/ /\ pc \notin {"undo"} \cup AfterUndo
              /\ last' \in {Record("write", "SENT"), Record("write", "APPLIED"), Record("write", "IN_DOUBT")}
           \/ last' \in {Record("rollback", "SENT"), Record("rollback", "FAILED")}
           \/ /\ (pc = "step" /\ ~Calling) \/ (pc \in {"readback", "resolve", "undo"} /\ Returned)
              /\ \/ pc = "step" /\ last' = Record("fail", "FAILED")
                 \/ pc = "readback" /\ last' = Record("commit", "VERIFIED")
                 \/ pc = "resolve" /\ last' = Record("rollback", "ROLLBACK_CONFLICT")
                 \/ pc = "undo" /\ last' = Record("rollback", "ROLLED_BACK")
  BY DEF Handle, ReceiveSnapshot, SnapshotRaises, Reject, CancelBeforeWrite, Begin, MarkPrepared,
     CancelOpen, CancelApplied, MarkSent, AllSent, StepCallReturns, RecordStep, CreatedReturns,
     LookMisses, WriteRaisesInDoubt, StepRaises, ReadbackMismatch, Unreconciled, ReadbackRaises,
     VerifiedThenRollback, Commit, CurrentReturns, CurrentRaises, Abort, ResolveReturns,
     ResolveConflicts, UndoReturns, RollbackRaises, RestoredReturns, RestoredRaises,
     StepFails, RollBackApplied, AbortDirectly, MarkInDoubt, RolledBack, UndoNext, Record, Journal,
     CloseTxn, AfterUndo, Calling, StepCall, RunCall

\* What a record promises of Live holds when it is written.
LEMMA HandlePromises ==
    ASSUME RunInv, Handle, UNCHANGED <<linkVars, intentVars, dawVars>>
    PROVE  NothingYet' /\ WriteAhead' /\ ConflictMutatesNothing' /\ ClosedIsSettled'
<1>1. verdict' = verdict /\ fate' = fate /\ plan' = plan
  BY DEF linkVars, intentVars
<1>2. NothingYet'
  <2>1. (pc' \in Planning => pc \in Planning) /\ (pc \in AfterUndo => pc' \in AfterUndo)
    BY DEF Handle, ReceiveSnapshot, SnapshotRaises, Reject, CancelBeforeWrite, Begin, MarkPrepared,
       CancelOpen, CancelApplied, MarkSent, AllSent, StepCallReturns, RecordStep, CreatedReturns,
       LookMisses, WriteRaisesInDoubt, StepRaises, ReadbackMismatch, Unreconciled, ReadbackRaises,
       VerifiedThenRollback, Commit, CurrentReturns, CurrentRaises, Abort, ResolveReturns,
       ResolveConflicts, UndoReturns, RollbackRaises, RestoredReturns, RestoredRaises,
       StepFails, RollBackApplied, AbortDirectly, MarkInDoubt, RolledBack, UndoNext, NextStep, Go,
       Finish, CallAfter, Planning, AfterUndo
  <2>2. pc = "undo" => pc' \in {"undo"} \cup AfterUndo
    BY DEF Handle, ReceiveSnapshot, SnapshotRaises, Reject, CancelBeforeWrite, Begin, MarkPrepared,
       CancelOpen, CancelApplied, MarkSent, AllSent, StepCallReturns, RecordStep, CreatedReturns,
       LookMisses, WriteRaisesInDoubt, StepRaises, ReadbackMismatch, Unreconciled, ReadbackRaises,
       VerifiedThenRollback, Commit, CurrentReturns, CurrentRaises, Abort, ResolveReturns,
       ResolveConflicts, UndoReturns, RollbackRaises, RestoredReturns, RestoredRaises,
       RolledBack, UndoNext, Go, Finish, AfterUndo
  <2>3. QED
    BY <1>1, <2>1, <2>2 DEF RunInv, NothingYet
<1>3. WriteAhead'
  <2>1. NothingYet /\ WriteAhead
    BY DEF RunInv
  <2>2. ASSUME NEW i \in StepNo, verdict[<<"write", i>>] # "none"
        PROVE  last'.status \notin {"none", "PLANNED", "PREPARED"}
    <3>1. last.status \notin {"none", "PLANNED", "PREPARED"} /\ pc \notin Planning
      BY <2>1, <2>2 DEF WriteAhead, NothingYet
    <3>2. QED
      BY <3>1, HandleRecords DEF Record, Planning
  <2>3. ASSUME NEW i \in StepNo, verdict[<<"undo", i>>] # "none"
        PROVE  last'.kind = "rollback"
    <3>1. last.kind = "rollback" /\ pc \in {"undo"} \cup AfterUndo
      BY <2>1, <2>3 DEF WriteAhead, NothingYet
    <3>2. QED
      BY <3>1, HandleRecords DEF Record, AfterUndo
  <2>4. QED
    BY <1>1, <2>2, <2>3 DEF WriteAhead
<1>4. ConflictMutatesNothing'
  <2>1. Steps' = Steps /\ Steps \subseteq StepNo
    BY <1>1, CommandsOfRun DEF Steps, RunInv
  <2>2. NothingYet /\ ConflictMutatesNothing
    BY DEF RunInv
  <2>3. CASE last'.status = "ROLLBACK_CONFLICT"
    <3>1. last' = last \/ pc \notin {"undo"} \cup AfterUndo
      BY <2>3, HandleRecords DEF Record, AfterUndo
    <3>2. \A i \in Steps : verdict[<<"undo", i>>] = "none"
      BY <2>1, <2>2, <2>3, <3>1 DEF ConflictMutatesNothing, NothingYet
    <3>3. QED
      BY <1>1, <2>1, <3>2 DEF ConflictMutatesNothing
  <2>4. QED
    BY <2>3 DEF ConflictMutatesNothing
<1>5. ClosedIsSettled'
  <2>1. CASE last' = last
    BY <1>1, <2>1 DEF RunInv, ClosedIsSettled, Recovery
  <2>2. CASE last' # last /\ Recovery' \in {"VERIFIED", "ROLLBACK_CONFLICT"}
    <3>1. (pc = "step" /\ ~Calling) \/ (pc \in {"readback", "resolve", "undo"} /\ Returned)
      BY <2>2, HandleRecords DEF Recovery, Record
    <3>2. \A c \in Command : verdict[c] \notin Doubt
      BY <3>1, NoDoubt DEF Over
    <3>3. \A c \in Command : fate[c] # "pending"
      BY <3>2, Quiet, NothingPending DEF RunInv
    <3>4. QED
      BY <1>1, <3>3, LinkAssumption DEF ClosedIsSettled
  <2>3. QED
    BY <2>1, <2>2 DEF ClosedIsSettled
<1>6. QED
  BY <1>2, <1>3, <1>4, <1>5

\* A step is complete only when each of its writes has returned a result.
LEMMA HandleWhole ==
    ASSUME RunInv, Handle, UNCHANGED <<linkVars, intentVars, dawVars>>
    PROVE  WholeSoFar' /\ KeptIsWhole'
<1> DEFINE Executing == Planning \cup InStep \cup {"step", "readback"}
<1>1. verdict' = verdict /\ fate' = fate /\ plan' = plan /\ Steps' = Steps
  BY DEF linkVars, intentVars, Steps
<1>2. \A i : WritesOf(i)' = WritesOf(i)
  BY <1>1 DEF WritesOf
<1>3. WholeSoFar /\ JournalPlace /\ Len(plan) \in Nat \ {0}
  BY CommandsOfRun DEF RunInv
<1>4. WholeSoFar'
  <2> USE <1>1, <1>2, <1>3 DEF WholeSoFar, Planning, InStep, Go
  <2>1. CASE ReceiveSnapshot \/ Begin \/ MarkPrepared
    BY <2>1 DEF ReceiveSnapshot, Begin, MarkPrepared
  <2>2. CASE MarkSent
    BY <2>2 DEF MarkSent
  <2>3. CASE AllSent
    BY <2>3 DEF AllSent
  <2>4. CASE StepCallReturns
    BY <2>4 DEF StepCallReturns, CallAfter, Returned, Call, StepCall, WritesOf
  <2>5. CASE RecordStep
    <3>1. cur \in Nat \ {0} /\ \A c \in WritesOf(cur) : verdict[c] = "result"
      BY <2>5 DEF RecordStep, Returned, Call, StepCall, WritesOf
    <3>2. \A i \in Steps : i < cur + 1 => \A c \in WritesOf(i) : verdict[c] = "result"
      <4>1. \A i \in Steps : i < cur + 1 => i < cur \/ i = cur
        BY <3>1 DEF Steps
      <4>2. pc \in InStep
        BY <2>5 DEF RecordStep
      <4>3. QED
        BY <3>1, <4>1, <4>2
    <3>3. CASE pc' = "created"
      BY <2>5, <3>1, <3>3 DEF RecordStep, NextStep
    <3>4. CASE pc' = "step" /\ cur' = cur + 1
      BY <3>1, <3>2, <3>4
    <3>5. QED
      BY <2>5, <3>3, <3>4 DEF RecordStep, NextStep
  <2>6. CASE CreatedReturns
    <3>1. cur \in Nat \ {0} /\ \A c \in WritesOf(cur) : verdict[c] = "result"
      BY <2>6 DEF CreatedReturns
    <3>2. \A i \in Steps : i < cur + 1 => \A c \in WritesOf(i) : verdict[c] = "result"
      <4>1. \A i \in Steps : i < cur + 1 => i < cur \/ i = cur
        BY <3>1 DEF Steps
      <4>2. QED
        BY <2>6, <3>1, <4>1 DEF CreatedReturns
    <3>3. pc' = "step" /\ cur' = cur + 1
      BY <2>6 DEF CreatedReturns, NextStep
    <3>4. QED
      BY <3>1, <3>2, <3>3
  <2>7. CASE WriteRaisesInDoubt
    BY <2>7 DEF WriteRaisesInDoubt
  <2>8. ASSUME ~ (ReceiveSnapshot \/ Begin \/ MarkPrepared \/ MarkSent \/ AllSent \/ StepCallReturns
                  \/ RecordStep \/ CreatedReturns \/ WriteRaisesInDoubt)
        PROVE  pc' \notin Executing
    BY <2>8
    DEF Handle, SnapshotRaises, Reject, CancelBeforeWrite, CancelOpen, CancelApplied, LookMisses,
        StepRaises, ReadbackMismatch, Unreconciled, ReadbackRaises, VerifiedThenRollback, Commit,
        CurrentReturns, CurrentRaises, Abort, ResolveReturns, ResolveConflicts, UndoReturns,
        RollbackRaises, RestoredReturns, RestoredRaises, StepFails, RollBackApplied, AbortDirectly,
        MarkInDoubt, RolledBack, UndoNext, Finish
  <2>9. QED
    BY <2>1, <2>2, <2>3, <2>4, <2>5, <2>6, <2>7, <2>8
<1>5. KeptIsWhole'
  <2>1. CASE last' = last
    BY <1>1, <1>2, <2>1 DEF RunInv, KeptIsWhole
  <2>2. CASE last' # last /\ last'.status = "VERIFIED"
    <3>1. pc = "readback"
      BY <2>2, HandleRecords DEF Record
    <3>2. \A i \in Steps : \A c \in WritesOf(i) : verdict[c] = "result"
      BY <1>3, <3>1 DEF WholeSoFar, Steps
    <3>3. \A i \in Steps : \A c \in WritesOf(i) : fate[c] = "applied"
      BY <3>2, CommandsOfRun DEF RunInv, LinkInv, ResultIsApplied
    <3>4. \A i \in Steps : verdict[<<"undo", i>>] = "none"
      BY <3>1, CommandsOfRun DEF RunInv, NothingYet, AfterUndo
    <3>5. QED
      BY <1>1, <1>2, <3>3, <3>4 DEF KeptIsWhole
  <2>3. QED
    BY <2>1, <2>2 DEF KeptIsWhole
<1>6. QED
  BY <1>4, <1>5

\* Where the recorded actions are when the rollback has come to step cur.
LEMMA HandleUndone ==
    ASSUME RunInv, Handle, UNCHANGED <<linkVars, intentVars, dawVars>>
    PROVE  UndoneSoFar' /\ UndoneInReverse' /\ RolledBackUndoesRecorded'
<1>1. verdict' = verdict /\ fate' = fate /\ plan' = plan /\ Steps' = Steps
  BY DEF linkVars, intentVars, Steps
<1>2. /\ UndoneSoFar /\ JournalPlace /\ WholeSoFar /\ NothingYet /\ LinkInv
      /\ Len(plan) \in Nat \ {0} /\ MaxSteps \in Nat
      /\ recorded \subseteq 1..MaxSteps /\ recorded \subseteq StepNo
      /\ \A i \in recorded : <<"undo", i>> \in Command
  BY CommandsOfRun DEF RunInv, UndoneSoFar, StepNo, StepCall
<1>2a. \A i \in recorded : i \in Int
  BY <1>2
<1>3. UndoneSoFar'
  <2> USE <1>1, <1>2 DEF UndoneSoFar, Go
  <2>1. CASE RecordStep
    <3>1. cur \in Steps /\ cur \in Nat \ {0}
      BY <2>1 DEF RecordStep, WholeSoFar, InStep
    <3>2. QED
      BY <2>1, <3>1 DEF RecordStep, NextStep
  <2>2. CASE ResolveReturns
    <3>1. recorded # {} /\ cur' = LastOf(recorded) /\ pc' = "undo" /\ recorded' = recorded
      BY <2>2 DEF ResolveReturns
    <3>2. cur' \in recorded /\ \A i \in recorded : i <= cur'
      BY <3>1, LastExists
    <3>3. \A i \in recorded : i \in Int /\ ~ (i > cur')
      BY <3>2
    <3>4. \A i \in recorded : verdict[<<"undo", i>>] = "none"
      BY <2>2 DEF ResolveReturns, NothingYet, AfterUndo
    <3>5. QED
      BY <3>1, <3>2, <3>3, <3>4
  <2>3. CASE UndoReturns
    <3>1. pc = "undo" /\ verdict[<<"undo", cur>>] = "result"
      BY <2>3 DEF UndoReturns, Returned, Call, StepCall
    <3>2. CASE Earlier = {}
      BY <2>3, <3>2 DEF UndoReturns, RolledBack, Finish, InStep, ledger
    <3>3. CASE Earlier # {}
      <4>1. cur' = LastOf(Earlier) /\ pc' = "undo" /\ recorded' = recorded
        BY <2>3, <3>1, <3>3 DEF UndoReturns, UndoNext, ledger
      <4>2. cur' \in Earlier /\ \A i \in Earlier : i <= cur'
        BY <3>3, <4>1, LastExists DEF Earlier
      <4>3. cur \in Int /\ cur' \in recorded /\ cur' \in Int /\ cur' < cur
        BY <3>1, <4>2, <1>2a DEF Earlier
      <4>4. ASSUME NEW i \in recorded, i > cur' PROVE verdict[<<"undo", i>>] = "result"
        <5>0. i \in Int
          BY <1>2a
        <5>1. i \notin Earlier
          BY <4>2, <4>3, <4>4, <5>0
        <5>2. i = cur \/ i > cur
          BY <4>3, <5>0, <5>1 DEF Earlier
        <5>3. QED
          BY <3>1, <5>2
      <4>5. ASSUME NEW i \in recorded, i < cur' PROVE verdict[<<"undo", i>>] = "none"
        <5>1. i < cur
          BY <4>3, <4>5, <1>2a
        <5>2. QED
          BY <3>1, <5>1
      <4>6. QED
        BY <4>1, <4>3, <4>4, <4>5 DEF InStep
    <3>4. QED
      BY <3>2, <3>3
  <2>4. CASE ReceiveSnapshot \/ Begin \/ MarkPrepared \/ MarkSent \/ AllSent \/ StepCallReturns
             \/ WriteRaisesInDoubt
    BY <2>4 DEF ReceiveSnapshot, Begin, MarkPrepared, MarkSent, AllSent, StepCallReturns, CallAfter,
       WriteRaisesInDoubt, JournalPlace, Planning, InStep, ledger
  <2>5. CASE CreatedReturns
    <3>1. recorded # {} /\ recorded' = recorded /\ pc' = "step"
      BY <2>5 DEF CreatedReturns, NextStep
    <3>2. QED
      BY <3>1 DEF InStep
  <2>6. CASE CancelApplied \/ ReadbackMismatch \/ VerifiedThenRollback \/ ReadbackRaises
    <3>1. recorded' = recorded /\ pc' \in {"current", "abort"}
      BY <2>6 DEF CancelApplied, ReadbackMismatch, VerifiedThenRollback, ReadbackRaises,
         RollBackApplied, AbortDirectly, ledger
    <3>2. pc \in {"step", "readback"} /\ cur # 1
      <4>1. CASE CancelApplied
        BY <4>1 DEF CancelApplied
      <4>2. CASE ReadbackMismatch \/ VerifiedThenRollback \/ ReadbackRaises
        <5>1. pc = "readback" /\ cur > Len(plan) /\ cur \in Nat
          BY <4>2 DEF ReadbackMismatch, VerifiedThenRollback, ReadbackRaises, WholeSoFar
        <5>2. QED
          BY <5>1
      <4>3. QED
        BY <2>6, <4>1, <4>2
    <3>3. QED
      BY <3>1, <3>2 DEF InStep
  <2>7. CASE LookMisses \/ StepRaises
    <3>1. pc \in InStep /\ cur \in Nat \ {0}
      BY <2>7 DEF LookMisses, StepRaises, InStep, WholeSoFar
    <3>2. \/ pc' = "done"
          \/ pc' \in {"current", "abort"} /\ (cur > 1 \/ txn # "SENT")
      BY <2>7 DEF LookMisses, StepRaises, StepFails, MarkInDoubt, Finish, RollBackApplied,
         AbortDirectly
    <3>3. recorded' = recorded
      BY <2>7 DEF LookMisses, StepRaises, StepFails, MarkInDoubt, RollBackApplied, AbortDirectly,
         ledger
    <3>4. cur > 1 \/ txn # "SENT" => recorded # {}
      BY <3>1 DEF JournalPlace, InStep
    <3>5. QED
      BY <3>2, <3>3, <3>4 DEF InStep
  <2>8. CASE CurrentReturns \/ CurrentRaises \/ Abort
    BY <2>8 DEF CurrentReturns, CurrentRaises, Abort, AbortDirectly, MarkInDoubt, Finish, InStep,
       ledger
  <2>9. CASE SnapshotRaises \/ Reject \/ CancelBeforeWrite \/ CancelOpen \/ Unreconciled \/ Commit
             \/ ResolveConflicts \/ RollbackRaises \/ RestoredReturns \/ RestoredRaises
    BY <2>9 DEF SnapshotRaises, Reject, CancelBeforeWrite, CancelOpen, Unreconciled, Commit,
       ResolveConflicts, RollbackRaises, RestoredReturns, RestoredRaises, MarkInDoubt, Finish,
       InStep, ledger
  <2>10. QED
    BY <2>1, <2>2, <2>3, <2>4, <2>5, <2>6, <2>7, <2>8, <2>9 DEF Handle
<1>4. \/ recorded' = recorded
      \/ pc \in InStep /\ last' = Record("write", "APPLIED") /\ recorded' \subseteq StepNo
  <2>1. CASE RecordStep
    <3>1. cur \in StepNo
      BY <2>1, CommandsOfRun DEF RecordStep, RunInv, WholeSoFar, InStep
    <3>2. QED
      BY <1>2, <2>1, <3>1 DEF RecordStep, Journal, Record, InStep
  <2>2. CASE ~ RecordStep
    BY <2>2 DEF Handle, ReceiveSnapshot, SnapshotRaises, Reject, CancelBeforeWrite, Begin,
       MarkPrepared, CancelOpen, CancelApplied, MarkSent, AllSent, StepCallReturns, CreatedReturns,
       LookMisses, WriteRaisesInDoubt, StepRaises, ReadbackMismatch, Unreconciled, ReadbackRaises,
       VerifiedThenRollback, Commit, CurrentReturns, CurrentRaises, Abort, ResolveReturns,
       ResolveConflicts, UndoReturns, RollbackRaises, RestoredReturns, RestoredRaises,
       StepFails, RollBackApplied, AbortDirectly, MarkInDoubt, RolledBack, UndoNext, ledger
  <2>3. QED
    BY <2>1, <2>2
<1>5. UndoneInReverse'
  <2>1. CASE recorded' = recorded
    BY <1>1, <2>1 DEF RunInv, UndoneInReverse, Undone
  <2>2. CASE pc \in InStep /\ recorded' \subseteq StepNo
    BY <1>1, <1>2, <2>2 DEF UndoneInReverse, NothingYet, InStep, AfterUndo
  <2>3. QED
    BY <1>4, <2>1, <2>2
<1>6. RolledBackUndoesRecorded'
  <2>1. CASE last' = last /\ recorded' = recorded
    BY <1>1, <2>1 DEF RunInv, RolledBackUndoesRecorded, Undone
  <2>2. CASE last' # last /\ last'.status = "ROLLED_BACK"
    <3>1. pc = "undo" /\ UndoReturns /\ Earlier = {} /\ recorded' = recorded
      <4>1. pc = "undo" /\ last' = Record("rollback", "ROLLED_BACK") /\ Returned
        BY <2>2, HandleRecords DEF Record
      <4>2. UndoReturns
        BY <4>1 DEF Handle, ReceiveSnapshot, SnapshotRaises, Reject, CancelBeforeWrite, Begin,
           MarkPrepared, CancelOpen, CancelApplied, MarkSent, AllSent, StepCallReturns, RecordStep,
           CreatedReturns, LookMisses, WriteRaisesInDoubt, StepRaises, ReadbackMismatch,
           Unreconciled, ReadbackRaises, VerifiedThenRollback, Commit, CurrentReturns,
           CurrentRaises, Abort, ResolveReturns, ResolveConflicts, RollbackRaises, RestoredReturns,
           RestoredRaises, Returned, Raised
      <4>3. Earlier = {}
        BY <2>2, <4>2 DEF UndoReturns, UndoNext
      <4>4. QED
        BY <1>4, <4>1, <4>2, <4>3 DEF InStep
    <3>2. verdict[<<"undo", cur>>] = "result" /\ cur \in recorded
      BY <1>2, <3>1 DEF UndoReturns, Returned, Call, StepCall, UndoneSoFar
    <3>3. \A i \in recorded : i = cur \/ i > cur
      BY <1>2a, <3>1, <3>2 DEF Earlier
    <3>4. \A i \in recorded : verdict[<<"undo", i>>] = "result"
      BY <1>2, <3>1, <3>2, <3>3 DEF UndoneSoFar
    <3>5. \A i \in recorded : fate[<<"undo", i>>] = "applied"
      BY <1>2, <3>4 DEF LinkInv, ResultIsApplied
    <3>6. QED
      BY <1>1, <3>1, <3>5 DEF RolledBackUndoesRecorded, Undone
  <2>3. QED
    BY <1>4, <2>1, <2>2 DEF RolledBackUndoesRecorded, Record
<1>7. QED
  BY <1>3, <1>5, <1>6

\* What the Core does between two calls keeps every part.
LEMMA HandleInv ==
    ASSUME RunInv, Handle, UNCHANGED <<linkVars, intentVars, dawVars>>
    PROVE  RunInv'
<1>1. plan' = plan /\ plan \in Plans
  BY DEF intentVars, RunInv
<1>2. QED
  BY <1>1, HandleLinkParts, HandleClean, HandleJournal, HandlePromises, HandleWhole, HandleUndone
  DEF RunInv

-----------------------------------------------------------------------------
(* What the link, Live and the user do while the run stays where it is.    *)

\* The parts that do not look at the link.
LEMMA StayParts ==
    ASSUME RunInv, UNCHANGED <<runVars, plan>>
    PROVE  /\ plan' \in Plans /\ JournalPlace' /\ ClosedAtEnd' /\ ToldAsJournaled'
           /\ Steps' = Steps /\ Recovery' = Recovery /\ Call' = Call /\ Calling' = Calling
           /\ \A i : WritesOf(i)' = WritesOf(i)
<1>1. plan' \in Plans /\ Steps' = Steps
  BY DEF RunInv, Steps
<1>2. JournalPlace' /\ ClosedAtEnd' /\ ToldAsJournaled'
  BY DEF RunInv, runVars, JournalPlace, ClosedAtEnd, ToldAsJournaled
<1>3. Recovery' = Recovery /\ Call' = Call /\ Calling' = Calling
  BY DEF runVars, Recovery, Call, Calling
<1>4. \A i : WritesOf(i)' = WritesOf(i)
  BY DEF WritesOf
<1>5. QED
  BY <1>1, <1>2, <1>3, <1>4

\* Without a step of the link or of the run, everything stays.
LEMMA StayInv == ASSUME RunInv, UNCHANGED <<runVars, plan, linkVars>> PROVE RunInv'
<1>1. /\ plan' \in Plans /\ JournalPlace' /\ ClosedAtEnd' /\ ToldAsJournaled'
      /\ Steps' = Steps /\ Recovery' = Recovery /\ Call' = Call /\ Calling' = Calling
      /\ \A i : WritesOf(i)' = WritesOf(i)
  BY StayParts
<1>2. LinkInv'
  BY LinkPart DEF RunInv
<1>3. OneCall' /\ OneConnection' /\ CallsInOrder' /\ Clean' /\ ResolveInStep' /\ NothingYet'
  BY <1>1 DEF RunInv, runVars, linkVars, OneCall, OneConnection, CallsInOrder, Clean, ResolveInStep,
     NothingYet
<1>4. WriteAhead' /\ ClosedIsSettled' /\ NothingOnTopOfDoubt' /\ ConflictMutatesNothing'
  BY <1>1 DEF RunInv, runVars, linkVars, WriteAhead, ClosedIsSettled, NothingOnTopOfDoubt,
     ConflictMutatesNothing
<1>5. WholeSoFar' /\ KeptIsWhole'
  BY <1>1 DEF RunInv, runVars, linkVars, WholeSoFar, KeptIsWhole
<1>6. UndoneSoFar' /\ UndoneInReverse' /\ RolledBackUndoesRecorded'
  BY <1>1 DEF RunInv, runVars, linkVars, UndoneSoFar, UndoneInReverse, RolledBackUndoesRecorded,
     Undone
<1>7. QED
  BY <1>1, <1>2, <1>3, <1>4, <1>5, <1>6 DEF RunInv

\* Live settles what was pending: no verdict changes, and nothing settled does.
LEMMA SettleKeeps == ASSUME RunInv, Settle, UNCHANGED <<runVars, plan>> PROVE RunInv'
<1>1. /\ plan' \in Plans /\ JournalPlace' /\ ClosedAtEnd' /\ ToldAsJournaled'
      /\ Steps' = Steps /\ Recovery' = Recovery /\ Call' = Call /\ Calling' = Calling
      /\ \A i : WritesOf(i)' = WritesOf(i)
  BY StayParts
<1>2. LinkInv' /\ \A c \in Command : fate[c] = "applied" => fate'[c] = "applied"
  BY LinkPart DEF RunInv, LinkNext
<1>3. UNCHANGED <<verdict, at, era, now, clock>>
  BY DEF Settle, Apply, Spoil, Run, Discard
<1>4. \A c \in Command : fate'[c] = "pending" => fate[c] = "pending"
  BY DEF Settle, Apply, Spoil, Run, Discard, RunInv, LinkInv, LinkTypeOK
<1>5. OneCall' /\ OneConnection' /\ CallsInOrder' /\ Clean' /\ ResolveInStep' /\ NothingYet'
  BY <1>1, <1>3 DEF RunInv, runVars, OneCall, OneConnection, CallsInOrder, Clean, ResolveInStep,
     NothingYet
<1>6. WriteAhead' /\ NothingOnTopOfDoubt' /\ ConflictMutatesNothing' /\ WholeSoFar' /\ UndoneSoFar'
  BY <1>1, <1>3 DEF RunInv, runVars, WriteAhead, NothingOnTopOfDoubt, ConflictMutatesNothing,
     WholeSoFar, UndoneSoFar
<1>7. ClosedIsSettled'
  BY <1>1, <1>4, LinkAssumption DEF RunInv, ClosedIsSettled
<1>8. KeptIsWhole'
  <2>1. \A i \in Steps : WritesOf(i) \subseteq Command
    BY CommandsOfRun DEF RunInv
  <2>2. QED
    BY <1>1, <1>2, <1>3, <2>1 DEF RunInv, runVars, KeptIsWhole
<1>9. UndoneInReverse' /\ RolledBackUndoesRecorded'
  <2>1. \A i \in recorded : <<"undo", i>> \in Command
    BY CommandsOfRun DEF RunInv, UndoneSoFar, StepCall
  <2>2. QED
    BY <1>2, <1>3, <2>1 DEF RunInv, runVars, UndoneInReverse, RolledBackUndoesRecorded, Undone
<1>10. QED
  BY <1>1, <1>2, <1>5, <1>6, <1>7, <1>8, <1>9 DEF RunInv

\* A call is sent from the place that the journal was written for: a write after
\* it was marked sent, an inverse after the rollback began, and both only when
\* every earlier call was answered.
LEMMA SendKeeps == ASSUME RunInv, SendCall PROVE RunInv'
<1>1. /\ plan' \in Plans /\ JournalPlace' /\ ClosedAtEnd' /\ ToldAsJournaled'
      /\ Steps' = Steps /\ Recovery' = Recovery /\ Call' = Call /\ Calling' = Calling
      /\ \A i : WritesOf(i)' = WritesOf(i)
  BY StayParts DEF SendCall, intentVars
<1>2. /\ Calling /\ Call \in Command /\ Idle /\ verdict[Call] = "none" /\ fate[Call] = "unsent"
      /\ pc' = pc /\ cur' = cur /\ recorded' = recorded /\ last' = last
  BY CallIsCommand DEF SendCall, Issue, runVars, RunInv, LinkInv, SentIsKnown
<1>3. /\ clock \in Nat /\ clock' = clock + 1 /\ now' = now
      /\ verdict'[Call] = "waiting" /\ at'[Call] = clock + 1 /\ era'[Call] = now
      /\ fate'[Call] \in {"pending", "untouched"}
  BY <1>2 DEF SendCall, Issue, RunInv, LinkInv, LinkTypeOK
<1>4. \A c \in Command : c # Call =>
          verdict'[c] = verdict[c] /\ fate'[c] = fate[c] /\ at'[c] = at[c] /\ era'[c] = era[c]
  BY <1>2 DEF SendCall, Issue, RunInv, LinkInv, LinkTypeOK
<1>5. \A k, n : Call = <<k, n>> => pc = k
  BY DEF Call
<1>6. LinkInv'
  BY <1>2, IssueInv DEF SendCall, RunInv
<1>7. /\ \A n \in StepNo : <<"write", n>> \in Command /\ <<"undo", n>> \in Command
      /\ <<"resolve", 0>> \in Command
      /\ SideEffect \subseteq Command /\ Steps \subseteq StepNo
      /\ \A n \in Steps : WritesOf(n) \subseteq Command
  BY CommandsOfRun DEF RunInv, StepCall, RunCall
<1>8. Call \in SideEffect => pc \in WriteCall
  BY <1>5, SafeWriteAssumption
<1>9. /\ \A n \in StepNo : verdict'[<<"write", n>>] # "none" =>
             pc = "write" \/ verdict[<<"write", n>>] # "none"
      /\ \A n \in StepNo : verdict'[<<"undo", n>>] # "none" =>
             pc = "undo" \/ verdict[<<"undo", n>>] # "none"
  BY <1>4, <1>5, <1>7
<1>9a. OneCall' /\ OneConnection' /\ CallsInOrder'
  <2>1. OneCall'
    BY <1>1, <1>2, <1>4 DEF OneCall, Idle
  <2>2. OneConnection'
    BY <1>3, <1>4 DEF RunInv, OneConnection
  <2>3. CallsInOrder'
    BY <1>2, <1>3, <1>4 DEF RunInv, CallsInOrder, LinkInv, LinkTypeOK, Idle
  <2>4. QED
    BY <2>1, <2>2, <2>3
<1>10. Clean' /\ ResolveInStep'
  <2>1. Clean'
    BY <1>1, <1>2, <1>3, <1>4 DEF RunInv, Clean, Doubt
  <2>2. ResolveInStep'
    <3>1. CASE pc = "resolve"
      <4>1. Call = <<"resolve", 0>>
        BY <3>1 DEF Call, StepCall
      <4>2. QED
        BY <1>2, <1>3, <3>1, <4>1 DEF ResolveInStep
    <3>2. CASE pc # "resolve"
      BY <1>2, <1>4, <1>5, <1>7, <3>2 DEF RunInv, ResolveInStep
    <3>3. QED
      BY <3>1, <3>2
  <2>3. QED
    BY <2>1, <2>2
<1>11. NothingYet'
  BY <1>2, <1>9 DEF RunInv, NothingYet, Planning, AfterUndo
<1>12. WriteAhead' /\ ConflictMutatesNothing'
  <2>0. WriteAhead /\ ConflictMutatesNothing
    BY DEF RunInv
  <2>1. /\ pc = "write" => last.status = "SENT"
        /\ pc = "undo" => last.status = "SENT" /\ last.kind = "rollback"
    BY DEF RunInv, JournalPlace, InStep, Record
  <2>2. WriteAhead'
    BY <1>2, <1>9, <2>0, <2>1 DEF WriteAhead
  <2>3. ConflictMutatesNothing'
    BY <1>1, <1>2, <1>7, <1>9, <2>0, <2>1 DEF ConflictMutatesNothing
  <2>4. QED
    BY <2>2, <2>3
<1>13. ClosedIsSettled'
  <2>1. pc \in WriteCall => last \in {Record("write", "SENT"), Record("rollback", "SENT")}
    BY DEF RunInv, JournalPlace, InStep, WriteCall
  <2>2. pc \in WriteCall => Recovery \notin {"VERIFIED", "ROLLBACK_CONFLICT"}
    BY <2>1 DEF Recovery, Record
  <2>3. QED
    BY <1>1, <1>4, <1>7, <1>8, <2>2 DEF RunInv, ClosedIsSettled
<1>14. NothingOnTopOfDoubt'
  <2>1. ASSUME NEW c \in SideEffect, NEW d \in SideEffect,
               verdict'[c] \in Doubt, verdict'[d] # "none"
        PROVE  at'[d] <= at'[c]
    <3>1. c # Call /\ c \in Command /\ verdict[c] \in Doubt
      BY <1>3, <1>4, <1>7, <2>1 DEF Doubt
    <3>2. d # Call
      <4>1. ASSUME pc \in WriteCall PROVE FALSE
        BY <3>1, <4>1 DEF RunInv, Clean, WriteCall, Over
      <4>2. QED
        BY <1>8, <4>1
    <3>3. QED
      BY <1>4, <1>7, <2>1, <3>1, <3>2 DEF RunInv, NothingOnTopOfDoubt, Doubt
  <2>2. QED
    BY <2>1 DEF NothingOnTopOfDoubt, Doubt
<1>15. WholeSoFar' /\ KeptIsWhole'
  <2>1. \A c \in Command : verdict[c] = "result" => verdict'[c] = "result"
    BY <1>2, <1>4
  <2>2. \A c \in Command : fate[c] = "applied" => fate'[c] = "applied"
    BY <1>2, <1>4
  <2>3. WholeSoFar'
    <3>1. WholeSoFar
      BY DEF RunInv
    <3>2. pc \in InStep => cur \in Steps /\ <<"write", cur>> \in Command
      BY <1>7, <3>1 DEF WholeSoFar
    <3>3. pc' = pc /\ cur' = cur /\ plan' = plan
      BY <1>2 DEF SendCall, intentVars
    <3>4. \A n \in Steps : \A c \in WritesOf(n) : verdict[c] = "result" => verdict'[c] = "result"
      BY <1>7, <2>1
    <3>5. pc = "fill" => verdict'[<<"write", cur>>] = "result"
      BY <2>1, <3>1, <3>2 DEF WholeSoFar, InStep
    <3>6. pc \in {"look", "created"} => \A c \in WritesOf(cur) : verdict'[c] = "result"
      BY <3>1, <3>2, <3>4 DEF WholeSoFar, InStep
    <3>7. QED
      BY <1>1, <3>1, <3>3, <3>4, <3>5, <3>6 DEF WholeSoFar
  <2>4. KeptIsWhole'
    <3>1. pc = "undo" => last.status # "VERIFIED"
      BY DEF RunInv, JournalPlace, Record
    <3>2. CASE last.status = "VERIFIED"
      <4>1. \A n \in Steps : \A c \in WritesOf(n) : fate'[c] = "applied"
        BY <1>7, <2>2, <3>2 DEF RunInv, KeptIsWhole
      <4>2. \A n \in Steps : verdict'[<<"undo", n>>] = "none"
        BY <1>7, <1>9, <3>1, <3>2 DEF RunInv, KeptIsWhole
      <4>3. QED
        BY <1>1, <4>1, <4>2 DEF KeptIsWhole
    <3>3. QED
      BY <1>2, <3>2 DEF KeptIsWhole
  <2>5. QED
    BY <2>3, <2>4
<1>16. UndoneSoFar' /\ UndoneInReverse' /\ RolledBackUndoesRecorded'
  <2>1. UndoneSoFar /\ recorded \subseteq StepNo /\ \A n \in recorded : n \in Int
    BY CommandsOfRun DEF RunInv, UndoneSoFar, StepNo
  <2>2. UndoneSoFar'
    <3>1. ASSUME NEW n \in recorded, pc = "undo"
          PROVE  /\ n > cur => verdict'[<<"undo", n>>] = "result"
                 /\ n < cur => verdict'[<<"undo", n>>] = "none"
      <4>1. Call = <<"undo", cur>> /\ cur \in Int
        BY <2>1, <3>1 DEF Call, StepCall, UndoneSoFar
      <4>2. n # cur => verdict'[<<"undo", n>>] = verdict[<<"undo", n>>]
        BY <1>4, <1>7, <2>1, <4>1
      <4>3. QED
        BY <2>1, <3>1, <4>1, <4>2 DEF UndoneSoFar
    <3>2. QED
      BY <1>1, <1>2, <2>1, <3>1 DEF UndoneSoFar
  <2>3. \A n \in recorded : Undone(n) => Undone(n)'
    BY <1>2, <1>4, <1>7, <2>1 DEF Undone
  <2>4. UndoneInReverse'
    <3>1. ASSUME NEW n \in recorded, verdict'[<<"undo", n>>] # "none",
                 NEW m \in recorded, m > n
          PROVE  Undone(m)
      <4>1. CASE <<"undo", n>> = Call
        <5>1. pc = "undo" /\ cur = n
          BY <4>1 DEF Call, StepCall
        <5>2. verdict[<<"undo", m>>] = "result"
          BY <2>1, <3>1, <5>1 DEF UndoneSoFar
        <5>3. QED
          BY <1>7, <2>1, <5>2 DEF RunInv, LinkInv, ResultIsApplied, Undone
      <4>2. CASE <<"undo", n>> # Call
        BY <1>4, <1>7, <2>1, <3>1, <4>2 DEF RunInv, UndoneInReverse
      <4>3. QED
        BY <4>1, <4>2
    <3>2. QED
      BY <1>2, <2>3, <3>1 DEF UndoneInReverse
  <2>5. RolledBackUndoesRecorded'
    BY <1>2, <2>3 DEF RunInv, RolledBackUndoesRecorded
  <2>6. QED
    BY <2>2, <2>4, <2>5
<1>17. QED
  BY <1>1, <1>6, <1>9a, <1>10, <1>11, <1>12, <1>13, <1>14, <1>15, <1>16 DEF RunInv

\* A call returns a result only on a connection that has answered every call.
LEMMA ReturnKeeps == ASSUME RunInv, CallReturns PROVE RunInv'
<1>1. /\ plan' \in Plans /\ JournalPlace' /\ ClosedAtEnd' /\ ToldAsJournaled'
      /\ Steps' = Steps /\ Recovery' = Recovery /\ Call' = Call /\ Calling' = Calling
      /\ \A i : WritesOf(i)' = WritesOf(i)
  BY StayParts DEF CallReturns, intentVars
<1>2. /\ Calling /\ Call \in Command /\ UNCHANGED <<plan, pc, cur, recorded, last>>
  BY CallIsCommand DEF CallReturns, runVars, intentVars
<1>3. PICK v \in {"result", "refused"} \cup Doubt :
        Answer(Call, v) /\ (v = "result" => ~Broken)
  BY DEF CallReturns, Return, ReturnResult, ReturnRefused, ReturnInDoubt, ReturnFailed, Doubt
<1>4. /\ verdict[Call] = "waiting" /\ verdict'[Call] = v
      /\ \A c \in Command : c # Call => verdict'[c] = verdict[c]
      /\ UNCHANGED <<fate, at, era, now, clock>>
  BY <1>2, <1>3 DEF Answer, RunInv, LinkInv, LinkTypeOK
<1>5. LinkInv'
  BY <1>2, ReturnInv DEF CallReturns, RunInv
<1>6. /\ \A c \in Command : verdict'[c] = "none" <=> verdict[c] = "none"
      /\ \A c \in Command : verdict[c] = "result" => verdict'[c] = "result"
      /\ \A c \in Command : verdict'[c] = "waiting" => verdict[c] = "waiting" /\ c # Call
  BY <1>4 DEF Doubt
<1>7. /\ \A n \in StepNo : <<"write", n>> \in Command /\ <<"undo", n>> \in Command
      /\ <<"resolve", 0>> \in Command
      /\ SideEffect \subseteq Command /\ Steps \subseteq StepNo
      /\ \A n \in Steps : WritesOf(n) \subseteq Command
  BY CommandsOfRun DEF RunInv, StepCall, RunCall
<1>8. OneCall' /\ OneConnection' /\ CallsInOrder' /\ Clean'
  <2>1. OneCall' /\ OneConnection' /\ CallsInOrder'
    BY <1>1, <1>2, <1>4, <1>6 DEF RunInv, OneCall, OneConnection, CallsInOrder
  <2>2. Clean'
    BY <1>1, <1>2, <1>4 DEF RunInv, Clean
  <2>3. QED
    BY <2>1, <2>2
<1>9. ResolveInStep'
  <2>1. ResolveInStep /\ OneConnection
    BY DEF RunInv
  <2>2. CASE pc = "resolve"
    <3>1. Call = <<"resolve", 0>>
      BY <2>2 DEF Call, StepCall
    <3>2. v = "result" => \A c \in Command : verdict'[c] \notin Doubt
      BY <1>3, <1>4, <2>1 DEF Broken, OneConnection, Doubt
    <3>3. QED
      BY <1>2, <1>4, <2>2, <3>1, <3>2 DEF ResolveInStep
  <2>3. CASE pc # "resolve"
    BY <1>2, <1>6, <1>7, <2>1, <2>3 DEF ResolveInStep
  <2>4. QED
    BY <2>2, <2>3
<1>10. NothingYet' /\ WriteAhead' /\ ConflictMutatesNothing'
  BY <1>1, <1>2, <1>6, <1>7 DEF RunInv, NothingYet, WriteAhead, ConflictMutatesNothing
<1>11. ClosedIsSettled' /\ RolledBackUndoesRecorded'
  BY <1>1, <1>2, <1>4 DEF RunInv, ClosedIsSettled, RolledBackUndoesRecorded, Undone
<1>12. NothingOnTopOfDoubt'
  <2>1. ASSUME NEW c \in SideEffect, NEW d \in SideEffect,
               verdict'[c] \in Doubt, verdict'[d] # "none"
        PROVE  at'[d] <= at'[c]
    <3>1. verdict[d] # "none" /\ c \in Command /\ d \in Command
      BY <1>6, <1>7, <2>1
    <3>2. CASE c = Call
      BY <1>4, <3>1, <3>2 DEF RunInv, CallsInOrder
    <3>3. CASE c # Call
      BY <1>4, <2>1, <3>1, <3>3 DEF RunInv, NothingOnTopOfDoubt, Doubt
    <3>4. QED
      BY <3>2, <3>3
  <2>2. QED
    BY <2>1 DEF NothingOnTopOfDoubt, Doubt
<1>13. WholeSoFar'
  <2>1. WholeSoFar
    BY DEF RunInv
  <2>2. pc \in InStep => cur \in Steps /\ <<"write", cur>> \in Command
    BY <1>7, <2>1 DEF WholeSoFar
  <2>3. \A n \in Steps : \A c \in WritesOf(n) : verdict[c] = "result" => verdict'[c] = "result"
    BY <1>6, <1>7
  <2>4. pc = "fill" => verdict'[<<"write", cur>>] = "result"
    BY <1>6, <2>1, <2>2 DEF WholeSoFar, InStep
  <2>5. pc \in {"look", "created"} => \A c \in WritesOf(cur) : verdict'[c] = "result"
    BY <2>1, <2>2, <2>3 DEF WholeSoFar, InStep
  <2>6. QED
    BY <1>1, <1>2, <2>1, <2>3, <2>4, <2>5 DEF WholeSoFar
<1>14. KeptIsWhole'
  BY <1>1, <1>2, <1>4, <1>6, <1>7 DEF RunInv, KeptIsWhole
<1>15. UndoneSoFar' /\ UndoneInReverse'
  <2>1. UndoneSoFar /\ recorded \subseteq StepNo
    BY CommandsOfRun DEF RunInv, UndoneSoFar
  <2>2. UndoneSoFar'
    BY <1>1, <1>2, <1>6, <1>7, <2>1 DEF UndoneSoFar
  <2>3. UndoneInReverse'
    BY <1>2, <1>4, <1>6, <1>7, <2>1 DEF RunInv, UndoneInReverse, Undone
  <2>4. QED
    BY <2>2, <2>3
<1>16. QED
  BY <1>1, <1>5, <1>8, <1>9, <1>10, <1>11, <1>12, <1>13, <1>14, <1>15 DEF RunInv

\* A crash leaves the journal and Live to recovery as they are.
LEMMA CrashKeeps == ASSUME RunInv, Crash PROVE RunInv'
<1>1. pc' = "crashed" /\ UNCHANGED <<linkVars, plan, cur, recorded, txn, last, why, outcome>>
  BY DEF Crash, Go, ledger, intentVars
<1>2. /\ plan' \in Plans /\ Steps' = Steps /\ Recovery' = Recovery
      /\ \A i : WritesOf(i)' = WritesOf(i)
  BY <1>1 DEF RunInv, Steps, Recovery, WritesOf
<1>3. LinkInv'
  BY <1>1, LinkPart DEF RunInv
<1>4. /\ OneCall' /\ OneConnection' /\ CallsInOrder' /\ Clean' /\ ResolveInStep' /\ JournalPlace'
      /\ NothingYet' /\ ClosedAtEnd' /\ ToldAsJournaled'
  BY <1>1 DEF RunInv, linkVars, OneCall, OneConnection, CallsInOrder, Clean, ResolveInStep,
     JournalPlace, NothingYet, ClosedAtEnd, ToldAsJournaled, Over, AfterUndo, Planning, InStep
<1>5. /\ WriteAhead' /\ ClosedIsSettled' /\ NothingOnTopOfDoubt' /\ ConflictMutatesNothing'
      /\ KeptIsWhole' /\ UndoneInReverse' /\ RolledBackUndoesRecorded'
  BY <1>1, <1>2 DEF RunInv, linkVars, WriteAhead, ClosedIsSettled, NothingOnTopOfDoubt,
     ConflictMutatesNothing, KeptIsWhole, UndoneInReverse, RolledBackUndoesRecorded, Undone
<1>6. WholeSoFar' /\ UndoneSoFar'
  BY <1>1, <1>2 DEF RunInv, WholeSoFar, UndoneSoFar, Planning, InStep
<1>7. QED
  BY <1>2, <1>3, <1>4, <1>5, <1>6 DEF RunInv

-----------------------------------------------------------------------------
(* The theorems.                                                           *)

\* A run starts with nothing sent and nothing journaled.
LEMMA RunInitInv == Init => RunInv
<1> SUFFICES ASSUME Init PROVE RunInv
  OBVIOUS
<1>1. plan \in Plans /\ LinkInv
  BY LinkInitInv DEF Init
<1>2. /\ \A c \in Command : verdict[c] = "none" /\ fate[c] = "unsent" /\ at[c] = 0
      /\ clock = 0 /\ pc = "snapshot" /\ cur = 1 /\ recorded = {}
      /\ txn = "none" /\ last = Record("none", "none")
  BY DEF Init, LinkInit, Record
<1>3. /\ \A n \in StepNo : <<"write", n>> \in Command /\ <<"undo", n>> \in Command
      /\ <<"resolve", 0>> \in Command
      /\ SideEffect \subseteq Command /\ Steps \subseteq StepNo /\ Len(plan) \in Nat
  BY <1>1, CommandsOfRun DEF StepCall, RunCall
<1>4. OneCall /\ OneConnection /\ CallsInOrder /\ Clean /\ ResolveInStep
  BY <1>2, <1>3 DEF OneCall, OneConnection, CallsInOrder, Clean, ResolveInStep, Doubt
<1>5. JournalPlace /\ NothingYet /\ ClosedAtEnd /\ ToldAsJournaled
  BY <1>2, <1>3 DEF JournalPlace, NothingYet, ClosedAtEnd, ToldAsJournaled, InStep, Record
<1>6. WriteAhead /\ ClosedIsSettled /\ NothingOnTopOfDoubt /\ ConflictMutatesNothing
  BY <1>2, <1>3 DEF WriteAhead, ClosedIsSettled, NothingOnTopOfDoubt, ConflictMutatesNothing, Record
<1>7. WholeSoFar /\ KeptIsWhole
  <2>1. \A n \in Steps : ~ (n < cur)
    BY <1>2, <1>3 DEF Steps
  <2>2. QED
    BY <1>2, <2>1 DEF WholeSoFar, KeptIsWhole, InStep, Record
<1>8. UndoneSoFar /\ UndoneInReverse /\ RolledBackUndoesRecorded
  BY <1>2 DEF UndoneSoFar, UndoneInReverse, RolledBackUndoesRecorded
<1>9. QED
  BY <1>1, <1>4, <1>5, <1>6, <1>7, <1>8 DEF RunInv

\* Every step of the run, the link, Live, the user and a crash keeps the invariant.
LEMMA RunStepInv == RunInv /\ [Next]_vars => RunInv'
<1> SUFFICES ASSUME RunInv, [Next]_vars PROVE RunInv'
  OBVIOUS
<1>1. CASE SendCall
  BY <1>1, SendKeeps
<1>2. CASE Handle /\ UNCHANGED <<linkVars, intentVars, dawVars>>
  BY <1>2, HandleInv
<1>3. CASE CallReturns
  BY <1>3, ReturnKeeps
<1>4. CASE Cancel
  BY <1>4, StayInv DEF Cancel
<1>5. CASE Crash
  BY <1>5, CrashKeeps
<1>6. ASSUME NEW c \in Command, LiveApplies(c) \/ LiveSpoils(c) \/ LiveRefuses(c) PROVE RunInv'
  <2>1. Settle /\ UNCHANGED <<runVars, plan>>
    BY <1>6 DEF LiveApplies, LiveSpoils, LiveRefuses, Settle, intentVars
  <2>2. QED
    BY <2>1, SettleKeeps
<1>7. ASSUME NEW t \in Track, UserEdits(t) PROVE RunInv'
  BY <1>7, StayInv DEF UserEdits, intentVars
<1>8. CASE UNCHANGED vars
  BY <1>8, StayInv DEF vars, intentVars
<1>9. QED
  BY <1>1, <1>2, <1>3, <1>4, <1>5, <1>6, <1>7, <1>8 DEF Next, Core

\* The journal, the answer to the caller and the verdicts of the link agree all
\* along a run, whatever Live, the user and the connection do.
THEOREM SafeWriteCorrect == Spec => []RunInv
  BY RunInitInv, RunStepInv, PTL DEF Spec

\* No write leaves the Core before the journal says SENT, and no inverse before
\* it says that a rollback started: recovery never takes a sent write for unsent.
THEOREM WriteAheadHolds == Spec => []WriteAhead
<1>1. RunInv => WriteAhead
  BY DEF RunInv
<1>2. QED
  BY SafeWriteCorrect, <1>1, PTL

\* Nothing of a transaction that recovery will not look at again is still on its
\* way to Live.
THEOREM ClosedIsSettledHolds == Spec => []ClosedIsSettled
<1>1. RunInv => ClosedIsSettled
  BY DEF RunInv
<1>2. QED
  BY SafeWriteCorrect, <1>1, PTL

\* After a write without an answer the run sends neither a write nor an inverse.
THEOREM NothingOnTopOfDoubtHolds == Spec => []NothingOnTopOfDoubt
<1>1. RunInv => NothingOnTopOfDoubt
  BY DEF RunInv
<1>2. QED
  BY SafeWriteCorrect, <1>1, PTL

\* A rollback that ends in a conflict has sent no inverse.
THEOREM ConflictMutatesNothingHolds == Spec => []ConflictMutatesNothing
<1>1. RunInv => ConflictMutatesNothing
  BY DEF RunInv
<1>2. QED
  BY SafeWriteCorrect, <1>1, PTL

\* A kept intent is in Live with every write of every step.
THEOREM KeptIsWholeHolds == Spec => []KeptIsWhole
<1>1. RunInv => KeptIsWhole
  BY DEF RunInv
<1>2. QED
  BY SafeWriteCorrect, <1>1, PTL

\* Inverses are sent in the reverse order of the recorded steps.
THEOREM UndoneInReverseHolds == Spec => []UndoneInReverse
<1>1. RunInv => UndoneInReverse
  BY DEF RunInv
<1>2. QED
  BY SafeWriteCorrect, <1>1, PTL

\* A transaction journaled ROLLED_BACK had every recorded step undone by Live.
THEOREM RolledBackUndoesRecordedHolds == Spec => []RolledBackUndoesRecorded
<1>1. RunInv => RolledBackUndoesRecorded
  BY DEF RunInv
<1>2. QED
  BY SafeWriteCorrect, <1>1, PTL

\* No path out of the run leaves its transaction open for the next begin().
THEOREM ClosedAtEndHolds == Spec => []ClosedAtEnd
<1>1. RunInv => ClosedAtEnd
  BY DEF RunInv
<1>2. QED
  BY SafeWriteCorrect, <1>1, PTL

\* The outcome the caller sees is the one the journal holds.
THEOREM ToldAsJournaledHolds == Spec => []ToldAsJournaled
<1>1. RunInv => ToldAsJournaled
  BY DEF RunInv
<1>2. QED
  BY SafeWriteCorrect, <1>1, PTL

-----------------------------------------------------------------------------
(* Type correctness: a step of the plan, a track of the session.           *)

\* A command that was sent is one of a step of the plan.
SentInPlan == \A k \in WriteCall, i \in StepNo : verdict[<<k, i>>] # "none" => i \in Steps

\* What each step of a plan and each track of the session is made of.
LEMMA StepsTyped ==
    ASSUME plan \in Plans, NEW i \in Steps
    PROVE  /\ i \in StepNo /\ i \in Nat /\ Target(i) \in Track /\ plan[i].kind \in Kind
           /\ plan[i].index \in Int
<1>1. plan \in Seq(Step) /\ Steps \subseteq StepNo /\ MaxSteps \in Nat
  BY CommandsOfRun, SafeWriteAssumption
<1>2. plan[i] \in Step
  BY <1>1, ElementOfSeq DEF Steps
<1>3. QED
  BY <1>1, <1>2 DEF Step, Target, StepNo

\* A snapshot shows some of the features of each track.
LEMMA SnapshotsTyped ==
    ASSUME look \in [Track -> SUBSET Feature]
    PROVE  Snapshots \subseteq [Track -> SUBSET Feature]
<1> SUFFICES ASSUME NEW U \in SUBSET {t \in Track : "notes" \in look[t]}
             PROVE  [t \in Track |-> IF t \in U THEN look[t] \ {"notes"} ELSE look[t]]
                        \in [Track -> SUBSET Feature]
  BY DEF Snapshots
<1>1. \A t \in Track : (IF t \in U THEN look[t] \ {"notes"} ELSE look[t]) \in SUBSET Feature
  OBVIOUS
<1>2. QED
  BY <1>1

\* A list of tracks with one more inserted is a list of tracks...
LEMMA InsertTyped ==
    ASSUME live \in Seq(Track), NEW t \in Track, NEW n \in -1..Len(live)
    PROVE  InsertTrack(t, n) \in Seq(Track)
<1>0. Len(live) \in Nat
  BY LenProperties
<1>1. CASE n = -1
  BY <1>1 DEF InsertTrack
<1>2. CASE n # -1
  <2>1. n \in 0..Len(live) /\ n + 1 - 1 = n
    BY <1>0, <1>2
  <2>2. \A j \in 1..n : live[j] \in Track
    BY <1>0, <2>1, ElementOfSeq
  <2>3. SubSeq(live, 1, n) \in Seq(Track)
    BY <2>1, <2>2, SubSeqProperties
  <2>4. \A j \in (n + 1)..Len(live) : live[j] \in Track
    BY <1>0, <2>1, ElementOfSeq
  <2>5. SubSeq(live, n + 1, Len(live)) \in Seq(Track)
    BY <1>0, <2>1, <2>4, SubSeqProperties
  <2>6. <<t>> \in Seq(Track)
    OBVIOUS
  <2>7. SubSeq(live, 1, n) \o <<t>> \in Seq(Track)
    BY <2>3, <2>6, ConcatProperties
  <2>8. QED
    BY <1>2, <2>1, <2>5, <2>7, ConcatProperties DEF InsertTrack, InsertAt
<1>3. QED
  BY <1>1, <1>2

\* ... and so does removing one.
LEMMA RemoveTyped ==
    ASSUME live \in Seq(Track), NEW n \in 1..Len(live)
    PROVE  RemoveAt(live, n) \in Seq(Track) /\ live[n] \in Track
<1>0. Len(live) \in Nat /\ n \in Nat
  BY LenProperties
<1>1. \A j \in 1..(n - 1) : live[j] \in Track
  BY <1>0, ElementOfSeq
<1>2. \A j \in (n + 1)..Len(live) : live[j] \in Track
  BY <1>0, ElementOfSeq
<1>3. SubSeq(live, 1, n - 1) \in Seq(Track)
  BY <1>0, <1>1, SubSeqProperties
<1>4. SubSeq(live, n + 1, Len(live)) \in Seq(Track)
  BY <1>0, <1>2, SubSeqProperties
<1>5. QED
  BY <1>3, <1>4, ConcatProperties, ElementOfSeq DEF RemoveAt

\* The step a write or an inverse is called for is one of the plan.
LEMMA CallInPlan ==
    ASSUME RunInv, Calling, NEW k \in WriteCall, NEW i \in StepNo, Call = <<k, i>>
    PROVE  i \in Steps
<1>1. pc = k /\ pc \in StepCall
  BY DEF Call, WriteCall, StepCall
<1>2. i = cur
  BY <1>1 DEF Call
<1>3. QED
  BY <1>1, <1>2 DEF RunInv, WholeSoFar, UndoneSoFar, InStep, WriteCall, StepCall

\* The parts of the type invariant the Core's steps change, and those they do not.
RunTyped ==
    /\ pc \in StepCall \cup RunCall \cup {"check", "planned", "step", "abort", "done", "crashed"}
    /\ cur \in 1..(MaxSteps + 1)
    /\ recorded \subseteq Steps
    /\ txn \in Status \cup {"closed"}
    /\ last \in [kind : {"none", "write", "prepare", "rollback", "commit", "fail"}, status : Status]
    /\ why \in Reason \cup {"none"} /\ outcome \in Outcome \cup {"none"}

ShownTyped ==
    /\ print \in [StepNo -> SUBSET Feature]
    /\ seen \in [Track -> SUBSET Feature]
    /\ addr \in [StepNo -> Nat]

DawTyped ==
    /\ live \in Seq(Track) /\ look \in [Track -> SUBSET Feature]
    /\ struck \in [StepNo -> Track \cup {"none"}]

\* The type invariant is the types of the link, of the run and of Live.
LEMMA TypeParts ==
    TypeOK <=> /\ LinkTypeOK /\ RunTyped /\ ShownTyped /\ DawTyped
               /\ plan \in Plans /\ decision \in {"KEEP", "ROLLBACK"} /\ cancelled \in BOOLEAN
  BY DEF TypeOK, RunTyped, ShownTyped, DawTyped

\* Where the run goes, the record it leaves and what it returns are typed.
LEMMA HandleRunTyped ==
    ASSUME RunInv, RunTyped, Handle, UNCHANGED <<linkVars, intentVars, dawVars>>
    PROVE  RunTyped'
<1>1. plan' = plan /\ Steps' = Steps
  BY DEF intentVars, Steps
<1>2. /\ Steps \subseteq StepNo /\ MaxSteps \in Nat /\ recorded \subseteq Steps
      /\ 1 \in 1..(MaxSteps + 1) /\ StepNo \subseteq 1..(MaxSteps + 1)
      /\ \A n \in Steps : n + 1 \in 1..(MaxSteps + 1)
  BY CommandsOfRun DEF RunInv, RunTyped, StepNo
<1>3. pc' \in StepCall \cup RunCall \cup {"check", "planned", "step", "abort", "done", "crashed"}
  BY DEF RunTyped, Handle, ReceiveSnapshot, SnapshotRaises, Reject, CancelBeforeWrite, Begin,
     MarkPrepared,
     CancelOpen, CancelApplied, MarkSent, AllSent, StepCallReturns, RecordStep, CreatedReturns,
     LookMisses, WriteRaisesInDoubt, StepRaises, ReadbackMismatch, Unreconciled, ReadbackRaises,
     VerifiedThenRollback, Commit, CurrentReturns, CurrentRaises, Abort, ResolveReturns,
     ResolveConflicts, UndoReturns, RollbackRaises, RestoredReturns, RestoredRaises,
     StepFails, RollBackApplied, AbortDirectly, MarkInDoubt, RolledBack, UndoNext, NextStep, Go,
     Finish, CallAfter, StepCall, RunCall
<1>4. cur' = cur \/ (cur \in Steps /\ cur' = cur + 1)
      \/ (pc = "resolve" /\ cur' = LastOf(recorded)) \/ (pc = "undo" /\ Earlier # {} /\ cur' = LastOf(Earlier))
  <2>1. pc \in {"write", "look", "created"} => cur \in Steps
    BY DEF RunInv, WholeSoFar, InStep
  <2>2. QED
    BY <2>1 DEF Handle, ReceiveSnapshot, SnapshotRaises, Reject, CancelBeforeWrite, Begin,
     MarkPrepared,
     CancelOpen, CancelApplied, MarkSent, AllSent, StepCallReturns, RecordStep, CreatedReturns,
     LookMisses, WriteRaisesInDoubt, StepRaises, ReadbackMismatch, Unreconciled, ReadbackRaises,
     VerifiedThenRollback, Commit, CurrentReturns, CurrentRaises, Abort, ResolveReturns,
     ResolveConflicts, UndoReturns, RollbackRaises, RestoredReturns, RestoredRaises,
     StepFails, RollBackApplied, AbortDirectly, MarkInDoubt, RolledBack, UndoNext, NextStep
<1>5. cur' \in 1..(MaxSteps + 1)
  <2>1. \A S \in SUBSET StepNo : S # {} => LastOf(S) \in StepNo
    BY <1>2, LastExists DEF StepNo
  <2>2. recorded \in SUBSET StepNo /\ Earlier \in SUBSET StepNo
    BY <1>2 DEF Earlier
  <2>3. pc = "resolve" => recorded # {}
    BY DEF RunInv, UndoneSoFar
  <2>4. QED
    BY <1>2, <1>4, <2>1, <2>2, <2>3 DEF RunTyped
<1>6. recorded' \subseteq Steps'
  <2>1. pc \in {"write", "look"} => cur \in Steps
    BY DEF RunInv, WholeSoFar, InStep
  <2>2. recorded' = recorded \/ (cur \in Steps /\ recorded' = recorded \cup {cur})
    BY <2>1 DEF Handle, ReceiveSnapshot, SnapshotRaises, Reject, CancelBeforeWrite, Begin,
     MarkPrepared,
     CancelOpen, CancelApplied, MarkSent, AllSent, StepCallReturns, RecordStep, CreatedReturns,
     LookMisses, WriteRaisesInDoubt, StepRaises, ReadbackMismatch, Unreconciled, ReadbackRaises,
     VerifiedThenRollback, Commit, CurrentReturns, CurrentRaises, Abort, ResolveReturns,
     ResolveConflicts, UndoReturns, RollbackRaises, RestoredReturns, RestoredRaises,
     StepFails, RollBackApplied, AbortDirectly, MarkInDoubt, RolledBack, UndoNext, ledger
  <2>3. QED
    BY <1>1, <1>2, <2>2
<1>7. txn' \in Status \cup {"closed"}
  BY DEF RunTyped, Status, Handle, ReceiveSnapshot, SnapshotRaises, Reject, CancelBeforeWrite,
     Begin, MarkPrepared,
     CancelOpen, CancelApplied, MarkSent, AllSent, StepCallReturns, RecordStep, CreatedReturns,
     LookMisses, WriteRaisesInDoubt, StepRaises, ReadbackMismatch, Unreconciled, ReadbackRaises,
     VerifiedThenRollback, Commit, CurrentReturns, CurrentRaises, Abort, ResolveReturns,
     ResolveConflicts, UndoReturns, RollbackRaises, RestoredReturns, RestoredRaises,
     StepFails, RollBackApplied, AbortDirectly, MarkInDoubt, RolledBack, UndoNext, CloseTxn
<1>8. last' \in [kind : {"none", "write", "prepare", "rollback", "commit", "fail"}, status : Status]
  BY DEF RunTyped, Status, Handle, ReceiveSnapshot, SnapshotRaises, Reject, CancelBeforeWrite,
     Begin, MarkPrepared,
     CancelOpen, CancelApplied, MarkSent, AllSent, StepCallReturns, RecordStep, CreatedReturns,
     LookMisses, WriteRaisesInDoubt, StepRaises, ReadbackMismatch, Unreconciled, ReadbackRaises,
     VerifiedThenRollback, Commit, CurrentReturns, CurrentRaises, Abort, ResolveReturns,
     ResolveConflicts, UndoReturns, RollbackRaises, RestoredReturns, RestoredRaises,
     StepFails, RollBackApplied, AbortDirectly, MarkInDoubt, RolledBack, UndoNext, CloseTxn, Journal
<1>9. why' \in Reason \cup {"none"}
  BY DEF RunTyped, Reason, Handle, ReceiveSnapshot, SnapshotRaises, Reject, CancelBeforeWrite,
     Begin, MarkPrepared,
     CancelOpen, CancelApplied, MarkSent, AllSent, StepCallReturns, RecordStep, CreatedReturns,
     LookMisses, WriteRaisesInDoubt, StepRaises, ReadbackMismatch, Unreconciled, ReadbackRaises,
     VerifiedThenRollback, Commit, CurrentReturns, CurrentRaises, Abort, ResolveReturns,
     ResolveConflicts, UndoReturns, RollbackRaises, RestoredReturns, RestoredRaises,
     StepFails, RollBackApplied, AbortDirectly, MarkInDoubt, RolledBack, UndoNext
<1>10. outcome' \in Outcome \cup {"none"}
  <2>1. pc \in {"current", "abort", "resolve", "undo"} => why \in Reason
    BY DEF RunInv, JournalPlace
  <2>2. QED
    BY <2>1 DEF RunTyped, Outcome, Reason, Handle, ReceiveSnapshot, SnapshotRaises, Reject,
     CancelBeforeWrite, Begin, MarkPrepared,
     CancelOpen, CancelApplied, MarkSent, AllSent, StepCallReturns, RecordStep, CreatedReturns,
     LookMisses, WriteRaisesInDoubt, StepRaises, ReadbackMismatch, Unreconciled, ReadbackRaises,
     VerifiedThenRollback, Commit, CurrentReturns, CurrentRaises, Abort, ResolveReturns,
     ResolveConflicts, UndoReturns, RollbackRaises, RestoredReturns, RestoredRaises,
     StepFails, RollBackApplied, AbortDirectly, MarkInDoubt, RolledBack, UndoNext, Finish, RolledBackAs
<1>11. QED
  BY <1>3, <1>5, <1>6, <1>7, <1>8, <1>9, <1>10 DEF RunTyped

\* The fingerprints the run keeps and the indices it resolved are typed.
LEMMA HandleShownTyped ==
    ASSUME RunInv, TypeOK, Handle, UNCHANGED <<linkVars, intentVars, dawVars>>
    PROVE  ShownTyped'
<1>1. /\ ShownTyped /\ Snapshots \subseteq [Track -> SUBSET Feature] /\ live \in Seq(Track)
      /\ recorded \subseteq StepNo /\ \A i \in recorded : Target(i) \in Track
  BY SnapshotsTyped, StepsTyped DEF TypeOK, ShownTyped
<1>2. pc \in {"write", "look", "created"} => cur \in StepNo /\ Target(cur) \in Track
  BY StepsTyped DEF RunInv, WholeSoFar, InStep
<1>3. CASE ReceiveSnapshot
  BY <1>1, <1>3 DEF ReceiveSnapshot, ShownTyped
<1>4. CASE RecordStep
  <2>1. seen[Target(cur)] \in SUBSET Feature
    BY <1>1, <1>2, <1>4 DEF RecordStep, ShownTyped
  <2>2. \A shown \in Snapshots : shown[Target(cur)] \in SUBSET Feature
    BY <1>1, <1>2, <1>4 DEF RecordStep
  <2>3. \E f \in SUBSET Feature : print' = [print EXCEPT ![cur] = f]
    BY <1>4, <2>1, <2>2 DEF RecordStep
  <2>4. UNCHANGED <<seen, addr>>
    BY <1>4 DEF RecordStep
  <2>5. QED
    BY <1>1, <2>3, <2>4 DEF ShownTyped
<1>5. CASE CreatedReturns
  <2>1. \E f \in SUBSET Feature : seen' = [seen EXCEPT ![Target(cur)] = f]
    BY <1>1, <1>2, <1>5 DEF CreatedReturns
  <2>2. UNCHANGED <<print, addr>>
    BY <1>5 DEF CreatedReturns
  <2>3. QED
    BY <1>1, <2>1, <2>2 DEF ShownTyped
<1>6. \A shown \in Snapshots : Refreshed(shown) \in [StepNo -> SUBSET Feature]
  BY <1>1 DEF Refreshed, ShownTyped
<1>7. CASE Commit
  BY <1>1, <1>6, <1>7 DEF Commit, ShownTyped
<1>8. CASE CurrentReturns
  BY <1>1, <1>6, <1>8 DEF CurrentReturns, ShownTyped
<1>9. CASE ResolveReturns
  <2>2. \A i \in recorded, shown \in Snapshots : \A t \in Resolved(i, shown) : Contains(live, t)
    BY DEF Resolved, Matches
  <2>3. \A t : Contains(live, t) => IndexOf(t) \in Nat
    BY <1>1, LenProperties DEF IndexOf, Contains
  <2>4. PICK shown \in Snapshots :
            /\ \A i \in recorded : Resolved(i, shown) # {}
            /\ addr' = [i \in StepNo |->
                   IF i \in recorded THEN IndexOf(CHOOSE t \in Resolved(i, shown) : TRUE) ELSE 0]
    BY <1>9 DEF ResolveReturns
  <2>5. \A i \in recorded : (CHOOSE t \in Resolved(i, shown) : TRUE) \in Resolved(i, shown)
    BY <2>4
  <2>6. \A i \in recorded : IndexOf(CHOOSE t \in Resolved(i, shown) : TRUE) \in Nat
    BY <2>2, <2>3, <2>5
  <2>7. addr' \in [StepNo -> Nat]
    BY <2>4, <2>6
  <2>8. QED
    BY <1>1, <1>9, <2>7 DEF ResolveReturns, ShownTyped
<1>10. CASE UNCHANGED <<print, seen, addr>>
  BY <1>1, <1>10 DEF ShownTyped
<1>11. QED
  BY <1>3, <1>4, <1>5, <1>7, <1>8, <1>9, <1>10 DEF Handle, SnapshotRaises, Reject,
     CancelBeforeWrite, Begin, MarkPrepared,
     CancelOpen, CancelApplied, MarkSent, AllSent, StepCallReturns,
     LookMisses, WriteRaisesInDoubt, StepRaises, ReadbackMismatch, Unreconciled, ReadbackRaises,
     VerifiedThenRollback, CurrentRaises, Abort,
     ResolveConflicts, UndoReturns, RollbackRaises, RestoredReturns, RestoredRaises,
     StepFails, RollBackApplied, AbortDirectly, MarkInDoubt, RolledBack, UndoNext, ledger

\* What a command does inside Live keeps Live's tracks typed.
LEMMA EffectTyped ==
    ASSUME RunInv, TypeOK, SentInPlan, NEW c \in Command, verdict[c] # "none", TakesEffect(c)
    PROVE  DawTyped'
<1>1. DawTyped /\ addr \in [StepNo -> Nat] /\ plan \in Plans
  BY DEF TypeOK, DawTyped
<1>3. CASE c \notin SideEffect
  <2>1. c \notin {"write", "fill"} \X StepNo
    BY <1>3, SafeWriteAssumption DEF WriteCall, StepNo
  <2>2. UNCHANGED dawVars
    BY <1>3, <2>1 DEF TakesEffect
  <2>3. QED
    BY <1>1, <2>2 DEF dawVars, DawTyped
<1>4. CASE c \in SideEffect
  <2>1. PICK k \in WriteCall, i \in StepNo : c = <<k, i>>
    BY <1>4, SafeWriteAssumption DEF StepNo
  <2>2. i \in Steps /\ Target(i) \in Track
    BY <1>1, <2>1, StepsTyped DEF SentInPlan
  <2>3. \A n : Added(n, plan[i].kind) \subseteq Feature
    BY DEF Added, Feature
  <2>4. CASE k \in {"write", "fill"}
    <3>1. WriteTakesEffect(k, i)
      BY <1>4, <2>1, <2>4 DEF TakesEffect
    <3>2. live' \in Seq(Track)
      BY <1>1, <2>2, <3>1, InsertTyped DEF WriteTakesEffect, DawTyped
    <3>3. look' \in [Track -> SUBSET Feature] /\ struck' = struck
      BY <1>1, <2>2, <2>3, <3>1 DEF WriteTakesEffect, DawTyped
    <3>4. QED
      BY <1>1, <3>2, <3>3 DEF DawTyped
  <2>5. CASE k = "undo"
    <3>1. UndoTakesEffect(i)
      BY <1>4, <2>1, <2>5 DEF TakesEffect
    <3>2. addr[i] \in 1..Len(live)
      BY <3>1 DEF UndoTakesEffect
    <3>3. Addressed(i) \in Track /\ RemoveAt(live, addr[i]) \in Seq(Track)
      BY <1>1, <2>2, <3>2, RemoveTyped DEF Addressed, DawTyped
    <3>4. live' \in Seq(Track) /\ struck' \in [StepNo -> Track \cup {"none"}]
      BY <1>1, <3>1, <3>3 DEF UndoTakesEffect, DawTyped
    <3>5. look' \in [Track -> SUBSET Feature]
      BY <1>1, <3>1, <3>3 DEF UndoTakesEffect, DawTyped
    <3>6. QED
      BY <3>4, <3>5 DEF DawTyped
  <2>6. QED
    BY <2>4, <2>5 DEF WriteCall
<1>5. QED
  BY <1>3, <1>4

\* A command that Live runs was sent, and takes effect or leaves the tracks alone.
LEMMA LiveRuns ==
    ASSUME RunInv, NEW c \in Command, LiveApplies(c) \/ LiveSpoils(c)
    PROVE  /\ verdict[c] # "none" /\ UNCHANGED <<verdict, at, era, now, clock, runVars, intentVars>>
           /\ fate[c] = "pending" /\ fate \in [Command -> Fate]
           /\ \/ LiveApplies(c) /\ fate' = [fate EXCEPT ![c] = "applied"]
              \/ /\ LiveSpoils(c) /\ c \in SideEffect
                 /\ fate' = [fate EXCEPT ![c] = "partial"]
           /\ TakesEffect(c) \/ (c \in SideEffect /\ UNCHANGED dawVars)
  BY DEF LiveApplies, LiveSpoils, Apply, Spoil, Run, RunInv, LinkInv, LinkTypeOK, SentIsKnown

\* Only calls of the plan's steps are issued.
LEMMA SentStaysInPlan == ASSUME RunInv, SentInPlan, [Next]_vars PROVE SentInPlan'
<1>1. plan' = plan /\ Steps' = Steps
  BY DEF Next, Core, SendCall, Handle, CallReturns, Cancel, Crash, LiveApplies, LiveSpoils,
     LiveRefuses, UserEdits, vars, intentVars, Steps
<1>2. \A k \in WriteCall, i \in StepNo : <<k, i>> \in Command
  BY CommandsOfRun DEF RunInv, WriteCall, StepCall
<1>3. CASE SendCall
  <2>1. Calling /\ verdict' = [verdict EXCEPT ![Call] = "waiting"]
    BY <1>3 DEF SendCall, Issue
  <2>2. verdict \in [Command -> Verdict]
    BY DEF RunInv, LinkInv, LinkTypeOK
  <2>3. QED
    BY <1>1, <1>2, <2>1, <2>2, CallInPlan DEF SentInPlan
<1>4. CASE CallReturns
  <2>1. verdict \in [Command -> Verdict] /\ Call \in Command
    BY <1>4, CallIsCommand DEF CallReturns, RunInv, LinkInv, LinkTypeOK
  <2>2. verdict[Call] # "none" /\ \E v : verdict' = [verdict EXCEPT ![Call] = v]
    BY <1>4 DEF CallReturns, Return, ReturnResult, ReturnRefused, ReturnInDoubt, ReturnFailed,
     Answer
  <2>3. QED
    BY <1>1, <1>2, <2>1, <2>2 DEF SentInPlan
<1>5. CASE verdict' = verdict
  BY <1>1, <1>5 DEF SentInPlan
<1>6. QED
  BY <1>3, <1>4, <1>5, LiveRuns DEF Next, Core, Cancel, Crash, LiveRefuses, Discard, UserEdits,
     vars, linkVars

\* The type invariant as it is inductive.
TypeInv == TypeOK /\ SentInPlan

\* It holds at first...
LEMMA TypeInit == Init => TypeInv
<1> SUFFICES ASSUME Init PROVE TypeInv
  OBVIOUS
<1>1. LinkTypeOK
  BY LinkInitInv DEF Init, LinkInv
<1>2. /\ Shape \in [Track -> SUBSET Feature] /\ Session \in Seq(Track)
      /\ 1 \in 1..(MaxSteps + 1)
  BY SafeWriteAssumption DEF Feature
<1>3. TypeOK
  BY <1>1, <1>2 DEF TypeOK, Init, RunCall, Status, StepNo
<1>4. SentInPlan
  BY CommandsOfRun DEF Init, LinkInit, SentInPlan, WriteCall, StepCall
<1>5. QED
  BY <1>3, <1>4 DEF TypeInv

\* ... and every step keeps it.
LEMMA TypeStep == ASSUME RunInv, TypeInv, [Next]_vars PROVE TypeInv'
<1>1. LinkTypeOK'
  BY RunStepInv DEF RunInv, LinkInv
<1>2. /\ TypeOK /\ SentInPlan /\ RunTyped /\ ShownTyped /\ DawTyped
      /\ plan \in Plans /\ decision \in {"KEEP", "ROLLBACK"} /\ cancelled \in BOOLEAN
  BY TypeParts DEF TypeInv
<1>3. plan' = plan /\ decision' = decision /\ cancelled' \in BOOLEAN
  BY <1>2 DEF Next, Core, SendCall, Handle, CallReturns, Cancel, Crash, LiveApplies, LiveSpoils,
     LiveRefuses, UserEdits, vars, intentVars
<1>4. RunTyped' /\ ShownTyped' /\ DawTyped'
  <2>1. CASE Handle /\ UNCHANGED <<linkVars, intentVars, dawVars>>
    BY <1>2, <2>1, HandleRunTyped, HandleShownTyped DEF dawVars, DawTyped
  <2>2. CASE Crash
    BY <1>2, <1>3, <2>2 DEF Crash, Go, ledger, dawVars, RunTyped, ShownTyped, DawTyped, Steps
  <2>3. CASE UNCHANGED runVars /\ UNCHANGED dawVars
    BY <1>2, <1>3, <2>3 DEF runVars, dawVars, RunTyped, ShownTyped, DawTyped, Steps
  <2>4. ASSUME NEW c \in Command, LiveApplies(c) \/ LiveSpoils(c)
        PROVE  RunTyped' /\ ShownTyped' /\ DawTyped'
    <3>1. DawTyped'
      BY <1>2, <2>4, LiveRuns, EffectTyped DEF dawVars, DawTyped
    <3>2. QED
      BY <1>2, <1>3, <2>4, <3>1, LiveRuns DEF runVars, RunTyped, ShownTyped, Steps
  <2>5. ASSUME NEW t \in Track, UserEdits(t) PROVE RunTyped' /\ ShownTyped' /\ DawTyped'
    <3>1. look' \in [Track -> SUBSET Feature]
      BY <1>2, <2>5 DEF UserEdits, DawTyped, Feature
    <3>2. QED
      BY <1>2, <1>3, <2>5, <3>1 DEF UserEdits, runVars, RunTyped, ShownTyped, DawTyped, Steps
  <2>6. QED
    BY <2>1, <2>2, <2>3, <2>4, <2>5 DEF Next, Core, SendCall, CallReturns, Cancel, LiveRefuses, vars
<1>5. TypeOK'
  BY <1>1, <1>2, <1>3, <1>4 DEF TypeOK, RunTyped, ShownTyped, DawTyped
<1>6. QED
  BY <1>2, <1>5, SentStaysInPlan DEF TypeInv

\* Every variable of a run, and Live's tracks with it, stay in their sets.
THEOREM SafeWriteTyped == Spec => []TypeOK
<1>1. RunInv /\ TypeInv /\ [Next]_vars => TypeInv'
  BY TypeStep
<1>2. TypeInv => TypeOK
  BY DEF TypeInv
<1>3. QED
  BY TypeInit, SafeWriteCorrect, <1>1, <1>2, PTL DEF Spec
-----------------------------------------------------------------------------
(* The run on top of the link.                                             *)

\* A step of the run, of Live, of the user or a crash is a step of LiveLink.
LEMMA RunLinkStep == ASSUME RunInv, [Next]_vars PROVE [LinkNext]_linkVars
<1> USE DEF LinkNext
<1>1. CASE SendCall \/ CallReturns
  BY <1>1, CallIsCommand DEF SendCall, CallReturns
<1>2. CASE \E c \in Command : LiveApplies(c) \/ LiveSpoils(c) \/ LiveRefuses(c)
  BY <1>2 DEF LiveApplies, LiveSpoils, LiveRefuses, Settle
<1>3. CASE Handle /\ UNCHANGED <<linkVars, intentVars, dawVars>>
  BY <1>3
<1>4. CASE Cancel \/ Crash \/ (\E t \in Track : UserEdits(t)) \/ UNCHANGED vars
  BY <1>4 DEF Cancel, Crash, UserEdits, vars
<1>5. QED
  BY <1>1, <1>2, <1>3, <1>4 DEF Next, Core

\* SafeWriteExecutor uses the link as LiveLink allows, a crash included: with
\* CommandLink's implementation of it, what the journal says of a write is what
\* the adapter, the bridge and Live really did.
THEOREM SafeWriteUsesLink == Spec => LinkSpec
<1>1. Init => LinkInit
  BY DEF Init
<1>2. RunInv /\ [Next]_vars => [LinkNext]_linkVars
  BY RunLinkStep
<1>3. QED
  BY <1>1, <1>2, SafeWriteCorrect, PTL DEF Spec, LinkSpec

-----------------------------------------------------------------------------
(* When a rollback is exact. The run of UndoHitsItsTarget shows two ways   *)
(* for an inverse to take effect on another track: the deletion of a       *)
(* created track shifts the tracks behind it, and a look-alike is taken    *)
(* for a track that changed. Two conditions that keep these from happening *)
(* keep every other from happening as well.                                *)

SessionTracks == {Session[n] : n \in 1..Len(Session)}

\* m tells t from every other track, and neither a step nor an edit adds it to a
\* track or takes it away.
Mark(t, m) ==
    /\ m \in Shape[t] \ (Track \cup {"midi", "device", "clip", "notes"})
    /\ \A u \in Track \ {t} : m \notin Shape[u]

\* First condition: no track of the session looks like another track.
NoLookAlikes == \A t \in SessionTracks : \E m \in Shape[t] : Mark(t, m)

\* Second condition: an intent creates at most one track, behind those of the
\* session, and works on that one and on tracks of the session.
Creates(p) == {i \in 1..Len(p) : p[i].kind = "create"}

AppendsAtMostOne ==
    \A p \in Plans :
        /\ \A i, j \in Creates(p) : i = j
        /\ \A i \in Creates(p) : p[i].index = -1 /\ p[i].track \notin SessionTracks
        /\ \A j \in 1..Len(p) :
              p[j].track \in SessionTracks \/ \E i \in Creates(p) : p[j].track = p[i].track

\* What became of a command that Live ran, with all of its effect or with a part.
Ran == {"applied", "partial"}

\* Live has the tracks of the session in their places, and the new one last.
LiveTracks ==
    \/ live = Session
    \/ \E i \in Creates(plan) :
          fate[<<"write", i>>] \in Ran /\ live = Append(Session, Target(i))

\* What f shows of the tracks tells them apart.
Marks(f) ==
    \A t \in SessionTracks : \A m \in Shape[t] :
        Mark(t, m) => m \in f[t] /\ \A u \in Track \ {t} : m \notin f[u]

\* A step is recorded with the mark of its track, and with no other.
PrintsMarked ==
    \A t \in SessionTracks : \A m \in Shape[t] : Mark(t, m) =>
        \A i \in Steps :
            /\ Target(i) # t => m \notin print[i]
            /\ i \in recorded /\ Target(i) = t => m \in print[i]

\* The index an inverse was resolved to is the place of its track.
AddressHolds ==
    \A i \in Steps : addr[i] # 0 =>
        \/ addr[i] \in 1..Len(Session) /\ Session[addr[i]] = Target(i)
        \/ addr[i] = Len(Session) + 1 /\ Target(i) \notin SessionTracks

\* Once the created track is deleted, Live has the tracks it began with.
CreatedIsGone ==
    \A i \in Creates(plan) : fate[<<"undo", i>>] = "applied" =>
        live = Session /\ fate[<<"write", i>>] \in Ran

ExactInv ==
    /\ LiveTracks /\ Marks(look) /\ Marks(seen) /\ PrintsMarked
    /\ AddressHolds /\ CreatedIsGone /\ UndoHitsItsTarget

\* A rolled back creation leaves Live with the tracks of the session, in order.
RestoresTracks ==
    last.status = "ROLLED_BACK" =>
        \A i \in recorded : plan[i].kind = "create" => live = Session

\* The created track of the plan in hand, and the targets of its steps.
LEMMA OneCreated ==
    ASSUME AppendsAtMostOne, plan \in Plans
    PROVE  /\ \A i, j \in Creates(plan) : i = j
           /\ \A i \in Creates(plan) :
                 /\ i \in Steps /\ plan[i].kind = "create" /\ plan[i].index = -1
                 /\ Target(i) \in Track /\ Target(i) \notin SessionTracks
           /\ \A i \in Steps : plan[i].kind = "create" => i \in Creates(plan)
           /\ \A j \in Steps :
                 Target(j) \in SessionTracks \/ \E i \in Creates(plan) : Target(j) = Target(i)
  BY StepsTyped DEF AppendsAtMostOne, Creates, Steps, Target

\* A snapshot misses notes only, so it tells the tracks apart as Live does.
LEMMA SnapshotMarks ==
    ASSUME look \in [Track -> SUBSET Feature], Marks(look), NEW shown \in Snapshots
    PROVE  Marks(shown)
<1>1. PICK U \in SUBSET {t \in Track : "notes" \in look[t]} :
          shown = [t \in Track |-> IF t \in U THEN look[t] \ {"notes"} ELSE look[t]]
  BY DEF Snapshots
<1>2. SessionTracks \subseteq Track
  BY SafeWriteAssumption, ElementOfSeq DEF SessionTracks
<1>3. \A t \in SessionTracks : \A m \in Shape[t] : Mark(t, m) => m # "notes"
  BY DEF Mark
<1>4. QED
  BY <1>1, <1>2, <1>3 DEF Marks

\* Live's place n, when Live has it, holds the track of the session or the new one.
LEMMA Place ==
    ASSUME LiveTracks
    PROVE  /\ Len(Session) \in Nat
           /\ \A n \in 1..Len(Session) : n \in 1..Len(live) /\ live[n] = Session[n]
           /\ \A n \in 1..Len(live) : n \notin 1..Len(Session) =>
                 /\ n = Len(Session) + 1
                 /\ \E i \in Creates(plan) :
                       /\ fate[<<"write", i>>] \in Ran
                       /\ live = Append(Session, Target(i)) /\ live[n] = Target(i)
<1>1. Session \in Seq(Track) /\ Len(Session) \in Nat
  BY SafeWriteAssumption, LenProperties
<1>2. CASE live = Session
  BY <1>1, <1>2
<1>3. ASSUME NEW i \in Creates(plan), fate[<<"write", i>>] \in Ran,
             live = Append(Session, Target(i))
      PROVE  /\ \A n \in 1..Len(Session) : n \in 1..Len(live) /\ live[n] = Session[n]
             /\ \A n \in 1..Len(live) : n \notin 1..Len(Session) =>
                   n = Len(Session) + 1 /\ live[n] = Target(i)
  BY <1>1, <1>3
<1>4. QED
  BY <1>1, <1>2, <1>3 DEF LiveTracks

\* Only the target of a recorded step looks as the step was recorded.
LEMMA ResolvedIsTarget ==
    ASSUME RunInv, TypeOK, ExactInv, NoLookAlikes, AppendsAtMostOne,
           NEW i \in recorded, NEW shown \in Snapshots, NEW t \in Resolved(i, shown)
    PROVE  t = Target(i) /\ Contains(live, t)
<1>1. t \in Track /\ Contains(live, t) /\ shown[t] = print[i]
  BY DEF Resolved, Matches
<1>2. i \in Steps /\ plan \in Plans /\ Marks(shown)
  BY SnapshotMarks DEF TypeOK, ExactInv
<1>3. CASE t \in SessionTracks
  <2>1. PICK m \in Shape[t] : Mark(t, m)
    BY <1>3 DEF NoLookAlikes
  <2>2. m \in print[i]
    BY <1>1, <1>2, <1>3, <2>1 DEF Marks
  <2>3. QED
    BY <1>1, <1>2, <1>3, <2>1, <2>2 DEF ExactInv, PrintsMarked
<1>4. CASE t \notin SessionTracks
  <2>1. Target(i) \notin SessionTracks
    <3>1. SUFFICES ASSUME Target(i) \in SessionTracks PROVE FALSE
      OBVIOUS
    <3>2. PICK m \in Shape[Target(i)] : Mark(Target(i), m)
      BY <3>1 DEF NoLookAlikes
    <3>3. m \in print[i]
      BY <1>2, <3>1, <3>2 DEF ExactInv, PrintsMarked
    <3>4. m \notin shown[t]
      BY <1>1, <1>2, <1>4, <3>1, <3>2 DEF Marks
    <3>5. QED
      BY <1>1, <3>3, <3>4
  <2>2. PICK n \in 1..Len(live) : live[n] = t
    BY <1>1 DEF Contains
  <2>3. n \notin 1..Len(Session)
    BY <1>4, <2>2, Place DEF ExactInv, SessionTracks
  <2>4. PICK j \in Creates(plan) : t = Target(j)
    BY <2>2, <2>3, Place DEF ExactInv
  <2>5. QED
    BY <1>1, <1>2, <2>1, <2>4, OneCreated
<1>5. QED
  BY <1>3, <1>4

\* What the rollback resolves is where its targets are.
LEMMA ResolveExact ==
    ASSUME RunInv, TypeOK, ExactInv, NoLookAlikes, AppendsAtMostOne, ResolveReturns,
           plan' = plan
    PROVE  AddressHolds'
<1>1. PICK shown \in Snapshots :
          /\ \A i \in recorded : Resolved(i, shown) # {}
          /\ addr' = [i \in StepNo |->
                 IF i \in recorded THEN IndexOf(CHOOSE t \in Resolved(i, shown) : TRUE) ELSE 0]
  BY DEF ResolveReturns
<1>2. Steps' = Steps /\ plan \in Plans /\ Steps \subseteq StepNo
  BY CommandsOfRun DEF TypeOK, Steps
<1>3. ASSUME NEW i \in recorded
      PROVE  IndexOf(Target(i)) \in 1..Len(live) /\ live[IndexOf(Target(i))] = Target(i)
             /\ addr'[i] = IndexOf(Target(i))
  <2>1. (CHOOSE t \in Resolved(i, shown) : TRUE) \in Resolved(i, shown)
    BY <1>1
  <2>2. (CHOOSE t \in Resolved(i, shown) : TRUE) = Target(i) /\ Contains(live, Target(i))
    BY <2>1, ResolvedIsTarget
  <2>3. i \in StepNo
    BY <1>2 DEF TypeOK
  <2>4. addr'[i] = IndexOf(Target(i))
    BY <1>1, <2>2, <2>3
  <2>5. \E n \in 1..Len(live) : live[n] = Target(i)
    BY <2>2 DEF Contains
  <2>6. QED
    BY <2>4, <2>5 DEF IndexOf
<1>4. ASSUME NEW i \in Steps, addr'[i] # 0
      PROVE  \/ addr'[i] \in 1..Len(Session) /\ Session[addr'[i]] = Target(i)
             \/ addr'[i] = Len(Session) + 1 /\ Target(i) \notin SessionTracks
  <2>1. i \in recorded
    BY <1>1, <1>2, <1>4
  <2>2. addr'[i] \in 1..Len(live) /\ live[addr'[i]] = Target(i)
    BY <1>3, <2>1
  <2>3. CASE addr'[i] \in 1..Len(Session)
    BY <2>2, <2>3, Place DEF ExactInv
  <2>4. CASE addr'[i] \notin 1..Len(Session)
    <3>1. addr'[i] = Len(Session) + 1 /\ \E j \in Creates(plan) : live[addr'[i]] = Target(j)
      BY <2>2, <2>4, Place DEF ExactInv
    <3>2. QED
      BY <1>2, <2>2, <3>1, OneCreated
  <2>5. QED
    BY <2>3, <2>4
<1>5. QED
  BY <1>2, <1>4 DEF AddressHolds, Target

\* Between two calls Live stands still; what is recorded carries its mark.
LEMMA HandleExact ==
    ASSUME RunInv, TypeOK, ExactInv, NoLookAlikes, AppendsAtMostOne,
           Handle, UNCHANGED <<linkVars, intentVars, dawVars>>
    PROVE  ExactInv'
<1>1. /\ UNCHANGED <<plan, live, look, struck, fate>> /\ Steps' = Steps /\ plan \in Plans
      /\ \A i : Target(i)' = Target(i)
      /\ Steps \subseteq StepNo /\ recorded \subseteq Steps
      /\ \A i \in Steps : Target(i) \in Track
      /\ look \in [Track -> SUBSET Feature] /\ seen \in [Track -> SUBSET Feature]
      /\ print \in [StepNo -> SUBSET Feature]
      /\ SessionTracks \subseteq Track
  BY CommandsOfRun, StepsTyped, SafeWriteAssumption, ElementOfSeq
  DEF TypeOK, Steps, intentVars, dawVars, linkVars, Target, SessionTracks
<1>2. /\ LiveTracks' /\ Marks(look)' /\ CreatedIsGone' /\ UndoHitsItsTarget'
      /\ Marks(look) /\ Marks(seen) /\ PrintsMarked /\ AddressHolds
  BY <1>1 DEF ExactInv, LiveTracks, Marks, CreatedIsGone, UndoHitsItsTarget, Creates
<1>3. \A shown \in Snapshots : Marks(shown) /\ shown \in [Track -> SUBSET Feature]
  BY <1>1, <1>2, SnapshotMarks, SnapshotsTyped
<1>4. pc \in {"write", "look", "created"} => cur \in Steps
  BY DEF RunInv, WholeSoFar, InStep
<1>5. CASE ReceiveSnapshot
  <2>1. Marks(seen)' /\ UNCHANGED <<recorded, print, addr>>
    BY <1>3, <1>5 DEF ReceiveSnapshot, Marks
  <2>2. QED
    BY <1>1, <1>2, <2>1 DEF ExactInv, PrintsMarked, AddressHolds
<1>6. CASE RecordStep
  <2>1. cur \in Steps /\ Target(cur) \in Track /\ UNCHANGED <<seen, addr>>
    BY <1>1, <1>4, <1>6 DEF RecordStep
  <2>2. PICK f : (f = seen \/ f \in Snapshots) /\ print' = [print EXCEPT ![cur] = f[Target(cur)]]
    BY <1>6 DEF RecordStep
  <2>3. Marks(f) /\ recorded' = recorded \cup {cur}
    BY <1>2, <1>3, <1>6, <2>2 DEF RecordStep
  <2>4. PrintsMarked'
    BY <1>1, <1>2, <2>1, <2>2, <2>3 DEF PrintsMarked, Marks
  <2>5. QED
    BY <1>1, <1>2, <2>1, <2>4 DEF ExactInv, AddressHolds, Marks
<1>7. CASE CreatedReturns
  <2>1. cur \in Steps /\ Target(cur) \in Track /\ UNCHANGED <<recorded, print, addr>>
    BY <1>1, <1>4, <1>7 DEF CreatedReturns
  <2>2. PICK shown \in Snapshots : seen' = [seen EXCEPT ![Target(cur)] = shown[Target(cur)]]
    BY <1>7 DEF CreatedReturns
  <2>3. Marks(seen)'
    BY <1>1, <1>2, <1>3, <2>1, <2>2 DEF Marks
  <2>4. QED
    BY <1>1, <1>2, <2>1, <2>3 DEF ExactInv, PrintsMarked, AddressHolds
<1>8. ASSUME NEW shown \in Snapshots, print' \in {print, Refreshed(shown)},
             UNCHANGED <<recorded, seen, addr>>
      PROVE  ExactInv'
  <2>1. PrintsMarked'
    BY <1>1, <1>2, <1>3, <1>8 DEF PrintsMarked, Marks, Refreshed
  <2>2. QED
    BY <1>1, <1>2, <1>8, <2>1 DEF ExactInv, AddressHolds, Marks
<1>9. CASE Commit
  BY <1>8, <1>9 DEF Commit
<1>10. CASE CurrentReturns
  BY <1>8, <1>10 DEF CurrentReturns
<1>11. CASE ResolveReturns
  <2>1. AddressHolds' /\ UNCHANGED <<recorded, print, seen>>
    BY <1>1, <1>11, ResolveExact DEF ResolveReturns
  <2>2. QED
    BY <1>1, <1>2, <2>1 DEF ExactInv, PrintsMarked, Marks
<1>12. CASE UNCHANGED <<recorded, print, seen, addr>>
  BY <1>1, <1>2, <1>12 DEF ExactInv, PrintsMarked, AddressHolds, Marks
<1>13. QED
  BY <1>5, <1>6, <1>7, <1>9, <1>10, <1>11, <1>12 DEF Handle, SnapshotRaises, Reject,
     CancelBeforeWrite, Begin, MarkPrepared,
     CancelOpen, CancelApplied, MarkSent, AllSent, StepCallReturns,
     LookMisses, WriteRaisesInDoubt, StepRaises, ReadbackMismatch, Unreconciled, ReadbackRaises,
     VerifiedThenRollback, CurrentRaises, Abort,
     ResolveConflicts, UndoReturns, RollbackRaises, RestoredReturns, RestoredRaises,
     StepFails, RollBackApplied, AbortDirectly, MarkInDoubt, RolledBack, UndoNext, ledger

\* Marks are neither added nor taken away by what a command does inside Live.
LEMMA EffectMarks ==
    ASSUME look \in [Track -> SUBSET Feature], Marks(look), NEW t \in Track,
           NEW S, S \subseteq Track \cup {"midi", "device", "clip", "notes"},
           look' = [look EXCEPT ![t] = @ \cup S] \/ look' = [look EXCEPT ![t] = @ \ S]
    PROVE  Marks(look)'
<1>1. SessionTracks \subseteq Track
  BY SafeWriteAssumption, ElementOfSeq DEF SessionTracks
<1>2. \A u \in SessionTracks : \A m \in Shape[u] : Mark(u, m) => m \notin S
  BY <1>1 DEF Mark
<1>3. QED
  BY <1>1, <1>2 DEF Marks

\* Deleting the track that was appended gives the list back.
LEMMA RemoveAppended ==
    ASSUME NEW t \in Track
    PROVE  RemoveAt(Append(Session, t), Len(Session) + 1) = Session
<1> DEFINE s == Append(Session, t)
           n == Len(Session)
<1>1. Session \in Seq(Track) /\ n \in Nat /\ s \in Seq(Track) /\ Len(s) = n + 1
  BY SafeWriteAssumption, LenProperties
<1>2. \A k \in 1..n : s[k] \in Track /\ s[k] = Session[k]
  BY <1>1, ElementOfSeq
<1>3. /\ SubSeq(s, 1, n) \in Seq(Track) /\ Len(SubSeq(s, 1, n)) = n
      /\ \A k \in 1..n : SubSeq(s, 1, n)[k] = Session[k]
  <2>1. n <= Len(s) /\ 1 \in 1..(Len(s) + 1) /\ n \in 0..Len(s)
    BY <1>1
  <2>2. \A k \in 1..n : s[k] \in Track
    BY <1>2
  <2> HIDE DEF s, n
  <2>3. QED
    BY <1>1, <1>2, <2>1, <2>2, SubSeqProperties
<1>4. SubSeq(s, n + 2, n + 1) = << >>
  <2> HIDE DEF s
  <2>1. QED
    BY <1>1, SubSeqEmpty
<1>5. SubSeq(s, 1, n) = Session
  BY <1>1, <1>3, SeqEqual
<1>6. RemoveAt(s, n + 1) = SubSeq(s, 1, n) \o SubSeq(s, n + 2, n + 1)
  BY <1>1 DEF RemoveAt
<1>7. Session \o << >> = Session
  BY <1>1, ConcatEmptySeq
<1>8. QED
  BY <1>4, <1>5, <1>6, <1>7

\* A write or its fill adds to the fingerprint, and a creation appends a track.
LEMMA WriteExact ==
    ASSUME RunInv, TypeOK, ExactInv, AppendsAtMostOne, NEW k \in {"write", "fill"}, NEW i \in Steps,
           NEW end \in Ran, Run(<<k, i>>, end), WriteTakesEffect(k, i), UNCHANGED <<runVars, plan>>
    PROVE  ExactInv'
<1>1. /\ plan \in Plans /\ Steps' = Steps /\ UNCHANGED <<recorded, print, seen, addr, plan, struck>>
      /\ look \in [Track -> SUBSET Feature] /\ Target(i) \in Track
      /\ \A j : Target(j)' = Target(j)
      /\ fate \in [Command -> Fate] /\ Creates(plan)' = Creates(plan)
  BY StepsTyped DEF TypeOK, LinkTypeOK, runVars, Steps, WriteTakesEffect, Target, Creates
<1>2. /\ fate[<<k, i>>] = "pending" /\ fate' = [fate EXCEPT ![<<k, i>>] = end]
      /\ <<k, i>> \in Command
      /\ \A j \in Steps : <<"undo", j>> \in Command /\ <<"write", j>> \in Command
  BY <1>1, CommandsOfRun DEF Run, StepCall
<1>3. /\ \A j \in Steps : fate'[<<"undo", j>>] = fate[<<"undo", j>>]
      /\ \A j \in Steps : fate[<<"write", j>>] \in Ran => fate'[<<"write", j>>] \in Ran
  BY <1>1, <1>2
<1>4. Marks(look)'
  <2>1. Added(k, plan[i].kind) \subseteq Track \cup {"midi", "device", "clip", "notes"}
    BY DEF Added
  <2>2. QED
    BY <1>1, <2>1, EffectMarks DEF WriteTakesEffect, ExactInv
<1>5. LiveTracks' /\ CreatedIsGone'
  <2>1. CASE live' = live
    BY <1>1, <1>3, <2>1, OneCreated DEF ExactInv, LiveTracks, CreatedIsGone
  <2>2. CASE plan[i].kind = "create" /\ k = "write"
    <3>1. i \in Creates(plan) /\ plan[i].index = -1 /\ \A j \in Creates(plan) : j = i
      BY <1>1, <2>2, OneCreated
    <3>2. live = Session
      BY <1>2, <2>2, <3>1 DEF ExactInv, LiveTracks, Ran
    <3>3. live' = Append(Session, Target(i)) /\ fate'[<<"write", i>>] \in Ran
      <4>1. live' = InsertTrack(Target(i), -1)
        BY <2>2, <3>1 DEF WriteTakesEffect
      <4>2. live' = Append(Session, Target(i))
        BY <3>2, <4>1 DEF InsertTrack
      <4>3. QED
        BY <1>1, <1>2, <2>2, <4>2
    <3>4. fate'[<<"undo", i>>] # "applied"
      BY <1>2, <1>3, <2>2, <3>1 DEF ExactInv, CreatedIsGone, Ran
    <3>5. QED
      BY <1>1, <3>1, <3>3, <3>4 DEF LiveTracks, CreatedIsGone
  <2>3. QED
    BY <2>1, <2>2 DEF WriteTakesEffect
<1>6. QED
  BY <1>1, <1>4, <1>5 DEF ExactInv, Marks, PrintsMarked, AddressHolds, UndoHitsItsTarget

\* An inverse takes effect on the track of its step; the one of the creation
\* deletes the last track.
LEMMA UndoExact ==
    ASSUME RunInv, TypeOK, ExactInv, AppendsAtMostOne, NEW i \in Steps,
           NEW end \in Ran, Run(<<"undo", i>>, end), UndoTakesEffect(i), UNCHANGED <<runVars, plan>>
    PROVE  ExactInv'
<1>1. /\ plan \in Plans /\ Steps' = Steps /\ UNCHANGED <<recorded, print, seen, addr, plan>>
      /\ look \in [Track -> SUBSET Feature] /\ Target(i) \in Track
      /\ struck \in [StepNo -> Track \cup {"none"}] /\ i \in StepNo
      /\ \A j : Target(j)' = Target(j)
      /\ fate \in [Command -> Fate] /\ Creates(plan)' = Creates(plan)
  BY StepsTyped DEF TypeOK, LinkTypeOK, runVars, Steps, Target, Creates
<1>2. /\ fate' = [fate EXCEPT ![<<"undo", i>>] = end] /\ <<"undo", i>> \in Command
      /\ \A j \in Steps : <<"undo", j>> \in Command /\ <<"write", j>> \in Command
  BY <1>1, CommandsOfRun DEF Run, StepCall
<1>3. /\ \A j \in Steps : j # i => fate'[<<"undo", j>>] = fate[<<"undo", j>>]
      /\ \A j \in Steps : fate'[<<"write", j>>] = fate[<<"write", j>>]
  BY <1>1, <1>2
<1>4. addr[i] \in 1..Len(live) /\ addr[i] # 0
  BY DEF UndoTakesEffect
<1>5. /\ Addressed(i) = Target(i)
      /\ plan[i].kind = "create" =>
            /\ fate[<<"write", i>>] \in Ran
            /\ live = Append(Session, Target(i)) /\ addr[i] = Len(Session) + 1
  <2>1. CASE addr[i] \in 1..Len(Session)
    <3>1. live[addr[i]] = Target(i) /\ Target(i) \in SessionTracks
      BY <1>4, <2>1, Place DEF ExactInv, AddressHolds, SessionTracks
    <3>2. plan[i].kind # "create"
      BY <1>1, <3>1, OneCreated
    <3>3. QED
      BY <3>1, <3>2 DEF Addressed
  <2>2. CASE addr[i] \notin 1..Len(Session)
    <3>1. addr[i] = Len(Session) + 1 /\ Target(i) \notin SessionTracks
      BY <1>4, <2>2 DEF ExactInv, AddressHolds
    <3>2. PICK j \in Creates(plan) :
              /\ fate[<<"write", j>>] \in Ran
              /\ live = Append(Session, Target(j)) /\ live[addr[i]] = Target(j)
      BY <1>4, <2>2, Place DEF ExactInv
    <3>3. Target(i) = Target(j) /\ (plan[i].kind = "create" => i = j)
      BY <1>1, <3>1, <3>2, OneCreated
    <3>4. QED
      BY <3>1, <3>2, <3>3 DEF Addressed
  <2>3. QED
    BY <2>1, <2>2
<1>6. UndoHitsItsTarget'
  <2>1. struck' = [struck EXCEPT ![i] = Target(i)]
    BY <1>5 DEF UndoTakesEffect
  <2>2. QED
    BY <1>1, <2>1 DEF ExactInv, UndoHitsItsTarget
<1>7. Marks(look)'
  <2>1. CASE look' = look
    BY <2>1 DEF ExactInv, Marks
  <2>2. CASE look' = [look EXCEPT ![Target(i)] =
                         @ \ (Added("write", plan[i].kind) \cup Added("fill", plan[i].kind))]
    <3>1. Added("write", plan[i].kind) \cup Added("fill", plan[i].kind)
              \subseteq Track \cup {"midi", "device", "clip", "notes"}
      BY DEF Added
    <3>2. QED
      BY <1>1, <2>2, <3>1, EffectMarks DEF ExactInv
  <2>3. QED
    BY <1>5, <2>1, <2>2 DEF UndoTakesEffect
<1>8. LiveTracks' /\ CreatedIsGone'
  <2>1. CASE plan[i].kind = "create"
    <3>1. i \in Creates(plan) /\ \A j \in Creates(plan) : j = i
      BY <1>1, <2>1, OneCreated
    <3>2. live' = Session
      BY <1>1, <1>5, <2>1, RemoveAppended DEF UndoTakesEffect
    <3>3. QED
      BY <1>1, <1>3, <1>5, <2>1, <3>1, <3>2 DEF LiveTracks, CreatedIsGone
  <2>2. CASE plan[i].kind # "create"
    <3>1. live' = live /\ i \notin Creates(plan)
      BY <1>1, <2>2, OneCreated DEF UndoTakesEffect
    <3>2. QED
      BY <1>1, <1>3, <3>1, OneCreated DEF ExactInv, LiveTracks, CreatedIsGone
  <2>3. QED
    BY <2>1, <2>2
<1>9. QED
  BY <1>1, <1>6, <1>7, <1>8 DEF ExactInv, Marks, PrintsMarked, AddressHolds

\* Every step of the run, of Live and of the user keeps the rollback exact.
LEMMA ExactStep ==
    ASSUME RunInv, TypeOK, SentInPlan, ExactInv, NoLookAlikes, AppendsAtMostOne, [Next]_vars
    PROVE  ExactInv'
<1>1. CASE Handle /\ UNCHANGED <<linkVars, intentVars, dawVars>>
  BY <1>1, HandleExact
<1>2. ASSUME UNCHANGED <<recorded, print, seen, addr, plan, dawVars>>,
             \A j \in Steps : /\ fate'[<<"undo", j>>] = "applied" => fate[<<"undo", j>>] = "applied"
                              /\ fate[<<"write", j>>] \in Ran => fate'[<<"write", j>>] \in Ran
      PROVE  ExactInv'
  <2>1. Steps' = Steps /\ \A j : Target(j)' = Target(j)
    BY <1>2 DEF Steps, Target
  <2>2. \A j \in Creates(plan) : j \in Steps
    BY DEF Creates, Steps
  <2>3. QED
    BY <1>2, <2>1, <2>2 DEF ExactInv, LiveTracks, Marks, PrintsMarked, AddressHolds,
       CreatedIsGone, UndoHitsItsTarget, dawVars, Creates
<1>3. /\ fate \in [Command -> Fate] /\ plan \in Plans /\ look \in [Track -> SUBSET Feature]
      /\ \A j \in Steps : <<"undo", j>> \in Command /\ <<"write", j>> \in Command
  BY CommandsOfRun DEF TypeOK, LinkTypeOK, StepCall
<1>4. CASE SendCall
  <2>1. Call \in Command
    BY <1>4, CallIsCommand DEF SendCall
  <2>2. /\ fate[Call] = "unsent"
        /\ \E f \in {"pending", "untouched"} : fate' = [fate EXCEPT ![Call] = f]
    BY <1>4, <2>1 DEF SendCall, Issue, RunInv, LinkInv, SentIsKnown
  <2>3. QED
    BY <1>2, <1>3, <1>4, <2>1, <2>2 DEF SendCall, runVars, intentVars, Ran
<1>5. CASE CallReturns \/ Cancel \/ Crash \/ UNCHANGED vars
  BY <1>2, <1>5 DEF CallReturns, Return, ReturnResult, ReturnRefused, ReturnInDoubt,
     ReturnFailed, Answer, Cancel, Crash, ledger, runVars, intentVars, linkVars, vars
<1>6. ASSUME NEW c \in Command, LiveRefuses(c) PROVE ExactInv'
  <2>1. \A d \in Command : fate'[d] = fate[d] \/ (fate[d] = "pending" /\ fate'[d] = "untouched")
    BY <1>3, <1>6 DEF LiveRefuses, Discard
  <2>2. QED
    BY <1>2, <1>3, <1>6, <2>1 DEF LiveRefuses, runVars, intentVars, Ran
<1>7. ASSUME NEW t \in Track, UserEdits(t) PROVE ExactInv'
  <2>1. look' = [look EXCEPT ![t] = @ \cup {t}] /\ {t} \subseteq Track
    BY <1>7 DEF UserEdits
  <2>2. Marks(look)'
    BY <1>3, <2>1, EffectMarks DEF ExactInv
  <2>3. /\ UNCHANGED <<plan, recorded, print, seen, addr, fate, live, struck>> /\ Steps' = Steps
        /\ \A j : Target(j)' = Target(j)
    BY <1>7 DEF UserEdits, linkVars, runVars, intentVars, Steps, Target
  <2>4. QED
    BY <2>2, <2>3 DEF ExactInv, LiveTracks, Marks, PrintsMarked, AddressHolds,
       CreatedIsGone, UndoHitsItsTarget, Creates
<1>8. ASSUME NEW c \in Command, LiveApplies(c) \/ LiveSpoils(c) PROVE ExactInv'
  <2>1. /\ UNCHANGED <<runVars, plan>> /\ verdict[c] # "none" /\ fate[c] = "pending"
        /\ \E end \in Ran : fate' = [fate EXCEPT ![c] = end] /\ Run(c, end)
        /\ c \notin SideEffect => TakesEffect(c)
    BY <1>8, LiveRuns DEF Ran, LiveApplies, LiveSpoils, Apply, Spoil, intentVars
  <2>2. CASE c \notin SideEffect
    <3>1. c \notin {"write", "fill"} \X StepNo
      BY <2>2, SafeWriteAssumption DEF WriteCall, StepNo
    <3>2. UNCHANGED dawVars
      BY <2>1, <2>2, <3>1 DEF TakesEffect
    <3>3. \A j \in Steps : <<"undo", j>> # c
      BY <1>3, <2>2, CommandsOfRun DEF WriteCall, StepCall
    <3>4. QED
      BY <1>2, <1>3, <2>1, <3>2, <3>3 DEF runVars, Ran
  <2>3. CASE UNCHANGED dawVars /\ fate' = [fate EXCEPT ![c] = "partial"]
    <3>1. \A d \in Command :
             fate'[d] = fate[d] \/ (fate[d] = "pending" /\ fate'[d] = "partial")
      BY <1>3, <2>1, <2>3
    <3>2. QED
      BY <1>2, <1>3, <2>1, <2>3, <3>1 DEF runVars, Ran
  <2>4. CASE c \in SideEffect /\ TakesEffect(c)
    <3>1. PICK k \in WriteCall, i \in StepNo : c = <<k, i>>
      BY <2>4, SafeWriteAssumption DEF StepNo
    <3>2. i \in Steps
      BY <2>1, <3>1 DEF SentInPlan
    <3>3. CASE k \in {"write", "fill"}
      BY <2>1, <2>4, <3>1, <3>2, <3>3, WriteExact DEF TakesEffect
    <3>4. CASE k = "undo"
      BY <2>1, <2>4, <3>1, <3>2, <3>4, UndoExact DEF TakesEffect
    <3>5. QED
      BY <3>3, <3>4 DEF WriteCall
  <2>5. QED
    BY <1>8, <2>2, <2>3, <2>4, LiveRuns DEF LiveApplies
<1>9. QED
  BY <1>1, <1>4, <1>5, <1>6, <1>7, <1>8 DEF Next, Core

\* Nothing is recorded, resolved or undone at first.
LEMMA ExactInit == Init => ExactInv
<1> SUFFICES ASSUME Init PROVE ExactInv
  OBVIOUS
<1>1. SessionTracks \subseteq Track /\ Shape \in [Track -> SUBSET UNION {Shape[t] : t \in Track}]
  BY SafeWriteAssumption, ElementOfSeq DEF SessionTracks
<1>2. Marks(look) /\ Marks(seen)
  BY <1>1 DEF Init, Marks, Mark
<1>3. \A i \in Steps : i \in StepNo
  BY CommandsOfRun DEF Init
<1>4. plan \in Plans /\ \A j \in Creates(plan) : j \in Steps
  BY DEF Init, Creates, Steps
<1>5. \A k \in StepCall, j \in Creates(plan) : <<k, j>> \in Command
  <2>1. \A k \in StepCall, j \in StepNo : <<k, j>> \in Command
    BY <1>4, CommandsOfRun
  <2>2. QED
    BY <1>3, <1>4, <2>1
<1>6. QED
  BY <1>2, <1>3, <1>5 DEF Init, LinkInit, StepCall, ExactInv, LiveTracks, PrintsMarked, AddressHolds,
     CreatedIsGone, UndoHitsItsTarget

\* The rollback is exact all along a run whose intent appends at most one track to
\* a session without look-alikes, whatever the link, the user's edits, a misread
\* clip, a cancel or a crash do.
THEOREM RollbackIsExact ==
    ASSUME NoLookAlikes, AppendsAtMostOne
    PROVE  Spec => []ExactInv
<1>1. RunInv /\ TypeInv /\ [Next]_vars => TypeInv'
  BY TypeStep
<1>2. RunInv /\ TypeInv /\ ExactInv /\ [Next]_vars => ExactInv'
  BY ExactStep DEF TypeInv
<1>3. QED
  BY TypeInit, ExactInit, SafeWriteCorrect, <1>1, <1>2, PTL DEF Spec

\* "Records only this agent's actions and can roll them back exactly"
\* (transactions.py:58) holds under the two conditions: an inverse takes effect on
\* the track of its step and on no other.
THEOREM UndoHitsItsTargetWhenAppended ==
    ASSUME NoLookAlikes, AppendsAtMostOne
    PROVE  Spec => []UndoHitsItsTarget
<1>1. ExactInv => UndoHitsItsTarget
  BY DEF ExactInv
<1>2. QED
  BY RollbackIsExact, <1>1, PTL

\* Under the same conditions a transaction journaled ROLLED_BACK that recorded the
\* creation of a track leaves Live with the tracks it began with, each in its place.
THEOREM RollbackRestoresTracks ==
    ASSUME NoLookAlikes, AppendsAtMostOne
    PROVE  Spec => []RestoresTracks
<1>1. ASSUME RunInv, ExactInv PROVE RestoresTracks
  <2>1. \A i \in recorded : i \in Steps /\ (plan[i].kind = "create" => i \in Creates(plan))
    BY <1>1, OneCreated DEF RunInv, UndoneSoFar
  <2>2. QED
    BY <1>1, <2>1 DEF RestoresTracks, RunInv, RolledBackUndoesRecorded, Undone,
       ExactInv, CreatedIsGone
<1>2. QED
  BY SafeWriteCorrect, RollbackIsExact, <1>1, PTL

-----------------------------------------------------------------------------
(* The order of the steps: what was sent, recorded and undone by the time. *)

\* While the steps are executed, those before the current one are recorded.
BookedSoFar ==
    /\ pc \in Planning \cup {"step", "readback"} \cup (InStep \ {"created"}) =>
           recorded = {j \in Steps : j < cur}
    /\ pc = "created" => recorded = {j \in Steps : j <= cur}

\* A write was sent only of a step whose predecessors are recorded.
SentSoFar ==
    \A k \in {"write", "fill"}, i \in StepNo : verdict[<<k, i>>] # "none" =>
        /\ pc \in Planning \cup {"step", "readback", "before"} => i < cur
        /\ pc \in InStep => i <= cur
        /\ \A j \in Steps : j < i => j \in recorded

\* A recorded step was written as a whole, and so were those before it.
BookedIsWhole ==
    \A i \in recorded :
        /\ \A c \in WritesOf(i) : verdict[c] = "result"
        /\ \A j \in Steps : j < i => j \in recorded

\* An inverse is sent of a recorded step, when Live has settled every write.
UndoIsBooked ==
    \A i \in StepNo : verdict[<<"undo", i>>] # "none" =>
        /\ i \in recorded
        /\ \A k \in {"write", "fill"}, j \in StepNo : fate[<<k, j>>] # "pending"

\* Only a run that is over has answered; without a closed transaction it has
\* sent nothing that changes Live.
AnsweredOpen ==
    /\ outcome # "none" => pc = "done"
    /\ pc = "done" /\ Closed = "open" => \A c \in SideEffect : verdict[c] = "none"

OrderInv == BookedSoFar /\ SentSoFar /\ BookedIsWhole /\ UndoIsBooked /\ AnsweredOpen

\* The writes and inverses of a run, by step.
LEMMA WritesByStep ==
    ASSUME plan \in Plans
    PROVE  /\ \A c \in SideEffect : \E k \in WriteCall, i \in StepNo : c = <<k, i>>
           /\ \A k \in WriteCall, i \in StepNo : <<k, i>> \in SideEffect /\ <<k, i>> \in Command
           /\ \A i \in Steps : i \in StepNo /\ i \in Nat
  BY StepsTyped, SafeWriteAssumption, LinkAssumption DEF StepNo

\* The Core records a step after its writes returned results, and moves on.
LEMMA HandleOrder ==
    ASSUME RunInv, OrderInv, Handle, UNCHANGED <<linkVars, intentVars, dawVars>>
    PROVE  OrderInv'
<1>1. /\ UNCHANGED <<verdict, fate, plan>> /\ Steps' = Steps /\ plan \in Plans
      /\ \A i : WritesOf(i)' = WritesOf(i)
      /\ JournalPlace /\ WholeSoFar /\ NothingYet /\ recorded \subseteq Steps
      /\ BookedSoFar /\ SentSoFar /\ BookedIsWhole /\ UndoIsBooked /\ AnsweredOpen
  BY DEF linkVars, intentVars, Steps, WritesOf, RunInv, OrderInv, UndoneSoFar
<1>2. \A i \in Steps : i \in StepNo /\ i \in Nat
  BY <1>1, WritesByStep
<1>3. CASE RecordStep
  <2>1. cur \in Steps /\ cur \in Nat /\ recorded = {j \in Steps : j < cur}
    BY <1>1, <1>2, <1>3 DEF RecordStep, WholeSoFar, BookedSoFar, InStep
  <2>2. /\ recorded' = recorded \cup {cur} /\ pc \in InStep
        /\ \/ pc' = "created" /\ cur' = cur
           \/ pc' = "step" /\ cur' = cur + 1
    BY <1>3 DEF RecordStep, NextStep, Go, InStep
  <2>3. \A c \in WritesOf(cur) : verdict[c] = "result"
    BY <1>1, <1>3 DEF RecordStep, Returned, Call, StepCall, WritesOf, WholeSoFar
  <2>4. BookedSoFar'
    <3>1. /\ recorded' = {j \in Steps : j <= cur}
          /\ recorded' = {j \in Steps : j < cur + 1}
      <4>1. \A j \in Steps : (j <= cur <=> j < cur \/ j = cur) /\ (j < cur + 1 <=> j <= cur)
        BY <1>2, <2>1
      <4>2. QED
        BY <2>1, <2>2, <4>1
    <3>2. QED
      BY <1>1, <2>2, <3>1 DEF BookedSoFar, Planning, InStep
  <2>5. SentSoFar'
    <3>1. SUFFICES ASSUME NEW k \in {"write", "fill"}, NEW i \in StepNo,
                          verdict[<<k, i>>] # "none"
                   PROVE  i < cur + 1 /\ \A j \in Steps : j < i => j \in recorded
      BY <1>1, <2>1, <2>2, WritesByStep DEF SentSoFar, Planning, InStep, StepNo
    <3>2. i <= cur /\ \A j \in Steps : j < i => j \in recorded
      BY <1>1, <2>1, <2>2, <3>1 DEF SentSoFar
    <3>3. QED
      BY <2>1, <3>2, SafeWriteAssumption DEF StepNo
  <2>6. BookedIsWhole'
    <3>1. ASSUME NEW i \in recorded'
          PROVE  /\ \A c \in WritesOf(i) : verdict[c] = "result"
                 /\ \A j \in Steps : j < i => j \in recorded'
      <4>1. CASE i = cur
        BY <2>1, <2>2, <2>3, <4>1
      <4>2. CASE i \in recorded
        BY <1>1, <2>2, <4>2 DEF BookedIsWhole
      <4>3. QED
        BY <2>2, <3>1, <4>1, <4>2
    <3>2. QED
      BY <1>1, <3>1 DEF BookedIsWhole
  <2>7. UndoIsBooked' /\ AnsweredOpen'
    BY <1>1, <1>3, <2>2 DEF UndoIsBooked, AnsweredOpen, RecordStep
  <2>8. QED
    BY <2>4, <2>5, <2>6, <2>7 DEF OrderInv
<1>4. CASE ~RecordStep
  <2>1. recorded' = recorded
    BY <1>4 DEF Handle, ReceiveSnapshot, SnapshotRaises, Reject, CancelBeforeWrite, Begin,
     MarkPrepared,
     CancelOpen, CancelApplied, MarkSent, AllSent, StepCallReturns, CreatedReturns,
     LookMisses, WriteRaisesInDoubt, StepRaises, ReadbackMismatch, Unreconciled, ReadbackRaises,
     VerifiedThenRollback, Commit, CurrentReturns, CurrentRaises, Abort, ResolveReturns,
     ResolveConflicts, UndoReturns, RollbackRaises, RestoredReturns, RestoredRaises,
     StepFails, RollBackApplied, AbortDirectly, MarkInDoubt, RolledBack, UndoNext, ledger
  <2>2. BookedIsWhole' /\ UndoIsBooked'
    BY <1>1, <2>1 DEF BookedIsWhole, UndoIsBooked
  <2>3. \/ pc = "created" /\ pc' = "step" /\ cur' = cur + 1
        \/ pc \in Planning /\ pc' \in Planning \cup {"step"} /\ cur' = cur
        \/ pc = "step" /\ pc' \in {"before", "write", "readback"} /\ cur' = cur
        \/ pc \in {"before", "write", "fill"} /\ pc' \in {"write", "fill", "look", "doubt"} /\ cur' = cur
        \/ pc' \notin Planning \cup InStep \cup {"step", "readback"}
    BY <1>4 DEF Handle, ReceiveSnapshot, SnapshotRaises, Reject, CancelBeforeWrite, Begin,
     MarkPrepared,
     CancelOpen, CancelApplied, MarkSent, AllSent, StepCallReturns, CreatedReturns,
     LookMisses, WriteRaisesInDoubt, StepRaises, ReadbackMismatch, Unreconciled, ReadbackRaises,
     VerifiedThenRollback, Commit, CurrentReturns, CurrentRaises, Abort, ResolveReturns,
     ResolveConflicts, UndoReturns, RollbackRaises, RestoredReturns, RestoredRaises,
     StepFails, RollBackApplied, AbortDirectly, MarkInDoubt, RolledBack, UndoNext, ledger,
     Go, Finish, NextStep, CallAfter, Planning, InStep
  <2>4. pc = "created" => cur \in Nat
    BY <1>1, <1>2 DEF WholeSoFar, InStep
  <2>5. BookedSoFar'
    <3>1. CASE pc = "created" /\ pc' = "step" /\ cur' = cur + 1
      <4>1. recorded = {j \in Steps : j < cur + 1}
        BY <1>1, <1>2, <2>4, <3>1 DEF BookedSoFar
      <4>2. QED
        BY <1>1, <2>1, <3>1, <4>1 DEF BookedSoFar
    <3>2. CASE ~(pc = "created" /\ pc' = "step" /\ cur' = cur + 1)
      BY <1>1, <2>1, <2>3, <3>2 DEF BookedSoFar, Planning, InStep
    <3>3. QED
      BY <3>1, <3>2
  <2>6. SentSoFar'
    <3>1. SUFFICES ASSUME NEW k \in {"write", "fill"}, NEW i \in StepNo, verdict[<<k, i>>] # "none"
                   PROVE  /\ pc' \in Planning \cup {"step", "readback", "before"} => i < cur'
                          /\ pc' \in InStep => i <= cur'
      BY <1>1, <2>1 DEF SentSoFar, StepNo
    <3>2. i \in Nat
      BY SafeWriteAssumption DEF StepNo
    <3>3. CASE pc = "created" /\ pc' = "step" /\ cur' = cur + 1
      BY <1>1, <2>4, <3>1, <3>2, <3>3 DEF SentSoFar, Planning, InStep
    <3>4. CASE pc = "step" /\ pc' \in {"before", "write", "readback"} /\ cur' = cur
      <4>1. i < cur /\ cur \in Nat
        BY <1>1, <3>1, <3>4 DEF SentSoFar, WholeSoFar
      <4>2. QED
        BY <3>2, <3>4, <4>1 DEF Planning, InStep
    <3>5. CASE pc \in Planning /\ pc' \in Planning \cup {"step"} /\ cur' = cur
      BY <1>1, <3>1, <3>5 DEF SentSoFar, Planning, InStep
    <3>6. CASE /\ pc \in {"before", "write", "fill"}
               /\ pc' \in {"write", "fill", "look", "doubt"} /\ cur' = cur
      BY <1>1, <3>1, <3>6 DEF SentSoFar, Planning, InStep
    <3>7. QED
      BY <2>3, <3>3, <3>4, <3>5, <3>6 DEF Planning, InStep
  <2>7. AnsweredOpen'
    <3>1. pc \in Planning => \A c \in SideEffect : verdict[c] = "none"
      <4>1. pc \in Planning => cur = 1 /\ \A i \in StepNo : verdict[<<"undo", i>>] = "none"
        BY <1>1 DEF JournalPlace, NothingYet, Planning, AfterUndo
      <4>2. pc \in Planning => \A k \in {"write", "fill"}, i \in StepNo : verdict[<<k, i>>] = "none"
        <5>1. \A i \in StepNo : ~(i < 1)
          BY SafeWriteAssumption DEF StepNo
        <5>2. QED
          BY <1>1, <4>1, <5>1 DEF SentSoFar
      <4>3. QED
        BY <1>1, <4>1, <4>2, WritesByStep DEF WriteCall
    <3>2. pc # "done"
      BY DEF Handle, ReceiveSnapshot, SnapshotRaises, Reject, CancelBeforeWrite, Begin,
     MarkPrepared,
     CancelOpen, CancelApplied, MarkSent, AllSent, StepCallReturns, RecordStep, CreatedReturns,
     LookMisses, WriteRaisesInDoubt, StepRaises, ReadbackMismatch, Unreconciled, ReadbackRaises,
     VerifiedThenRollback, Commit, CurrentReturns, CurrentRaises, Abort, ResolveReturns,
     ResolveConflicts, UndoReturns, RollbackRaises, RestoredReturns, RestoredRaises,
     Calling, Returned, Raised, StepCall, RunCall
    <3>3. outcome' # "none" => pc' = "done"
      <4>1. outcome = "none"
        BY <1>1, <3>2 DEF AnsweredOpen
      <4>2. outcome' = outcome \/ pc' = "done"
        BY DEF Handle, ReceiveSnapshot, SnapshotRaises, Reject,
     CancelBeforeWrite, Begin, MarkPrepared,
     CancelOpen, CancelApplied, MarkSent, AllSent, StepCallReturns, RecordStep, CreatedReturns,
     LookMisses, WriteRaisesInDoubt, StepRaises, ReadbackMismatch, Unreconciled, ReadbackRaises,
     VerifiedThenRollback, Commit, CurrentReturns, CurrentRaises, Abort, ResolveReturns,
     ResolveConflicts, UndoReturns, RollbackRaises, RestoredReturns, RestoredRaises,
     StepFails, RollBackApplied, AbortDirectly, MarkInDoubt, RolledBack, UndoNext, Finish
      <4>3. QED
        BY <4>1, <4>2
    <3>4. pc' = "done" => \/ pc \in Planning
                          \/ pc = "restored" /\ last' = last
                          \/ last' \in {Record("write", "IN_DOUBT"), Record("fail", "FAILED"),
                                       Record("commit", "VERIFIED"),
                                       Record("rollback", "ROLLED_BACK"),
                                       Record("rollback", "FAILED"),
                                       Record("rollback", "ROLLBACK_CONFLICT")}
      <4>1. CASE \/ ReceiveSnapshot \/ SnapshotRaises \/ Reject \/ CancelBeforeWrite
                 \/ Begin \/ MarkPrepared \/ CancelOpen \/ CancelApplied \/ MarkSent
        BY <3>2, <4>1 DEF ReceiveSnapshot, SnapshotRaises, Reject, CancelBeforeWrite, Begin,
           MarkPrepared, CancelOpen, CancelApplied, MarkSent, RollBackApplied, Go, Finish, CloseTxn,
           Journal, Planning, Record
      <4>2. CASE \/ AllSent \/ StepCallReturns \/ CreatedReturns
                 \/ LookMisses \/ WriteRaisesInDoubt \/ StepRaises
        BY <3>2, <4>2 DEF AllSent, StepCallReturns, CreatedReturns, LookMisses, WriteRaisesInDoubt,
           StepRaises, StepFails, RollBackApplied, AbortDirectly, MarkInDoubt, NextStep, CallAfter,
           Go, Finish, CloseTxn, Journal, Record
      <4>3. CASE \/ ReadbackMismatch \/ Unreconciled \/ ReadbackRaises \/ VerifiedThenRollback
                 \/ Commit \/ CurrentReturns \/ CurrentRaises \/ Abort
        BY <3>2, <4>3 DEF ReadbackMismatch, Unreconciled, ReadbackRaises, VerifiedThenRollback,
           Commit, CurrentReturns, CurrentRaises, Abort, RollBackApplied, AbortDirectly,
           MarkInDoubt, Go, Finish, CloseTxn, Journal, Record
      <4>4. CASE \/ ResolveReturns \/ ResolveConflicts \/ UndoReturns \/ RollbackRaises
                 \/ RestoredReturns \/ RestoredRaises
        BY <3>2, <4>4 DEF ResolveReturns, ResolveConflicts, UndoReturns, RollbackRaises,
           RestoredReturns, RestoredRaises, RolledBack, UndoNext, Go, Finish, CloseTxn, Journal,
           Record
      <4>5. QED
        BY <1>4, <4>1, <4>2, <4>3, <4>4 DEF Handle
    <3>5. pc' = "done" /\ Closed' = "open" => pc \in Planning
      <4>1. pc = "restored" => last = Record("rollback", "ROLLED_BACK")
        BY <1>1 DEF JournalPlace
      <4>2. last' = Record("rollback", "ROLLED_BACK") => Closed' = "rolled_back"
        BY DEF Closed, Record
      <4>3. last' = Record("write", "IN_DOUBT") => Closed' = "unsettled"
        BY DEF Closed, Record
      <4>4. last' = Record("rollback", "FAILED") => Closed' = "unsettled"
        BY DEF Closed, Record
      <4>5. last' = Record("fail", "FAILED") => Closed' = "failed"
        BY DEF Closed, Record
      <4>6. last' = Record("commit", "VERIFIED") => Closed' = "kept"
        BY DEF Closed, Record
      <4>7. last' = Record("rollback", "ROLLBACK_CONFLICT") => Closed' = "conflict"
        BY DEF Closed, Record
      <4>8. QED
        BY <3>4, <4>1, <4>2, <4>3, <4>4, <4>5, <4>6, <4>7
    <3>6. QED
      BY <1>1, <3>1, <3>3, <3>5 DEF AnsweredOpen
  <2>8. QED
    BY <2>2, <2>5, <2>6, <2>7 DEF OrderInv
<1>5. QED
  BY <1>3, <1>4

\* A write is sent for the current step, an inverse when nothing is pending.
LEMMA SendOrder == ASSUME RunInv, OrderInv, SendCall PROVE OrderInv'
<1>1. /\ UNCHANGED <<pc, cur, recorded, last, outcome, plan>> /\ Steps' = Steps /\ plan \in Plans
      /\ Closed' = Closed /\ \A i : WritesOf(i)' = WritesOf(i)
      /\ BookedSoFar /\ SentSoFar /\ BookedIsWhole /\ UndoIsBooked /\ AnsweredOpen
  BY DEF SendCall, runVars, intentVars, RunInv, OrderInv, Steps, Closed, WritesOf
<1>2. /\ Calling /\ Call \in Command /\ Idle /\ verdict[Call] = "none"
      /\ verdict' = [verdict EXCEPT ![Call] = "waiting"]
      /\ \E f \in {"pending", "untouched"} : fate' = [fate EXCEPT ![Call] = f]
      /\ verdict \in [Command -> Verdict] /\ fate \in [Command -> Fate] /\ LinkInv
  BY CallIsCommand DEF SendCall, Issue, RunInv, LinkInv, LinkTypeOK
<1>3. /\ \A c \in SideEffect : \E k \in WriteCall, i \in StepNo : c = <<k, i>>
      /\ \A k \in WriteCall, i \in StepNo : <<k, i>> \in SideEffect /\ <<k, i>> \in Command
      /\ \A i \in Steps : i \in StepNo /\ i \in Nat
      /\ \A i \in Steps : WritesOf(i) \subseteq Command
  BY <1>1, WritesByStep, CommandsOfRun
<1>4. \A k \in WriteCall, i \in StepNo : Call = <<k, i>> => pc = k /\ cur = i
  BY DEF Call, WriteCall, StepCall
<1>5. recorded \subseteq Steps
  BY DEF RunInv, UndoneSoFar
<1>6. BookedSoFar' /\ BookedIsWhole'
  BY <1>1, <1>2, <1>3, <1>5 DEF BookedSoFar, BookedIsWhole
<1>7. SentSoFar'
  <2>1. pc \in {"write", "fill"} => recorded = {j \in Steps : j < cur} /\ cur \in Nat
    BY <1>1, <1>3 DEF BookedSoFar, InStep, RunInv, WholeSoFar
  <2>2. SUFFICES ASSUME NEW k \in {"write", "fill"}, NEW i \in StepNo,
                        verdict'[<<k, i>>] # "none"
                 PROVE  /\ pc \in Planning \cup {"step", "readback", "before"} => i < cur
                        /\ pc \in InStep => i <= cur
                        /\ \A j \in Steps : j < i => j \in recorded
    BY <1>1 DEF SentSoFar, StepNo
  <2>3. CASE Call = <<k, i>>
    BY <1>4, <2>1, <2>3 DEF WriteCall, Planning, InStep
  <2>4. CASE Call # <<k, i>>
    <3>1. verdict[<<k, i>>] # "none"
      BY <1>2, <1>3, <2>2, <2>4 DEF WriteCall
    <3>2. QED
      BY <1>1, <3>1 DEF SentSoFar
  <2>5. QED
    BY <2>3, <2>4
<1>8. UndoIsBooked'
  <2>1. SUFFICES ASSUME NEW i \in StepNo, verdict'[<<"undo", i>>] # "none"
                 PROVE  /\ i \in recorded
                        /\ \A k \in {"write", "fill"}, j \in StepNo : fate'[<<k, j>>] # "pending"
    BY <1>1 DEF UndoIsBooked, StepNo
  <2>2. CASE Call = <<"undo", i>>
    <3>1. pc = "undo" /\ cur = i
      BY <1>4, <2>2 DEF WriteCall
    <3>2. i \in recorded
      BY <3>1 DEF RunInv, UndoneSoFar
    <3>3. ASSUME NEW k \in {"write", "fill"}, NEW j \in StepNo PROVE fate'[<<k, j>>] # "pending"
      <4>1. <<k, j>> \in Command /\ <<k, j>> # Call
        BY <1>3, <2>2 DEF WriteCall
      <4>2. verdict[<<k, j>>] \notin Doubt /\ verdict[<<k, j>>] # "waiting"
        BY <1>2, <3>1, <4>1 DEF RunInv, Clean, Idle, Over
      <4>3. fate[<<k, j>>] # "pending"
        BY <1>2, <4>1, <4>2, NothingPending
      <4>4. QED
        BY <1>2, <4>1, <4>3
    <3>4. QED
      BY <3>2, <3>3
  <2>3. CASE Call # <<"undo", i>>
    <3>1. verdict[<<"undo", i>>] # "none"
      BY <1>2, <1>3, <2>1, <2>3 DEF WriteCall
    <3>2. ASSUME NEW k \in {"write", "fill"}, NEW j \in StepNo PROVE Call # <<k, j>>
      BY <1>4, <3>1 DEF WriteCall, RunInv, NothingYet, AfterUndo
    <3>3. QED
      BY <1>1, <1>2, <1>3, <3>1, <3>2 DEF UndoIsBooked, WriteCall
  <2>4. QED
    BY <2>2, <2>3
<1>9. AnsweredOpen'
  BY <1>1, <1>2 DEF AnsweredOpen, Calling, StepCall, RunCall
<1>10. QED
  BY <1>6, <1>7, <1>8, <1>9 DEF OrderInv

\* What leaves the run where it is, sends nothing and makes nothing pending.
LEMMA StayOrder ==
    ASSUME RunInv, OrderInv, UNCHANGED <<cur, recorded, last, outcome, plan>>,
           pc' = pc \/ (pc # "done" /\ pc' = "crashed"),
           \A c \in Command : /\ verdict'[c] # "none" => verdict[c] # "none"
                              /\ verdict[c] = "result" => verdict'[c] = "result"
                              /\ fate'[c] = "pending" => fate[c] = "pending"
    PROVE  OrderInv'
<1>1. /\ Steps' = Steps /\ plan \in Plans /\ Closed' = Closed /\ \A i : WritesOf(i)' = WritesOf(i)
      /\ BookedSoFar /\ SentSoFar /\ BookedIsWhole /\ UndoIsBooked /\ AnsweredOpen
      /\ recorded \subseteq Steps
  BY DEF RunInv, OrderInv, Steps, Closed, WritesOf, UndoneSoFar
<1>2. /\ \A k \in WriteCall, i \in StepNo : <<k, i>> \in SideEffect /\ <<k, i>> \in Command
      /\ \A i \in Steps : i \in StepNo /\ WritesOf(i) \subseteq Command
      /\ SideEffect \subseteq Command
  BY <1>1, WritesByStep, CommandsOfRun
<1>3. BookedSoFar'
  BY <1>1 DEF BookedSoFar, Planning, InStep
<1>4. SentSoFar'
  BY <1>1, <1>2 DEF SentSoFar, Planning, InStep, StepNo, WriteCall
<1>5. BookedIsWhole'
  BY <1>1, <1>2 DEF BookedIsWhole
<1>6. UndoIsBooked'
  BY <1>1, <1>2 DEF UndoIsBooked, StepNo, WriteCall
<1>7. AnsweredOpen'
  BY <1>1, <1>2 DEF AnsweredOpen
<1>8. QED
  BY <1>3, <1>4, <1>5, <1>6, <1>7 DEF OrderInv

\* The steps are written, recorded and undone in order all along a run.
LEMMA OrderStep == ASSUME RunInv, OrderInv, [Next]_vars PROVE OrderInv'
<1>1. verdict \in [Command -> Verdict] /\ fate \in [Command -> Fate]
  BY DEF RunInv, LinkInv, LinkTypeOK
<1>2. CASE SendCall
  BY <1>2, SendOrder
<1>3. CASE Handle /\ UNCHANGED <<linkVars, intentVars, dawVars>>
  BY <1>3, HandleOrder
<1>4. CASE CallReturns
  <2>1. Call \in Command /\ verdict[Call] = "waiting" /\ fate' = fate
        /\ \E v : v # "none" /\ verdict' = [verdict EXCEPT ![Call] = v]
    BY <1>4, CallIsCommand DEF CallReturns, Return, ReturnResult, ReturnRefused, ReturnInDoubt,
       ReturnFailed, Answer
  <2>2. \A c \in Command : /\ verdict'[c] # "none" => verdict[c] # "none"
                           /\ verdict[c] = "result" => verdict'[c] = "result"
    BY <1>1, <2>1
  <2>3. QED
    BY <1>4, <2>1, <2>2, StayOrder DEF CallReturns, runVars, intentVars
<1>5. ASSUME NEW c \in Command, LiveApplies(c) \/ LiveSpoils(c) \/ LiveRefuses(c)
      PROVE  OrderInv'
  <2>1. verdict' = verdict /\ \A d \in Command : fate'[d] = "pending" => fate[d] = "pending"
    BY <1>1, <1>5 DEF LiveApplies, LiveSpoils, LiveRefuses, Apply, Spoil, Run, Discard
  <2>2. QED
    BY <1>5, <2>1, StayOrder DEF LiveApplies, LiveSpoils, LiveRefuses, runVars, intentVars
<1>6. CASE Crash
  BY <1>6, StayOrder DEF Crash, Go, ledger, linkVars, intentVars
<1>7. CASE Cancel \/ (\E t \in Track : UserEdits(t)) \/ UNCHANGED vars
  BY <1>7, StayOrder DEF Cancel, UserEdits, vars, linkVars, runVars, intentVars
<1>8. QED
  BY <1>2, <1>3, <1>4, <1>5, <1>6, <1>7 DEF Next, Core

\* Nothing is sent or recorded at first.
LEMMA OrderInit == Init => OrderInv
<1> SUFFICES ASSUME Init PROVE OrderInv
  OBVIOUS
<1>1. /\ \A k \in WriteCall, j \in StepNo : <<k, j>> \in SideEffect /\ <<k, j>> \in Command
      /\ \A j \in Steps : j \in Nat /\ ~(j < 1)
  <2>1. plan \in Plans
    BY DEF Init
  <2>2. QED
    BY <2>1, WritesByStep DEF Steps
<1>2. QED
  BY <1>1, LinkAssumption DEF Init, LinkInit, OrderInv, BookedSoFar, SentSoFar, BookedIsWhole,
     UndoIsBooked, AnsweredOpen, WriteCall
-----------------------------------------------------------------------------
(* The run is the transaction of AgentTransaction.                         *)

\* What Live has carried out is all a transaction sees of the link.
LEMMA TransactionSees ==
    ASSUME plan \in Plans, plan' = plan,
           \A c \in SideEffect : \A end \in Ran : fate'[c] = end <=> fate[c] = end
    PROVE  /\ Steps' = Steps
           /\ \A i \in StepNo : Written(i)' = Written(i) /\ (Undone(i)' <=> Undone(i))
<1>1. Steps' = Steps /\ \A i : WritesOf(i)' = WritesOf(i)
  BY DEF Steps, WritesOf
<1>2. \A i \in Steps : WritesOf(i) \subseteq SideEffect
  BY CommandsOfRun
<1>3. \A i \in StepNo : <<"undo", i>> \in SideEffect
  BY CommandsOfRun DEF StepCall, WriteCall
<1>4. ASSUME NEW i \in StepNo PROVE Written(i)' = Written(i)
  BY <1>1, <1>2 DEF Written, Ran
<1>5. QED
  BY <1>1, <1>3, <1>4 DEF Undone, Ran

\* As long as the link, the records, the journal and the answer are left alone,
\* the transaction stays as it is.
LEMMA TransactionStays ==
    ASSUME plan \in Plans, UNCHANGED <<plan, recorded, outcome>>, Closed' = Closed,
           \A c \in SideEffect : \A end \in Ran : fate'[c] = end <=> fate[c] = end
    PROVE  UNCHANGED Transaction!vars
<1>1. /\ Steps' = Steps
      /\ \A i \in StepNo : Written(i)' = Written(i) /\ (Undone(i)' <=> Undone(i))
  BY TransactionSees
<1>2. [i \in StepNo |-> Written(i)]' = [i \in StepNo |-> Written(i)]
  BY <1>1 DEF StepNo
<1>3. {i \in StepNo : Undone(i)}' = {i \in StepNo : Undone(i)}
  BY <1>1 DEF StepNo
<1>4. QED
  BY <1>1, <1>2, <1>3 DEF Transaction!vars

\* An inverse that Live carried out was sent.
LEMMA UndoneIsSent ==
    ASSUME RunInv, NEW i \in StepNo, Undone(i)
    PROVE  verdict[<<"undo", i>>] # "none"
<1>1. <<"undo", i>> \in Command
  BY CommandsOfRun DEF StepCall, RunInv
<1>2. QED
  BY <1>1 DEF RunInv, LinkInv, SentIsKnown, Undone

\* A command that changes Live is on its way only while the transaction is open,
\* or closed in doubt.
LEMMA PendingIsUnsettled ==
    ASSUME RunInv, OrderInv, NEW c \in SideEffect, fate[c] = "pending"
    PROVE  Transaction!Unsettled
<1>1. Recovery \notin {"VERIFIED", "ROLLBACK_CONFLICT"}
  BY DEF RunInv, ClosedIsSettled
<1>2. verdict[c] # "none"
  BY LinkAssumption DEF RunInv, LinkInv, SentIsKnown
<1>3. Closed \in {"unsettled", "open"}
  BY <1>1 DEF Closed, Recovery
<1>4. Closed = "open" => outcome = "none"
  BY <1>2 DEF OrderInv, AnsweredOpen
<1>5. QED
  BY <1>3, <1>4 DEF Transaction!Unsettled

\* A write of a step that Live runs is the abstract write of the step, or adds
\* nothing to what is written of it.
LEMMA WriteMaps ==
    ASSUME RunInv, TypeInv, OrderInv, NEW k \in {"write", "fill"}, NEW i \in StepNo,
           NEW end \in Ran, Run(<<k, i>>, end), UNCHANGED <<runVars, intentVars>>
    PROVE  [Transaction!Next]_(Transaction!vars)
<1> DEFINE c == <<k, i>>
<1>1. /\ fate[c] = "pending" /\ fate' = [fate EXCEPT ![c] = end]
      /\ UNCHANGED <<plan, recorded, last, outcome>> /\ Closed' = Closed
  BY DEF Run, runVars, intentVars, Closed
<1>2. /\ plan \in Plans /\ c \in SideEffect /\ c \in Command /\ fate \in [Command -> Fate]
      /\ \A j \in StepNo : <<"undo", j>> \in Command /\ <<"undo", j>> # c
      /\ SideEffect \subseteq Command
  BY WritesByStep, CommandsOfRun DEF WriteCall, RunInv, LinkInv, LinkTypeOK
<1>3. verdict[c] # "none" /\ i \in Steps
  BY <1>1, <1>2 DEF RunInv, LinkInv, SentIsKnown, TypeInv, SentInPlan, WriteCall
<1>4. CASE c \notin WritesOf(i)
  <2>1. Steps' = Steps /\ \A j : WritesOf(j)' = WritesOf(j)
    BY <1>1 DEF Steps, WritesOf
  <2>2. \A j \in Steps : c \notin WritesOf(j) /\ WritesOf(j) \subseteq Command
    BY <1>2, <1>4, CommandsOfRun DEF WritesOf
  <2>3. \A j \in StepNo : Written(j)' = Written(j) /\ (Undone(j)' <=> Undone(j))
    BY <1>1, <1>2, <2>1, <2>2 DEF Written, Undone
  <2>4. [j \in StepNo |-> Written(j)]' = [j \in StepNo |-> Written(j)]
    BY <2>3 DEF StepNo
  <2>5. {j \in StepNo : Undone(j)}' = {j \in StepNo : Undone(j)}
    BY <2>3 DEF StepNo
  <2>6. QED
    BY <1>1, <2>1, <2>4, <2>5 DEF Transaction!vars
<1>5. CASE c \in WritesOf(i)
  <2>1. Transaction!Unsettled
    BY <1>1, <1>2, PendingIsUnsettled
  <2>2. recorded = Transaction!Before(i)
    <3>1. recorded \subseteq Steps /\ \A j \in Steps : j < i => j \in recorded
      BY <1>3 DEF OrderInv, SentSoFar, RunInv, UndoneSoFar
    <3>2. i \notin recorded
      BY <1>1, <1>2, <1>5 DEF OrderInv, BookedIsWhole, RunInv, LinkInv, ResultIsApplied
    <3>3. ASSUME NEW j \in recorded PROVE j < i
      <4>1. ~(i < j) /\ i # j
        BY <1>3, <3>2 DEF OrderInv, BookedIsWhole
      <4>2. i \in Int /\ j \in Int
        BY <1>2, <1>3, <3>1, WritesByStep
      <4>3. QED
        BY <4>1, <4>2
    <3>4. QED
      BY <3>1, <3>3 DEF Transaction!Before
  <2>3. {j \in StepNo : Undone(j)} = {}
    BY <1>1, UndoneIsSent DEF OrderInv, UndoIsBooked
  <2>4. /\ Steps' = Steps
        /\ \A j \in StepNo : j # i => Written(j)' = Written(j)
        /\ \A j \in StepNo : Undone(j)' <=> Undone(j)
    <3>1. Steps' = Steps /\ \A j : WritesOf(j)' = WritesOf(j)
      BY <1>1 DEF Steps, WritesOf
    <3>2. \A j \in Steps : j # i => c \notin WritesOf(j) /\ WritesOf(j) \subseteq Command
      BY <1>2, CommandsOfRun DEF WritesOf
    <3>3. QED
      BY <1>1, <1>2, <3>1, <3>2 DEF Written, Undone
  <2>5. \/ Written(i) = "none" /\ Written(i)' \in {"some", "whole"}
        \/ Written(i) = "some" /\ Written(i)' \in {"some", "whole"}
    <3>1. Steps' = Steps /\ WritesOf(i)' = WritesOf(i)
      BY <1>1 DEF Steps, WritesOf
    <3>2. WritesOf(i) \subseteq {<<"write", i>>, <<"fill", i>>}
          /\ <<"write", i>> \in Command /\ <<"fill", i>> \in Command
      BY <1>2, WritesByStep DEF WritesOf, WriteCall
    <3>3. fate'[c] = end /\ \A d \in WritesOf(i) : d # c => fate'[d] = fate[d]
      BY <1>1, <1>2, <3>2
    <3>4. fate[c] = "pending" /\ end \in {"applied", "partial"}
      BY <1>1 DEF Ran
    <3>5. \A d, e \in WritesOf(i) : d # c /\ e # c => d = e
      BY <1>5, <3>2
    <3> HIDE DEF c
    <3>6. QED
      BY <1>3, <1>5, <3>1, <3>3, <3>4, <3>5 DEF Written
  <2>6. CASE Written(i)' = Written(i)
    <3>1. [j \in StepNo |-> Written(j)]' = [j \in StepNo |-> Written(j)]
      BY <2>4, <2>6 DEF StepNo
    <3>2. {j \in StepNo : Undone(j)}' = {j \in StepNo : Undone(j)}
      BY <2>4 DEF StepNo
    <3>3. QED
      BY <1>1, <2>4, <3>1, <3>2 DEF Transaction!vars
  <2>7. CASE Written(i)' # Written(i)
    <3>1. PICK w : /\ Written(i)' = w
                   /\ \/ Written(i) = "none" /\ w \in {"some", "whole"}
                      \/ Written(i) = "some" /\ w = "whole"
      BY <2>5, <2>7
    <3>2. [j \in StepNo |-> Written(j)]' = [[j \in StepNo |-> Written(j)] EXCEPT ![i] = w]
      BY <2>4, <3>1 DEF StepNo
    <3>3. {j \in StepNo : Undone(j)}' = {j \in StepNo : Undone(j)}
      BY <2>4 DEF StepNo
    <3>4. Transaction!Write(i)
      BY <1>1, <2>1, <2>2, <2>3, <2>4, <3>1, <3>2, <3>3 DEF Transaction!Write
    <3>5. QED
      BY <1>3, <3>4 DEF Transaction!Next
  <2>8. QED
    BY <2>6, <2>7
<1>6. QED
  BY <1>4, <1>5

\* A part of an inverse undoes nothing, as a transaction counts it.
LEMMA SpoiltUndoMaps ==
    ASSUME RunInv, TypeInv, NEW i \in StepNo, LiveSpoils(<<"undo", i>>)
    PROVE  UNCHANGED Transaction!vars
<1> DEFINE c == <<"undo", i>>
<1>1. /\ fate[c] = "pending" /\ fate' = [fate EXCEPT ![c] = "partial"]
      /\ UNCHANGED <<plan, recorded, last, outcome>> /\ Closed' = Closed
  BY DEF LiveSpoils, Spoil, Run, runVars, intentVars, Closed
<1>2. /\ plan \in Plans /\ c \in Command /\ fate \in [Command -> Fate]
      /\ \A j \in StepNo : <<"undo", j>> \in Command
  BY WritesByStep DEF WriteCall, RunInv, LinkInv, LinkTypeOK
<1>3. Steps' = Steps /\ \A j : WritesOf(j)' = WritesOf(j)
  BY <1>1 DEF Steps, WritesOf
<1>4. \A j \in Steps : c \notin WritesOf(j) /\ WritesOf(j) \subseteq Command
  BY <1>2, CommandsOfRun DEF WritesOf
<1>5. \A j \in StepNo : Written(j)' = Written(j) /\ (Undone(j)' <=> Undone(j))
  BY <1>1, <1>2, <1>3, <1>4 DEF Written, Undone
<1>6. [j \in StepNo |-> Written(j)]' = [j \in StepNo |-> Written(j)]
  BY <1>5 DEF StepNo
<1>7. {j \in StepNo : Undone(j)}' = {j \in StepNo : Undone(j)}
  BY <1>5 DEF StepNo
<1>8. QED
  BY <1>1, <1>3, <1>6, <1>7 DEF Transaction!vars

\* An inverse that Live carries out is the abstract undo of its step.
LEMMA UndoMaps ==
    ASSUME RunInv, TypeInv, OrderInv, NEW i \in StepNo, LiveApplies(<<"undo", i>>)
    PROVE  [Transaction!Next]_(Transaction!vars)
<1> DEFINE c == <<"undo", i>>
<1>1. /\ fate[c] = "pending" /\ fate' = [fate EXCEPT ![c] = "applied"]
      /\ UNCHANGED <<plan, recorded, last, outcome>> /\ Closed' = Closed
  BY DEF LiveApplies, Apply, Run, runVars, intentVars, Closed
<1>2. /\ plan \in Plans /\ c \in SideEffect /\ c \in Command /\ fate \in [Command -> Fate]
      /\ \A j \in StepNo : <<"undo", j>> \in Command
  BY WritesByStep DEF WriteCall, RunInv, LinkInv, LinkTypeOK
<1>3. verdict[c] # "none"
  BY <1>1, <1>2 DEF RunInv, LinkInv, SentIsKnown
<1>4. i \in recorded
  BY <1>3 DEF OrderInv, UndoIsBooked
<1>5. \A j \in recorded : j > i => j \in {n \in StepNo : Undone(n)}
  <2>1. recorded \subseteq StepNo
    BY <1>2, CommandsOfRun DEF RunInv, UndoneSoFar
  <2>2. QED
    BY <1>3, <1>4, <2>1 DEF RunInv, UndoneInReverse
<1>6. ~Undone(i)
  BY <1>1 DEF Undone
<1>7. Transaction!Unsettled
  BY <1>1, <1>2, PendingIsUnsettled
<1>8. /\ Steps' = Steps
      /\ \A j \in StepNo : Written(j)' = Written(j)
      /\ \A j \in StepNo : Undone(j)' <=> (j = i \/ Undone(j))
  <2>1. Steps' = Steps /\ \A j : WritesOf(j)' = WritesOf(j)
    BY <1>1 DEF Steps, WritesOf
  <2>2. \A j \in Steps : c \notin WritesOf(j) /\ WritesOf(j) \subseteq Command
    BY <1>2, CommandsOfRun DEF WritesOf
  <2>3. QED
    BY <1>1, <1>2, <2>1, <2>2 DEF Written, Undone
<1>9. [j \in StepNo |-> Written(j)]' = [j \in StepNo |-> Written(j)]
  BY <1>8 DEF StepNo
<1>10. {j \in StepNo : Undone(j)}' = {j \in StepNo : Undone(j)} \cup {i}
  BY <1>8 DEF StepNo
<1>11. Transaction!Undo(i)
  BY <1>1, <1>5, <1>6, <1>7, <1>8, <1>9, <1>10 DEF Transaction!Undo
<1>12. QED
  BY <1>4, <1>11 DEF Transaction!Next
\* A step the run records was written as a whole, after those before it.
LEMMA RecordMaps ==
    ASSUME RunInv, OrderInv, RecordStep, UNCHANGED <<linkVars, intentVars, dawVars>>
    PROVE  Transaction!Book(cur) /\ cur \in Steps
<1>1. /\ plan \in Plans /\ UNCHANGED <<plan, fate, outcome>> /\ pc \in {"look", "write"}
      /\ recorded' = recorded \cup {cur} /\ last' = Record("write", "APPLIED")
      /\ last = Record("write", "SENT")
  BY DEF RecordStep, Journal, Record, linkVars, intentVars, RunInv, JournalPlace, InStep
<1>2. Closed = "open" /\ Closed' = "open" /\ outcome = "none"
  BY <1>1 DEF Closed, Record, OrderInv, AnsweredOpen
<1>3. cur \in Steps /\ recorded = Transaction!Before(cur)
  BY <1>1 DEF RunInv, WholeSoFar, OrderInv, BookedSoFar, InStep, Transaction!Before
<1>4. {j \in StepNo : Undone(j)} = {}
  BY <1>1, UndoneIsSent DEF RunInv, NothingYet, AfterUndo
<1>5. cur \in StepNo /\ Written(cur) = "whole"
  <2>1. \A c \in WritesOf(cur) : verdict[c] = "result"
    BY <1>1 DEF RecordStep, Returned, Call, StepCall, WritesOf, RunInv, WholeSoFar
  <2>2. WritesOf(cur) \subseteq Command /\ WritesOf(cur) # {} /\ cur \in StepNo
    BY <1>1, <1>3, CommandsOfRun DEF WritesOf
  <2>3. \A c \in WritesOf(cur) : fate[c] = "applied"
    BY <2>1, <2>2 DEF RunInv, LinkInv, ResultIsApplied
  <2>4. QED
    BY <1>3, <2>2, <2>3 DEF Written
<1>6. /\ Steps' = Steps
      /\ \A j \in StepNo : Written(j)' = Written(j) /\ (Undone(j)' <=> Undone(j))
  BY <1>1, TransactionSees
<1>7. [j \in StepNo |-> Written(j)]' = [j \in StepNo |-> Written(j)]
  BY <1>6 DEF StepNo
<1>8. {j \in StepNo : Undone(j)}' = {j \in StepNo : Undone(j)}
  BY <1>6 DEF StepNo
<1>9. QED
  BY <1>1, <1>2, <1>3, <1>4, <1>5, <1>6, <1>7, <1>8 DEF Transaction!Book

\* The ends of a transaction that the run may come to in one step.
Ends(c, answers) ==
    /\ Closed = "open" /\ outcome = "none"
    /\ Closed' = c /\ outcome' \in answers

\* Every other step of the run closes the transaction, when it may, answers the
\* caller, or does neither.
LEMMA HandleEnds ==
    ASSUME RunInv, TypeInv, OrderInv, Handle, ~RecordStep,
           UNCHANGED <<linkVars, intentVars, dawVars>>
    PROVE  \/ Closed' = Closed /\ outcome' = outcome
           \/ outcome = "none" /\ Closed' = Closed /\ outcome' \in Transaction!Answers(Closed)
           \/ \E c \in {"failed", "kept", "rolled_back", "conflict", "unsettled"} :
                  /\ Ends(c, {"none"} \cup Transaction!Answers(c))
                  /\ Transaction!MayClose(c)
<1>1. /\ plan \in Plans /\ JournalPlace /\ NothingYet /\ WholeSoFar /\ UndoneSoFar
      /\ BookedSoFar /\ SentSoFar /\ AnsweredOpen /\ UndoIsBooked /\ LinkInv
  BY DEF RunInv, OrderInv
<1>2. pc # "done" => outcome = "none"
  BY <1>1 DEF AnsweredOpen
<1>3. \A k, s : last = Record(k, s) /\ s \notin {"VERIFIED", "ROLLED_BACK", "ROLLBACK_CONFLICT",
                                                 "FAILED", "IN_DOUBT"} => Closed = "open"
  BY DEF Closed, Record
<1>4. \A k, s : last' = Record(k, s) /\ s \notin {"VERIFIED", "ROLLED_BACK", "ROLLBACK_CONFLICT",
                                                  "FAILED", "IN_DOUBT"} => Closed' = "open"
  BY DEF Closed, Record
<1>5. last' = last => Closed' = Closed
  BY DEF Closed
<1>6. pc \notin {"undo"} \cup AfterUndo => {j \in StepNo : Undone(j)} = {}
  BY <1>1, UndoneIsSent DEF NothingYet
<1>7. CASE MarkInDoubt /\ (LookMisses \/ StepRaises \/ Unreconciled \/ CurrentRaises)
  <2>1. Closed = "open" /\ outcome = "none"
    <3>1. pc \in InStep \cup {"readback", "current"}
      BY <1>7 DEF LookMisses, StepRaises, Unreconciled, CurrentRaises, InStep
    <3>2. QED
      BY <1>1, <1>2, <1>3, <3>1 DEF JournalPlace, InStep
  <2>2. Closed' = "unsettled" /\ outcome' = "IN_DOUBT"
    BY <1>7 DEF MarkInDoubt, CloseTxn, Journal, Finish, Closed
  <2>3. QED
    BY <2>1, <2>2 DEF Ends, Transaction!MayClose, Transaction!Answers
<1>8. CASE SnapshotRaises \/ Reject \/ CancelBeforeWrite
  <2>1. Closed = "open" /\ outcome = "none" /\ last' = last
    BY <1>1, <1>2, <1>3, <1>8 DEF JournalPlace, SnapshotRaises, Reject, CancelBeforeWrite
  <2>2. outcome' \in {"PRECONDITION_FAILED", "CANCELLED", "EXECUTION_FAILED"}
    BY <1>8 DEF SnapshotRaises, Reject, CancelBeforeWrite, Finish
  <2>3. QED
    BY <1>5, <2>1, <2>2 DEF Transaction!Answers
<1>9. CASE RestoredReturns \/ RestoredRaises
  <2>1. last = Record("rollback", "ROLLED_BACK") /\ outcome = "none" /\ last' = last
    BY <1>1, <1>2, <1>9 DEF JournalPlace, RestoredReturns, RestoredRaises
  <2>2. Closed = "rolled_back"
    BY <2>1 DEF Closed, Record
  <2>3. outcome' \in {"CANCELLED", "ROLLBACK", "ROLLBACK_FAILED", "EXECUTION_FAILED"}
    BY <1>9 DEF RestoredReturns, RestoredRaises, Finish
  <2>4. QED
    BY <1>5, <2>1, <2>2, <2>3 DEF Transaction!Answers
<1>10. CASE CancelOpen
  <2>1. Closed = "open" /\ outcome = "none"
    BY <1>1, <1>2, <1>3, <1>10 DEF JournalPlace, CancelOpen
  <2>2. Closed' = "failed" /\ outcome' = "EXECUTION_FAILED"
    BY <1>10 DEF CancelOpen, CloseTxn, Journal, Finish, Closed
  <2>3. \A i \in Steps : Written(i) = "none"
    <3>1. \A k \in {"write", "fill"}, i \in Steps : verdict[<<k, i>>] = "none"
      <4>1. \A i \in Steps : i \in StepNo /\ ~(i < 1)
        BY <1>1, WritesByStep DEF Steps
      <4>2. QED
        BY <1>1, <1>10, <4>1 DEF CancelOpen, SentSoFar
    <3>2. \A i \in Steps : WritesOf(i) \subseteq Command /\ WritesOf(i) # {}
      BY <1>1, CommandsOfRun DEF WritesOf
    <3>3. \A i \in Steps : \A c \in WritesOf(i) : verdict[c] = "none"
      BY <3>1 DEF WritesOf
    <3>4. \A i \in Steps : \A c \in WritesOf(i) : fate[c] = "unsent"
      BY <1>1, <3>2, <3>3 DEF LinkInv, SentIsKnown
    <3>5. QED
      BY <3>4 DEF Written
  <2>4. \A i \in Steps : [j \in StepNo |-> Written(j)][i] = "none"
    BY <1>1, <2>3, CommandsOfRun
  <2>5. QED
    BY <2>1, <2>2, <2>4 DEF Ends, Transaction!MayClose, Transaction!Answers
<1>11. CASE Commit
  <2>1. Closed = "open" /\ outcome = "none" /\ pc = "readback"
    BY <1>1, <1>2, <1>3, <1>11 DEF JournalPlace, Commit
  <2>2. Closed' = "kept" /\ outcome' = "KEEP"
    BY <1>11 DEF Commit, CloseTxn, Journal, Finish, Closed
  <2>3. recorded = Steps
    <3>1. recorded = {j \in Steps : j < cur} /\ cur > Len(plan) /\ cur \in Nat
      BY <1>1, <2>1 DEF BookedSoFar, WholeSoFar
    <3>2. \A j \in Steps : j < cur
      BY <1>1, <3>1, CommandsOfRun DEF Steps
    <3>3. QED
      BY <3>1, <3>2
  <2>4. {j \in StepNo : Undone(j)} = {}
    BY <1>6, <2>1 DEF AfterUndo
  <2>5. QED
    BY <2>1, <2>2, <2>3, <2>4 DEF Ends, Transaction!MayClose, Transaction!Answers
<1>12. CASE ResolveConflicts
  <2>1. Closed = "open" /\ outcome = "none" /\ pc = "resolve"
    BY <1>1, <1>2, <1>3, <1>12 DEF JournalPlace, ResolveConflicts
  <2>2. Closed' = "conflict" /\ outcome' \in {"ROLLBACK_FAILED", "EXECUTION_FAILED"}
    BY <1>12 DEF ResolveConflicts, CloseTxn, Journal, Finish, Closed, RolledBackAs
  <2>3. {j \in StepNo : Undone(j)} = {}
    BY <1>6, <2>1 DEF AfterUndo
  <2>4. QED
    BY <2>1, <2>2, <2>3 DEF Ends, Transaction!MayClose, Transaction!Answers
<1>13. CASE RollbackRaises
  <2>1. Closed = "open" /\ outcome = "none"
    BY <1>1, <1>2, <1>3, <1>13 DEF JournalPlace, RollbackRaises
  <2>2. Closed' = "unsettled" /\ outcome' \in {"ROLLBACK_FAILED", "EXECUTION_FAILED"}
    BY <1>13 DEF RollbackRaises, CloseTxn, Journal, Finish, Closed, RolledBackAs
  <2>3. QED
    BY <2>1, <2>2 DEF Ends, Transaction!MayClose, Transaction!Answers
<1>14. CASE UndoReturns
  <2>1. /\ Closed = "open" /\ outcome = "none" /\ pc = "undo" /\ why \in Reason
        /\ cur \in recorded /\ recorded \subseteq Steps /\ recorded \subseteq StepNo
    BY <1>1, <1>2, <1>3, <1>14, CommandsOfRun DEF JournalPlace, UndoReturns, UndoneSoFar
  <2>2. CASE Earlier = {}
    <3>1. Closed' = "rolled_back"
          /\ outcome' \in {"none", "PARTIAL_FAILURE", "READBACK_MISMATCH", "CANCELLED",
                          "EXECUTION_FAILED"}
      BY <1>14, <2>1, <2>2 DEF UndoReturns, RolledBack, CloseTxn, Journal, Finish, Closed,
         RolledBackAs, Reason
    <3>2. \A i \in recorded : verdict[<<"undo", i>>] = "result"
      <4>1. \A i \in recorded : i = cur \/ i > cur
        BY <1>1, <2>1, <2>2, WritesByStep DEF Earlier
      <4>2. verdict[<<"undo", cur>>] = "result"
        BY <1>14, <2>1 DEF UndoReturns, Returned, Call, StepCall
      <4>3. QED
        BY <1>1, <2>1, <4>1, <4>2 DEF UndoneSoFar
    <3>3. \A i \in recorded : Undone(i)
      BY <1>1, <2>1, <3>2, CommandsOfRun DEF LinkInv, ResultIsApplied, Undone, StepCall
    <3>4. {j \in StepNo : Undone(j)} = recorded
      BY <1>1, <2>1, <3>3, UndoneIsSent DEF UndoIsBooked
    <3>5. QED
      BY <2>1, <3>1, <3>4 DEF Ends, Transaction!MayClose, Transaction!Answers
  <2>3. CASE Earlier # {}
    BY <1>5, <1>14, <2>3 DEF UndoReturns, UndoNext
  <2>4. QED
    BY <2>2, <2>3
<1>15. CASE Begin \/ MarkPrepared \/ MarkSent \/ Abort
  <2>1. Closed = "open"
    BY <1>1, <1>3, <1>15 DEF Begin, MarkPrepared, MarkSent, Abort, JournalPlace
  <2>2. last' \in {Record("write", "PLANNED"), Record("prepare", "PREPARED"),
                   Record("write", "SENT"), Record("rollback", "SENT")} /\ outcome' = outcome
    BY <1>15 DEF Begin, MarkPrepared, MarkSent, Abort, Journal, Record
  <2>3. QED
    BY <1>4, <2>1, <2>2
<1>16. CASE \/ ReceiveSnapshot \/ CancelApplied \/ AllSent \/ StepCallReturns \/ CreatedReturns
            \/ WriteRaisesInDoubt \/ ReadbackMismatch \/ ReadbackRaises \/ VerifiedThenRollback
            \/ CurrentReturns \/ ResolveReturns
  BY <1>5, <1>16 DEF ReceiveSnapshot, CancelApplied, AllSent, StepCallReturns, CreatedReturns,
     WriteRaisesInDoubt, ReadbackMismatch, ReadbackRaises, VerifiedThenRollback, CurrentReturns,
     ResolveReturns, RollBackApplied, AbortDirectly
<1>17. CASE ~MarkInDoubt /\ (LookMisses \/ StepRaises \/ Unreconciled \/ CurrentRaises)
  BY <1>5, <1>17 DEF LookMisses, StepRaises, Unreconciled, CurrentRaises, StepFails,
     RollBackApplied, AbortDirectly
<1>18. QED
  BY <1>7, <1>8, <1>9, <1>10, <1>11, <1>12, <1>13, <1>14, <1>15, <1>16, <1>17 DEF Handle

\* A run starts as a transaction of its steps of which nothing happened yet.
LEMMA TransactionInit == Init => Transaction!Init
<1> SUFFICES ASSUME Init PROVE Transaction!Init
  OBVIOUS
<1>1. plan \in Plans /\ fate = [c \in Command |-> "unsent"] /\ last = Record("none", "none")
  BY DEF Init, LinkInit, Record
<1>2. \A i \in Steps : WritesOf(i) \subseteq Command /\ WritesOf(i) # {}
  BY <1>1, CommandsOfRun DEF WritesOf
<1>3. \A i \in StepNo : Written(i) = "none"
  BY <1>1, <1>2 DEF Written
<1>4. \A i \in StepNo : ~Undone(i)
  BY <1>1, CommandsOfRun DEF Undone, StepCall
<1>5. Closed = "open"
  BY <1>1 DEF Closed, Record
<1>6. Steps \subseteq StepNo
  BY <1>1, CommandsOfRun
<1>7. [i \in StepNo |-> Written(i)] = [i \in StepNo |-> "none"]
  BY <1>3
<1>8. {i \in StepNo : Undone(i)} = {}
  BY <1>4
<1>9. QED
  BY <1>5, <1>6, <1>7, <1>8 DEF Init, Transaction!Init

\* Every step of the run is a step of the transaction, or leaves it alone.
LEMMA TransactionStep ==
    ASSUME RunInv, TypeInv, OrderInv, [Next]_vars PROVE [Transaction!Next]_(Transaction!vars)
<1>1. plan \in Plans /\ fate \in [Command -> Fate] /\ SideEffect \subseteq Command
  BY LinkAssumption DEF RunInv, LinkInv, LinkTypeOK
<1>2. CASE RecordStep /\ UNCHANGED <<linkVars, intentVars, dawVars>>
  BY <1>2, RecordMaps DEF Transaction!Next
<1>3. CASE Handle /\ ~RecordStep /\ UNCHANGED <<linkVars, intentVars, dawVars>>
  <2>1. UNCHANGED <<plan, recorded, fate>>
    BY <1>3 DEF Handle, ReceiveSnapshot, SnapshotRaises, Reject, CancelBeforeWrite, Begin,
     MarkPrepared,
     CancelOpen, CancelApplied, MarkSent, AllSent, StepCallReturns, CreatedReturns,
     LookMisses, WriteRaisesInDoubt, StepRaises, ReadbackMismatch, Unreconciled, ReadbackRaises,
     VerifiedThenRollback, Commit, CurrentReturns, CurrentRaises, Abort, ResolveReturns,
     ResolveConflicts, UndoReturns, RollbackRaises, RestoredReturns, RestoredRaises,
     StepFails, RollBackApplied, AbortDirectly, MarkInDoubt, RolledBack, UndoNext, ledger,
     linkVars, intentVars
  <2>2. /\ Steps' = Steps
        /\ \A i \in StepNo : Written(i)' = Written(i) /\ (Undone(i)' <=> Undone(i))
    BY <1>1, <2>1, TransactionSees
  <2>3. [i \in StepNo |-> Written(i)]' = [i \in StepNo |-> Written(i)]
    BY <2>2 DEF StepNo
  <2>4. {i \in StepNo : Undone(i)}' = {i \in StepNo : Undone(i)}
    BY <2>2 DEF StepNo
  <2>5. CASE Closed' = Closed /\ outcome' = outcome
    BY <2>1, <2>2, <2>3, <2>4, <2>5 DEF Transaction!vars
  <2>6. CASE outcome = "none" /\ Closed' = Closed /\ outcome' \in Transaction!Answers(Closed)
    <3>1. Transaction!Answer
      BY <2>1, <2>2, <2>3, <2>4, <2>6 DEF Transaction!Answer
    <3>2. QED
      BY <3>1 DEF Transaction!Next
  <2>7. ASSUME NEW c \in {"failed", "kept", "rolled_back", "conflict", "unsettled"},
               Ends(c, {"none"} \cup Transaction!Answers(c)), Transaction!MayClose(c)
        PROVE  [Transaction!Next]_(Transaction!vars)
    <3>1. Transaction!Close(c)
      BY <2>1, <2>2, <2>3, <2>4, <2>7 DEF Transaction!Close, Ends
    <3>2. QED
      BY <3>1 DEF Transaction!Next
  <2>8. QED
    BY <1>3, <2>5, <2>6, <2>7, HandleEnds
<1>4. ASSUME NEW c \in Command, LiveApplies(c) \/ LiveSpoils(c)
      PROVE  [Transaction!Next]_(Transaction!vars)
  <2>1. CASE c \in SideEffect
    <3>1. PICK k \in WriteCall, i \in StepNo : c = <<k, i>>
      BY <1>1, <2>1, WritesByStep
    <3>2. CASE k \in {"write", "fill"}
      BY <1>4, <3>1, <3>2, WriteMaps DEF LiveApplies, LiveSpoils, Apply, Spoil, Ran
    <3>3. CASE k = "undo"
      BY <1>4, <3>1, <3>3, UndoMaps, SpoiltUndoMaps
    <3>4. QED
      BY <3>2, <3>3 DEF WriteCall
  <2>2. CASE c \notin SideEffect
    <3>1. /\ UNCHANGED <<plan, recorded, outcome>> /\ Closed' = Closed
          /\ \A d \in SideEffect : fate'[d] = fate[d]
      BY <1>1, <1>4, <2>2 DEF LiveApplies, LiveSpoils, Apply, Spoil, Run, runVars, intentVars, Closed
    <3>2. QED
      BY <1>1, <3>1, TransactionStays
  <2>3. QED
    BY <2>1, <2>2
<1>5. ASSUME NEW c \in Command, LiveRefuses(c) PROVE [Transaction!Next]_(Transaction!vars)
  <2>1. /\ UNCHANGED <<plan, recorded, outcome>> /\ Closed' = Closed
        /\ \A d \in SideEffect : \A end \in Ran : fate'[d] = end <=> fate[d] = end
    BY <1>1, <1>5 DEF LiveRefuses, Discard, runVars, intentVars, Closed, Ran
  <2>2. QED
    BY <1>1, <2>1, TransactionStays
<1>6. CASE SendCall
  <2>1. /\ Call \in Command /\ verdict[Call] = "none"
        /\ \E f \in {"pending", "untouched"} : fate' = [fate EXCEPT ![Call] = f]
        /\ UNCHANGED <<plan, recorded, outcome>> /\ Closed' = Closed
    BY <1>6, CallIsCommand DEF SendCall, Issue, runVars, intentVars, Closed
  <2>2. fate[Call] = "unsent"
    BY <2>1 DEF RunInv, LinkInv, SentIsKnown
  <2>3. \A d \in SideEffect : \A end \in Ran : fate'[d] = end <=> fate[d] = end
    BY <1>1, <2>1, <2>2 DEF Ran
  <2>4. QED
    BY <1>1, <2>1, <2>3, TransactionStays
<1>7. CASE CallReturns \/ Cancel \/ Crash \/ (\E t \in Track : UserEdits(t)) \/ UNCHANGED vars
  <2>1. UNCHANGED <<plan, recorded, outcome, last, fate>> /\ Closed' = Closed
    BY <1>7 DEF CallReturns, Return, ReturnResult, ReturnRefused, ReturnInDoubt, ReturnFailed,
       Answer, Cancel, Crash, Go, ledger, UserEdits, vars, linkVars, runVars, intentVars, Closed
  <2>2. QED
    BY <1>1, <2>1, TransactionStays
<1>8. QED
  BY <1>2, <1>3, <1>4, <1>5, <1>6, <1>7 DEF Next, Core

\* A run is a transaction of its steps, whatever Live, the user and the connection
\* do: what changes Live does so in the order of the steps and while the
\* transaction is open or in doubt, a transaction is closed once and as it was,
\* and the caller is told what fits.
THEOREM SafeWriteImplementsTransaction == Spec => ImplementsTransaction
<1>1. RunInv /\ TypeInv /\ OrderInv /\ [Next]_vars => [Transaction!Next]_(Transaction!vars)
  BY TransactionStep
<1>2. RunInv /\ TypeInv /\ [Next]_vars => TypeInv'
  BY TypeStep
<1>3. RunInv /\ OrderInv /\ [Next]_vars => OrderInv'
  BY OrderStep
<1>4. Spec => Transaction!Init /\ [][Transaction!Next]_(Transaction!vars)
  BY SafeWriteCorrect, TransactionInit, TypeInit, OrderInit, <1>1, <1>2, <1>3, PTL DEF Spec
<1>5. QED
  BY <1>4 DEF ImplementsTransaction, Transaction!Spec
-----------------------------------------------------------------------------
(* The run comes to an end.                                                *)

\* How far the run is from its end: what a step costs at most, and the places of
\* a rollback, which goes through the recorded steps once more.
Distance ==
    LET ahead == 6 * (MaxSteps + 1 - cur) + MaxSteps + 7 IN
    CASE pc = "snapshot"           -> ahead + 3
      [] pc = "check"              -> ahead + 2
      [] pc = "planned"            -> ahead + 1
      [] pc = "step"               -> ahead
      [] pc = "before"             -> ahead - 1
      [] pc = "write"              -> ahead - 2
      [] pc = "fill"               -> ahead - 3
      [] pc \in {"look", "doubt"}  -> ahead - 4
      [] pc = "created"            -> ahead - 5
      [] pc = "readback"           -> MaxSteps + 6
      [] pc = "current"            -> MaxSteps + 5
      [] pc = "abort"              -> MaxSteps + 4
      [] pc = "resolve"            -> MaxSteps + 3
      [] pc = "undo"               -> cur + 1
      [] pc = "restored"           -> 1
      [] OTHER                     -> 0

\* Sending the call of a place comes before what follows its return.
Unsent == IF Calling /\ verdict[Call] = "none" THEN 1 ELSE 0
ToGo == 2 * Distance + Unsent

Writing == {"step", "before", "write", "fill", "look", "doubt", "created", "readback"}

\* Where the numbers are, by the places they are counted from.
CurInPlan == pc \in Writing \ {"step", "readback"} => cur <= MaxSteps

DistanceFits ==
    /\ Distance \in Nat
    /\ pc \in Writing => Distance >= MaxSteps + 6
    /\ pc \notin Over => Distance > 0

LEMMA DistanceType == TypeOK /\ CurInPlan => DistanceFits
<1> SUFFICES ASSUME TypeOK, CurInPlan
             PROVE  /\ Distance \in Nat
                    /\ pc \in Writing => Distance >= MaxSteps + 6
                    /\ pc \notin Over => Distance > 0
  BY DEF DistanceFits
<1>1. MaxSteps \in Nat /\ cur \in Nat /\ cur >= 1 /\ cur <= MaxSteps + 1
  BY SafeWriteAssumption DEF TypeOK
<1>2. pc \in StepCall \cup RunCall \cup {"check", "planned", "step", "abort", "done", "crashed"}
  BY DEF TypeOK
<1>3. CASE pc \in Writing
  BY <1>1, <1>3 DEF Writing, CurInPlan, Distance, Over
<1>4. CASE pc \in {"snapshot", "check", "planned"}
  BY <1>1, <1>4 DEF Writing, Distance, Over
<1>5. CASE pc \in {"current", "abort", "resolve", "undo", "restored", "done", "crashed"}
  BY <1>1, <1>5 DEF Writing, Distance, Over
<1> QED BY <1>2, <1>3, <1>4, <1>5 DEF StepCall, RunCall, Writing

LEMMA InPlanCur == RunInv /\ TypeOK => CurInPlan
<1> SUFFICES ASSUME RunInv, TypeOK, pc \in InStep PROVE cur <= MaxSteps
  BY DEF CurInPlan, Writing, InStep
<1>1. cur \in 1..Len(plan) /\ Len(plan) \in 1..MaxSteps
  BY SafeWriteAssumption DEF RunInv, WholeSoFar, Steps, TypeOK
<1> QED BY <1>1, SafeWriteAssumption

\* What ends the steps leads to a rollback, or to the end at once.
LEMMA GivesUp ==
    ASSUME DistanceFits, pc \in Writing, pc' \in {"current", "abort", "done"}
    PROVE  Distance' < Distance
<1>1. Distance \in Nat /\ Distance >= MaxSteps + 6 /\ MaxSteps \in Nat
  BY SafeWriteAssumption DEF DistanceFits
<1>2. Distance' <= MaxSteps + 5
  <2>1. CASE pc' = "current"
    BY <1>1, <2>1 DEF Distance
  <2>2. CASE pc' = "abort"
    BY <1>1, <2>2 DEF Distance
  <2>3. CASE pc' = "done"
    BY <1>1, <2>3 DEF Distance
  <2> QED BY <2>1, <2>2, <2>3
<1>3. Distance' \in Int
  BY <1>1 DEF Distance
<1> QED BY <1>1, <1>2, <1>3

\* Nothing is left of a run that has ended.
LEMMA EndIsNearer ==
    ASSUME DistanceFits, pc \notin Over, pc' = "done"
    PROVE  Distance' < Distance
<1>1. Distance' = 0
  BY DEF Distance
<1> QED BY <1>1 DEF DistanceFits

LEMMA HandleCloser ==
    ASSUME RunInv, TypeOK, TypeOK', DistanceFits, CurInPlan, Handle PROVE Distance' < Distance
<1>1. /\ MaxSteps \in Nat /\ cur \in Nat /\ cur >= 1 /\ cur <= MaxSteps + 1
      /\ cur' \in Nat /\ cur' >= 1 /\ cur' <= MaxSteps + 1
  BY SafeWriteAssumption DEF TypeOK
<1>2. ASSUME pc \notin Over, pc' = "done" PROVE Distance' < Distance
  BY <1>2, EndIsNearer
<1>3. ASSUME pc \in Writing, pc' \in {"current", "abort", "done"} PROVE Distance' < Distance
  BY <1>3, GivesUp
<1>4. CASE ReceiveSnapshot \/ Begin \/ MarkPrepared
  <2>1. /\ cur' = cur
        /\ \/ pc = "snapshot" /\ pc' = "check"
           \/ pc = "check" /\ pc' = "planned"
           \/ pc = "planned" /\ pc' = "step"
    BY <1>4 DEF ReceiveSnapshot, Begin, MarkPrepared, Go
  <2> QED BY <1>1, <2>1 DEF Distance
<1>5. CASE SnapshotRaises \/ Reject \/ CancelBeforeWrite \/ CancelOpen \/ ResolveConflicts
           \/ RollbackRaises \/ RestoredReturns \/ RestoredRaises
  <2>1. pc \notin Over /\ pc' = "done"
    BY <1>5 DEF SnapshotRaises, Reject, CancelBeforeWrite, CancelOpen, ResolveConflicts,
                RollbackRaises, RestoredReturns, RestoredRaises, Finish, Over
  <2> QED BY <1>2, <2>1
<1>6. CASE CancelApplied \/ LookMisses \/ StepRaises \/ ReadbackMismatch \/ Unreconciled
           \/ ReadbackRaises \/ VerifiedThenRollback \/ Commit
  <2>1. ASSUME StepFails PROVE pc' \in {"current", "abort", "done"}
    BY <2>1 DEF StepFails, RollBackApplied, MarkInDoubt, AbortDirectly, Go, Finish
  <2>2. pc \in Writing /\ pc' \in {"current", "abort", "done"}
    BY <1>6, <2>1 DEF CancelApplied, LookMisses, StepRaises, ReadbackMismatch, Unreconciled,
         ReadbackRaises, VerifiedThenRollback, Commit, RollBackApplied, MarkInDoubt,
         AbortDirectly, Go, Finish, Writing
  <2> QED BY <1>3, <2>2
<1>7. CASE MarkSent \/ AllSent
  <2>1. /\ cur' = cur /\ pc = "step"
        /\ pc' = "before" \/ pc' = "write" \/ pc' = "readback"
    BY <1>7 DEF MarkSent, AllSent, Go
  <2> QED BY <1>1, <2>1 DEF Distance
<1>8. CASE StepCallReturns \/ WriteRaisesInDoubt
  <2>1. /\ cur' = cur
        /\ \/ pc = "before" /\ pc' = "write"
           \/ pc = "write" /\ (pc' = "fill" \/ pc' = "look" \/ pc' = "doubt")
           \/ pc = "fill" /\ (pc' = "look" \/ pc' = "doubt")
    BY <1>8 DEF StepCallReturns, WriteRaisesInDoubt, CallAfter, Go
  <2> QED BY <1>1, <2>1 DEF Distance
<1>9. CASE RecordStep \/ CreatedReturns
  <2>1. \/ pc = "look" /\ pc' = "created" /\ cur' = cur
        \/ pc = "write" /\ pc' = "created" /\ cur' = cur
        \/ pc \in {"look", "write", "created"} /\ pc' = "step" /\ cur' = cur + 1
    BY <1>9 DEF RecordStep, CreatedReturns, NextStep, Go
  <2> QED BY <1>1, <2>1 DEF Distance
<1>10. CASE CurrentReturns \/ CurrentRaises \/ Abort \/ ResolveReturns
  <2>1. \/ pc = "current" /\ (pc' = "abort" \/ pc' = "done")
        \/ pc = "abort" /\ pc' = "resolve"
        \/ pc = "resolve" /\ pc' = "undo"
    BY <1>10 DEF CurrentReturns, CurrentRaises, Abort, ResolveReturns, MarkInDoubt,
                 AbortDirectly, Go, Finish
  <2> QED BY <1>1, <2>1 DEF Distance
<1>11. CASE UndoReturns
  <2>1. CASE Earlier = {}
    <3>1. pc = "undo" /\ (pc' = "restored" \/ pc' = "done")
      BY <1>11, <2>1 DEF UndoReturns, RolledBack, Go, Finish
    <3> QED BY <1>1, <3>1 DEF Distance
  <2>2. CASE Earlier # {}
    <3>1. pc = "undo" /\ pc' = "undo" /\ cur' = LastOf(Earlier)
      BY <1>11, <2>2 DEF UndoReturns, UndoNext
    <3>2. Earlier \subseteq 1..Len(plan) /\ Len(plan) \in Nat
      BY SafeWriteAssumption DEF Earlier, TypeOK, Steps
    <3>3. cur' < cur
      BY <2>2, <3>1, <3>2, LastExists DEF Earlier
    <3> QED BY <1>1, <3>1, <3>3 DEF Distance
  <2> QED BY <2>1, <2>2
<1> QED BY <1>4, <1>5, <1>6, <1>7, <1>8, <1>9, <1>10, <1>11 DEF Handle

LEMMA ToGoStep ==
    ASSUME RunInv, TypeOK, TypeOK', CurInPlan, DistanceFits, DistanceFits', [Next]_vars
    PROVE  ToGo \in Nat /\ ToGo' <= ToGo /\ (Core \/ Crash => ToGo' < ToGo)
<1>1. Distance \in Nat /\ (pc \notin Over => Distance > 0)
  BY DEF DistanceFits
<1>2. Distance' \in Nat
  BY DEF DistanceFits
<1>u. Unsent \in {0, 1} /\ Unsent' \in {0, 1}
  BY DEF Unsent
<1>n. \A d, e \in Nat, u, v \in {0, 1} :
        2 * d + u \in Nat /\ (d < e => 2 * d + u < 2 * e + v)
  OBVIOUS
<1>3. ToGo \in Nat /\ ToGo' \in Nat /\ (Distance' < Distance => ToGo' < ToGo)
  BY <1>1, <1>2, <1>u, <1>n DEF ToGo
<1>4. ASSUME Handle PROVE ToGo' < ToGo
  <2>1. Distance' < Distance
    BY <1>4, HandleCloser
  <2> QED BY <1>3, <2>1
<1>5. ASSUME Crash PROVE ToGo' < ToGo
  <2>1. pc \notin Over /\ pc' = "crashed"
    BY <1>5 DEF Crash, Go, Over
  <2>2. Distance' = 0
    BY <2>1 DEF Distance
  <2> QED BY <1>1, <1>3, <2>1, <2>2
<1>6. ASSUME UNCHANGED <<pc, cur>> PROVE Distance' = Distance /\ Calling' = Calling /\ Call' = Call
  BY <1>6 DEF Distance, Calling, Call
<1>7. ASSUME SendCall PROVE ToGo' < ToGo
  <2>1. /\ UNCHANGED <<pc, cur>> /\ Calling /\ verdict[Call] = "none"
        /\ verdict' = [verdict EXCEPT ![Call] = "waiting"]
    BY <1>7 DEF SendCall, Issue, runVars
  <2>2. verdict'[Call] = "waiting"
    BY <2>1, CallIsCommand DEF TypeOK, LinkTypeOK
  <2>3. ToGo = 2 * Distance + 1 /\ ToGo' = 2 * Distance
    BY <1>1, <1>6, <2>1, <2>2 DEF ToGo, Unsent
  <2> QED BY <1>1, <2>3
<1>8. ASSUME CallReturns PROVE ToGo' = ToGo
  <2>1. /\ UNCHANGED <<pc, cur>> /\ Calling /\ verdict[Call] = "waiting"
        /\ \E v \in Verdict \ {"none"} : verdict' = [verdict EXCEPT ![Call] = v]
    BY <1>8 DEF CallReturns, Return, ReturnResult, ReturnRefused, ReturnInDoubt, ReturnFailed,
                Answer, Verdict, runVars
  <2>2. verdict'[Call] # "none"
    BY <2>1, CallIsCommand DEF TypeOK, LinkTypeOK
  <2> QED BY <1>6, <2>1, <2>2 DEF ToGo, Unsent
<1>9. ASSUME UNCHANGED <<pc, cur, verdict>> PROVE ToGo' = ToGo
  BY <1>6, <1>9 DEF ToGo, Unsent
<1>10. ASSUME Cancel \/ (\E c \in Command : LiveApplies(c) \/ LiveSpoils(c) \/ LiveRefuses(c))
              \/ (\E t \in Track : UserEdits(t)) \/ UNCHANGED vars
       PROVE  UNCHANGED <<pc, cur, verdict>>
  BY <1>10 DEF Cancel, LiveApplies, LiveSpoils, LiveRefuses, UserEdits, Apply, Spoil, Run, Discard,
                  linkVars, runVars, vars
<1> QED BY <1>3, <1>4, <1>5, <1>7, <1>8, <1>9, <1>10 DEF Next, Core

\* No run goes on for ever: what is left of it is a number that every step of
\* SafeWriteExecutor makes smaller, its rollback included, and nothing else makes
\* larger: not Live, not the user, not a cancel. A run whose intents have n steps
\* at most is over after 14n + 21 of them.
THEOREM SafeWriteRunsDown ==
    Spec => [][/\ ToGo \in Nat /\ ToGo' <= ToGo
               /\ Core \/ Crash => ToGo' < ToGo]_vars
<1>1. RunInv /\ TypeOK /\ TypeOK' /\ CurInPlan /\ DistanceFits /\ DistanceFits' /\ [Next]_vars =>
         [/\ ToGo \in Nat /\ ToGo' <= ToGo
          /\ Core \/ Crash => ToGo' < ToGo]_vars
  BY ToGoStep
<1> QED BY <1>1, InPlanCur, DistanceType, SafeWriteCorrect, SafeWriteTyped, PTL DEF Spec
=============================================================================
