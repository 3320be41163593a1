-------------------------- MODULE AgentTransaction --------------------------
(***************************************************************************)
(* What SafeWriteExecutor.run and its TransactionManager promise for the   *)
(* steps of one intent: when Live may change, how the journal closes the   *)
(* transaction, and what the caller is told.                               *)
(*                                                                         *)
(* This is the abstract side: no commands, replies, snapshots or journal   *)
(* records. SafeWrite implements it; the Music Studio relies on it.        *)
(***************************************************************************)
EXTENDS Naturals

CONSTANT Step \* the numbers of steps

VARIABLES
    todo,    \* the steps of the intent
    written, \* written[i]: how much of the writes of step i is in Live
    booked,  \* the steps recorded for a rollback
    undone,  \* the steps whose inverse Live carried out
    closed,  \* how the journal closes the transaction
    answer   \* what run() returned

vars == <<todo, written, booked, undone, closed, answer>>

Init ==
    /\ todo \subseteq Step
    /\ written = [i \in Step |-> "none"]
    /\ booked = {} /\ undone = {}
    /\ closed = "open" /\ answer = "none"

Before(i) == {j \in todo : j < i}

\* Live may still change: the run goes on, or what it sent is in doubt. A run that
\* has answered without closing its transaction has sent nothing.
Unsettled == closed = "unsettled" \/ (closed = "open" /\ answer = "none")

\* A write of step i takes effect: one step at a time, in order, and none after
\* an inverse.
Write(i) ==
    /\ Unsettled
    /\ booked = Before(i) /\ undone = {}
    /\ \/ written[i] = "none" /\ written' \in {[written EXCEPT ![i] = w] : w \in {"some", "whole"}}
       \/ written[i] = "some" /\ written' = [written EXCEPT ![i] = "whole"]
    /\ UNCHANGED <<todo, booked, undone, closed, answer>>

\* Step i is recorded once it is in Live as a whole.
Book(i) ==
    /\ closed = "open" /\ answer = "none"
    /\ booked = Before(i) /\ undone = {} /\ written[i] = "whole"
    /\ booked' = booked \cup {i}
    /\ UNCHANGED <<todo, written, undone, closed, answer>>

\* The inverse of a recorded step takes effect, the last step's first.
Undo(i) ==
    /\ Unsettled
    /\ i \notin undone
    /\ \A j \in booked : j > i => j \in undone
    /\ undone' = undone \cup {i}
    /\ UNCHANGED <<todo, written, booked, closed, answer>>

\* When the transaction may be closed as c.
MayClose(c) ==
    CASE c = "failed"      -> \A i \in todo : written[i] = "none"
      [] c = "kept"        -> booked = todo /\ undone = {}
      [] c = "rolled_back" -> undone = booked
      [] c = "conflict"    -> undone = {}
      [] c = "unsettled"   -> TRUE

\* What the caller may be told of a transaction closed as c.
Answers(c) ==
    CASE c = "open"        -> {"PRECONDITION_FAILED", "CANCELLED", "EXECUTION_FAILED"}
      [] c = "failed"      -> {"EXECUTION_FAILED"}
      [] c = "kept"        -> {"KEEP"}
      [] c = "rolled_back" -> {"PARTIAL_FAILURE", "READBACK_MISMATCH", "ROLLBACK", "CANCELLED",
                               "ROLLBACK_FAILED", "EXECUTION_FAILED"}
      [] c = "conflict"    -> {"ROLLBACK_FAILED", "EXECUTION_FAILED"}
      [] c = "unsettled"   -> {"IN_DOUBT", "ROLLBACK_FAILED", "EXECUTION_FAILED"}

Close(c) ==
    /\ closed = "open" /\ answer = "none"
    /\ MayClose(c)
    /\ closed' = c
    /\ answer' \in {"none"} \cup Answers(c)
    /\ UNCHANGED <<todo, written, booked, undone>>

Answer ==
    /\ answer = "none"
    /\ answer' \in Answers(closed)
    /\ UNCHANGED <<todo, written, booked, undone, closed>>

Next ==
    \/ \E i \in todo : Write(i) \/ Book(i)
    \/ \E i \in booked : Undo(i)
    \/ \E c \in {"failed", "kept", "rolled_back", "conflict", "unsettled"} : Close(c)
    \/ Answer

Spec == Init /\ [][Next]_vars
=============================================================================
