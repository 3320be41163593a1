--------------------------- MODULE StudioJobsProofs ---------------------------
(***************************************************************************)
(* The jobs of the Music Studio, for every set of jobs, requests and keys, *)
(* any number of candidates and of restarts.                               *)
(***************************************************************************)
EXTENDS StudioJobs, FiniteSetTheorems, TLAPS

-----------------------------------------------------------------------------
(* The invariant.                                                          *)

Single(t) == Pending(t) /\ Tail(todo[t]) = <<>>

\* The updates a worker may be making at each place.
Shape ==
    \A j \in Job :
        /\ at[j] \in {"new", "start", "select", "health", "loop", "generate", "register",
                      "progress", "end"}
        /\ at[j] \in {"new", "start", "generate", "register", "progress"} => todo[j] = <<>>
        /\ at[j] = "select" =>
              todo[j] \in {<<>>, <<Emit("QUEUED"), Emit("PROVISIONING")>>, <<Emit("PROVISIONING")>>}
        /\ at[j] = "health" => todo[j] \in {<<>>, <<Touch>>}
        /\ at[j] = "loop" =>
              todo[j] \in {<<>>, <<Emit("RUNNING")>>, <<Count(Cardinality(candidates[j]))>>}
        /\ at[j] = "end" =>
              todo[j] \in {<<>>, <<Put("BLOCKED")>>, <<Put("FAILED")>>, <<Emit("SUCCEEDED")>>,
                           <<Emit("REVIEW_REQUIRED"), Emit("SUCCEEDED")>>}

\* The updates a request may be making.
Orders ==
    \A q \in Request :
        /\ at[q] \in {"new", "create", "announce", "launch", "flag", "end"}
        /\ at[q] # "end" => todo[q] = <<>>
        /\ todo[q] \in {<<>>, <<Emit("CANCEL_REQUESTED"), Emit("CANCELLED")>>, <<Emit("CANCELLED")>>}

Phases ==
    \A t \in Thread :
        /\ todo[t] = <<>> => phase[t] = "check"
        /\ phase[t] = "write" => snap[t].status # "absent"
        /\ phase[t] = "event" => "status" \in DOMAIN Update(t).set

\* Who works on which job, and under which key.
Requests ==
    \A q \in Request :
        /\ at[q] = "new" => serves[q] = {} /\ wants[q] = {}
        /\ at[q] = "create" => wants[q] # {} /\ serves[q] = {}
        /\ at[q] \in {"announce", "launch"} =>
              wants[q] # {} /\ \E j \in Job : serves[q] = {j} /\ Present(j) /\ at[j] = "new"
        /\ at[q] = "flag" \/ Pending(q) => wants[q] = {} /\ \E j \in Job : serves[q] = {j} /\ Present(j)
        /\ Pending(q) => serves[q] \subseteq flagged
        /\ wants[q] # {} => \E k \in Key \cup {NoKey} : wants[q] = {k}
        /\ \A k \in Key, j \in Job : wants[q] = {k} /\ j \in serves[q] => Present(j) /\ key[j] = k

Owners ==
    /\ \A j \in Job : at[j] # "new" => Present(j)
    /\ \A p, q \in Request :
          at[p] \in {"announce", "launch"} /\ at[q] \in {"announce", "launch"} /\ serves[p] = serves[q]
          => p = q
    /\ \A i, j \in Job : Present(i) /\ Present(j) /\ key[i] = key[j] /\ key[i] \in Key => i = j

\* A provider call begun after the cancel is the last one.
Late ==
    \A j \in Job :
        \/ late[j] = 0
        \/ late[j] = 1 /\ (at[j] = "end" \/ (j \in flagged /\ at[j] \notin {"new", "generate"}))

\* A job in a final status has a worker with nothing left to write.
Rest ==
    \A j \in Job :
        /\ row[j].status \in Settled =>
              at[j] = "end" /\ (todo[j] = <<>> \/ (Single(j) /\ phase[j] = "event"))
        /\ at[j] # "end" => snap[j].status \notin Settled
        /\ last[j] \in Settled => at[j] = "end" /\ todo[j] = <<>>

Finishing(j) ==
    at[j] = "end" /\ todo[j] \in {<<Emit("SUCCEEDED")>>, <<Emit("REVIEW_REQUIRED"), Emit("SUCCEEDED")>>}

\* Once the loop is over the count is right, in the row and in every copy of it
\* that may still be written.
Counts ==
    \A j \in Job :
        /\ at[j] = "loop" /\ todo[j] = <<>> /\ ordinal[j] > 1 /\ j \notin flagged =>
              row[j].completed = Cardinality(candidates[j])
        /\ at[j] = "loop" /\ todo[j] = <<Emit("RUNNING")>> => ordinal[j] = 1
        /\ at[j] \in {"new", "start", "select", "health"} => ordinal[j] = 1
        /\ at[j] \in {"generate", "register", "progress"} => ordinal[j] <= Requested
        /\ Finishing(j) =>
              /\ candidates[j] # {} /\ row[j].completed = Cardinality(candidates[j])
              /\ phase[j] = "write" => snap[j].completed = Cardinality(candidates[j])
              /\ \A q \in Request : serves[q] = {j} /\ phase[q] = "write" =>
                    snap[q].completed = Cardinality(candidates[j])

\* What is about to be announced is stored, while nobody cancels the job.
Announced ==
    \A j \in Job : (\A q \in Request : ~Cancels(q, j)) /\ phase[j] = "event" =>
        row[j].status = Update(j).set.status

\* Every thread has a list of updates.
Threads == todo = [t \in Thread |-> todo[t]]

StudioInv ==
    /\ TypeOK /\ Threads /\ Shape /\ Orders /\ Phases /\ Requests /\ Owners /\ Late /\ Rest /\ Counts
    /\ Announced /\ SucceededIsComplete /\ AnnouncedEndIsStored

-----------------------------------------------------------------------------
(* Lists of updates, and what an update does to a row.                     *)

LEMMA OneUpdate ==
    ASSUME NEW u
    PROVE  /\ Head(<<u>>) = u /\ Tail(<<u>>) = <<>> /\ <<u>> # <<>>
           /\ \A v : <<u>> = <<v>> => u = v
    BY SMT

LEMMA TwoUpdates ==
    ASSUME NEW u, NEW v
    PROVE  /\ Head(<<u, v>>) = u /\ Tail(<<u, v>>) = <<v>> /\ <<u, v>> # <<>>
           /\ \A w : <<u, v>> # <<w>>
           /\ \A w, x : <<u, v>> = <<w, x>> => u = w /\ v = x
    BY SMT

LEMMA FirstOfOne ==
    ASSUME NEW t, NEW u, todo[t] = <<u>>
    PROVE  Update(t) = u /\ Tail(todo[t]) = <<>>
    BY OneUpdate DEF Update

LEMMA FirstOfTwo ==
    ASSUME NEW t, NEW u, NEW v, todo[t] = <<u, v>>
    PROVE  Update(t) = u /\ Tail(todo[t]) = <<v>>
    BY TwoUpdates DEF Update

LEMMA UpdateColumns ==
    ASSUME NEW s, NEW n
    PROVE  /\ Emit(s).set = [status |-> s] /\ Put(s).set = [status |-> s]
           /\ Count(n).set = [completed |-> n] /\ Touch.set = <<>>
    BY DEF Emit, Put, Count, Touch

LEMMA ColumnNames ==
    ASSUME NEW s, NEW n
    PROVE  /\ "status" \in DOMAIN [status |-> s] /\ [status |-> s].status = s
           /\ "status" \notin DOMAIN [completed |-> n]
           /\ "status" \notin DOMAIN <<>>
    BY SMT

LEMMA MergeStatus ==
    ASSUME NEW r \in Row, NEW s \in JobStatus
    PROVE  /\ Merge(r, [status |-> s]) \in Row
           /\ Merge(r, [status |-> s]).status = s
           /\ Merge(r, [status |-> s]).completed = r.completed
    BY DEF Merge, Row

LEMMA MergeCount ==
    ASSUME NEW r \in Row, NEW n \in 0..Requested
    PROVE  /\ Merge(r, [completed |-> n]) \in Row
           /\ Merge(r, [completed |-> n]).status = r.status
           /\ Merge(r, [completed |-> n]).completed = n
    BY DEF Merge, Row

LEMMA MergeNothing ==
    ASSUME NEW r \in Row
    PROVE  Merge(r, <<>>) = r
    BY DEF Merge, Row

LEMMA CountedCandidates ==
    ASSUME StudioAssumption, TypeOK, NEW j \in Job
    PROVE  Cardinality(candidates[j]) \in 0..Requested
<1>1. Requested \in Nat /\ candidates[j] \in SUBSET (1..Requested)
    BY DEF StudioAssumption, TypeOK
<1>2. IsFiniteSet(1..Requested) /\ Cardinality(1..Requested) = Requested
    BY <1>1, FS_Interval
<1> QED BY <1>1, <1>2, FS_Subset, FS_CardinalityType

-----------------------------------------------------------------------------
(* What a thread may be writing, read off the shape of its list.           *)

WorkerStatus == {"QUEUED", "PROVISIONING", "RUNNING", "REVIEW_REQUIRED", "BLOCKED", "FAILED",
                 "SUCCEEDED"}

\* The first update of thread t sets the status to s.
Sets(t, s) == Update(t).set = [status |-> s]

Remaining(t) == Tail(todo[t])

LEMMA EmitsOne ==
    ASSUME NEW t, NEW s, todo[t] = <<Emit(s)>>
    PROVE  Sets(t, s) /\ Remaining(t) = <<>> /\ Update(t) = Emit(s)
    BY FirstOfOne, UpdateColumns DEF Sets, Remaining

LEMMA PutsOne ==
    ASSUME NEW t, NEW s, todo[t] = <<Put(s)>>
    PROVE  Sets(t, s) /\ Remaining(t) = <<>> /\ Update(t) = Put(s)
    BY FirstOfOne, UpdateColumns DEF Sets, Remaining

LEMMA EmitsTwo ==
    ASSUME NEW t, NEW s, NEW r, todo[t] = <<Emit(s), Emit(r)>>
    PROVE  Sets(t, s) /\ Remaining(t) = <<Emit(r)>> /\ Update(t) = Emit(s)
<1>1. Update(t) = Emit(s) /\ Tail(todo[t]) = <<Emit(r)>>
    BY FirstOfTwo
<1> QED BY <1>1, UpdateColumns DEF Sets, Remaining

LEMMA WorkerUpdate ==
    ASSUME Shape, NEW j \in Job, Pending(j)
    PROVE  \/ /\ at[j] = "select"
              /\ \/ Sets(j, "QUEUED") /\ Remaining(j) = <<Emit("PROVISIONING")>>
                 \/ Sets(j, "PROVISIONING") /\ Remaining(j) = <<>>
           \/ at[j] = "health" /\ Update(j) = Touch /\ Remaining(j) = <<>>
           \/ /\ at[j] = "loop" /\ Sets(j, "RUNNING") /\ Remaining(j) = <<>>
              /\ todo[j] = <<Emit("RUNNING")>>
           \/ at[j] = "loop" /\ Update(j) = Count(Cardinality(candidates[j])) /\ Remaining(j) = <<>>
           \/ /\ at[j] = "end"
              /\ \/ Sets(j, "BLOCKED") /\ Remaining(j) = <<>>
                 \/ Sets(j, "FAILED") /\ Remaining(j) = <<>>
                 \/ /\ Sets(j, "SUCCEEDED") /\ Remaining(j) = <<>>
                    /\ todo[j] = <<Emit("SUCCEEDED")>>
                 \/ /\ Sets(j, "REVIEW_REQUIRED") /\ Remaining(j) = <<Emit("SUCCEEDED")>>
                    /\ todo[j] = <<Emit("REVIEW_REQUIRED"), Emit("SUCCEEDED")>>
<1>1. /\ at[j] \in {"new", "start", "generate", "register", "progress"} => todo[j] = <<>>
      /\ at[j] \in {"new", "start", "select", "health", "loop", "generate", "register",
                    "progress", "end"}
    BY DEF Shape
<1>2. todo[j] # <<>>
    BY DEF Pending
<1>3. CASE at[j] = "select"
    <2>1. \/ todo[j] = <<Emit("QUEUED"), Emit("PROVISIONING")>>
          \/ todo[j] = <<Emit("PROVISIONING")>>
        BY <1>2, <1>3 DEF Shape
    <2>2. CASE todo[j] = <<Emit("QUEUED"), Emit("PROVISIONING")>>
        BY <2>2, <1>3, EmitsTwo
    <2>3. CASE todo[j] = <<Emit("PROVISIONING")>>
        BY <2>3, <1>3, EmitsOne
    <2> QED BY <2>1, <2>2, <2>3
<1>4. CASE at[j] = "health"
    <2>1. todo[j] = <<Touch>>
        BY <1>2, <1>4 DEF Shape
    <2> QED BY <2>1, <1>4, FirstOfOne DEF Remaining
<1>5. CASE at[j] = "loop"
    <2>1. todo[j] = <<Emit("RUNNING")>> \/ todo[j] = <<Count(Cardinality(candidates[j]))>>
        BY <1>2, <1>5 DEF Shape
    <2>2. CASE todo[j] = <<Emit("RUNNING")>>
        BY <2>2, <1>5, EmitsOne
    <2>3. CASE todo[j] = <<Count(Cardinality(candidates[j]))>>
        BY <2>3, <1>5, FirstOfOne DEF Remaining
    <2> QED BY <2>1, <2>2, <2>3
<1>6. CASE at[j] = "end"
    <2>1. \/ todo[j] = <<Put("BLOCKED")>> \/ todo[j] = <<Put("FAILED")>>
          \/ todo[j] = <<Emit("SUCCEEDED")>>
          \/ todo[j] = <<Emit("REVIEW_REQUIRED"), Emit("SUCCEEDED")>>
        BY <1>2, <1>6 DEF Shape
    <2>2. CASE todo[j] = <<Put("BLOCKED")>>
        BY <2>2, <1>6, PutsOne
    <2>3. CASE todo[j] = <<Put("FAILED")>>
        BY <2>3, <1>6, PutsOne
    <2>4. CASE todo[j] = <<Emit("SUCCEEDED")>>
        BY <2>4, <1>6, EmitsOne
    <2>5. CASE todo[j] = <<Emit("REVIEW_REQUIRED"), Emit("SUCCEEDED")>>
        BY <2>5, <1>6, EmitsTwo
    <2> QED BY <2>1, <2>2, <2>3, <2>4, <2>5
<1> QED BY <1>1, <1>2, <1>3, <1>4, <1>5, <1>6

LEMMA RequestUpdate ==
    ASSUME Orders, NEW q \in Request, Pending(q)
    PROVE  /\ at[q] = "end"
           /\ \/ Sets(q, "CANCEL_REQUESTED") /\ Remaining(q) = <<Emit("CANCELLED")>>
              \/ Sets(q, "CANCELLED") /\ Remaining(q) = <<>>
           /\ ~Update(q).guarded
<1>1. \/ todo[q] = <<Emit("CANCEL_REQUESTED"), Emit("CANCELLED")>>
      \/ todo[q] = <<Emit("CANCELLED")>>
    BY DEF Orders, Pending
<1>2. ~Emit("CANCEL_REQUESTED").guarded /\ ~Emit("CANCELLED").guarded
    BY DEF Emit
<1>3. at[q] = "end"
    BY DEF Orders, Pending
<1>4. CASE todo[q] = <<Emit("CANCEL_REQUESTED"), Emit("CANCELLED")>>
    <2>1. Sets(q, "CANCEL_REQUESTED") /\ Remaining(q) = <<Emit("CANCELLED")>>
          /\ Update(q) = Emit("CANCEL_REQUESTED")
        BY <1>4, EmitsTwo
    <2> QED BY <2>1, <1>2, <1>3
<1>5. CASE todo[q] = <<Emit("CANCELLED")>>
    <2>1. Sets(q, "CANCELLED") /\ Remaining(q) = <<>> /\ Update(q) = Emit("CANCELLED")
        BY <1>5, EmitsOne
    <2> QED BY <2>1, <1>2, <1>3
<1> QED BY <1>1, <1>4, <1>5

-----------------------------------------------------------------------------
(* A thread drops its first update.                                        *)

DropsOf(t) == todo' = [todo EXCEPT ![t] = Tail(@)]

LEMMA DropTypes ==
    ASSUME Threads, NEW t \in Thread, DropsOf(t)
    PROVE  /\ Threads' /\ todo'[t] = Remaining(t)
           /\ \A u \in Thread : u # t => todo'[u] = todo[u]
    BY DEF Threads, DropsOf, Remaining

LEMMA WorkerDrops ==
    ASSUME StudioAssumption, Threads, Shape, Orders, NEW j \in Job, Pending(j), DropsOf(j),
           UNCHANGED <<at, candidates>>
    PROVE  /\ Shape' /\ Orders'
           /\ \A i \in Job : Finishing(i)' => Finishing(i)
           /\ at[j] = "loop" => todo'[j] = <<>>
           /\ \A q \in Request : todo'[q] = todo[q]
<1>1. j \in Thread /\ \A q \in Request : q # j /\ q \in Thread
    BY DEF StudioAssumption, Thread
<1>2. /\ todo'[j] = Remaining(j)
      /\ \A u \in Thread : u # j => todo'[u] = todo[u]
    BY <1>1, DropTypes
<1>3. Orders'
    BY <1>1, <1>2 DEF Orders
<1>4. \/ at[j] = "select" /\ todo'[j] \in {<<>>, <<Emit("PROVISIONING")>>}
      \/ at[j] \in {"health", "loop"} /\ todo'[j] = <<>>
      \/ at[j] = "end" /\ todo'[j] = <<>>
      \/ at[j] = "end" /\ todo'[j] = <<Emit("SUCCEEDED")>> /\ Finishing(j)
    BY <1>2, WorkerUpdate DEF Finishing
<1>5. Shape'
    <2> SUFFICES ASSUME NEW i \in Job
                 PROVE  Shape!(i)'
        BY DEF Shape
    <2>1. CASE i = j
        BY <1>4, <2>1
    <2>2. CASE i # j
        BY <1>2, <2>2 DEF Shape, Thread
    <2> QED BY <2>1, <2>2
<1>6. \A i \in Job : Finishing(i)' => Finishing(i)
    <2> SUFFICES ASSUME NEW i \in Job, Finishing(i)'
                 PROVE  Finishing(i)
        OBVIOUS
    <2>1. CASE i = j
        <3>1. at[j] = "end" /\ todo'[j] # <<>>
            BY <2>1, OneUpdate, TwoUpdates DEF Finishing
        <3> QED BY <3>1, <1>4, <2>1
    <2>2. CASE i # j
        BY <1>2, <2>2 DEF Finishing, Thread
    <2> QED BY <2>1, <2>2
<1>7. at[j] = "loop" => todo'[j] = <<>>
    BY <1>4
<1> QED BY <1>1, <1>2, <1>3, <1>5, <1>6, <1>7

LEMMA RequestDrops ==
    ASSUME StudioAssumption, Threads, Shape, Orders, NEW q \in Request, Pending(q), DropsOf(q),
           UNCHANGED <<at, candidates>>
    PROVE  /\ Shape' /\ Orders'
           /\ \A i \in Job : todo'[i] = todo[i] /\ (Finishing(i)' => Finishing(i))
           /\ \A p \in Request : Pending(p)' => Pending(p)
<1>1. q \in Thread /\ \A i \in Job : q # i /\ i \in Thread
    BY DEF StudioAssumption, Thread
<1>2. /\ todo'[q] = Remaining(q)
      /\ \A u \in Thread : u # q => todo'[u] = todo[u]
    BY <1>1, DropTypes
<1>3. \A i \in Job : todo'[i] = todo[i]
    BY <1>1, <1>2
<1>4. Shape'
    BY <1>3 DEF Shape
<1>5. Orders'
    <2> SUFFICES ASSUME NEW p \in Request
                 PROVE  Orders!(p)'
        BY DEF Orders
    <2>1. CASE p = q
        BY <1>2, <2>1, RequestUpdate
    <2>2. CASE p # q
        BY <1>2, <2>2 DEF Orders, Thread
    <2> QED BY <2>1, <2>2
<1>6. \A p \in Request : Pending(p)' => Pending(p)
    BY <1>2 DEF Pending, Thread
<1>7. \A i \in Job : Finishing(i)' => Finishing(i)
    BY <1>3 DEF Finishing
<1> QED BY <1>3, <1>4, <1>5, <1>6, <1>7

-----------------------------------------------------------------------------
(* The store steps of a worker.                                            *)

\* A worker with an update to make is at work on a job that is not finished,
\* unless the event of its last update is all that is left.
LEMMA BusyWorker ==
    ASSUME StudioInv, NEW j \in Job, Pending(j)
    PROVE  /\ Present(j) /\ last[j] \notin Settled
           /\ row[j].status \in Settled => phase[j] = "event" /\ Remaining(j) = <<>>
           /\ at[j] \in {"select", "health", "loop", "end"}
<1>1. at[j] \in {"select", "health", "loop", "end"}
    BY WorkerUpdate DEF StudioInv
<1>2. Present(j)
    BY <1>1 DEF StudioInv, Owners
<1>3. /\ last[j] \notin Settled
      /\ row[j].status \in Settled => phase[j] = "event" /\ Remaining(j) = <<>>
    BY DEF StudioInv, Rest, Pending, Single, Remaining
<1> QED BY <1>1, <1>2, <1>3

LEMMA CheckCancelledStep ==
    ASSUME StudioAssumption, StudioInv, NEW j \in Job, CheckCancelled(j)
    PROVE  StudioInv'
<1>1. /\ Pending(j) /\ phase[j] = "check" /\ j \in Thread
      /\ UNCHANGED <<tables, flagged, at, snap, ordinal, serves, wants, late, restarts>>
      /\ \/ j \in flagged /\ DropsOf(j) /\ phase' = [phase EXCEPT ![j] = "check"]
         \/ j \notin flagged /\ phase' = [phase EXCEPT ![j] = "read"] /\ UNCHANGED todo
    BY DEF CheckCancelled, Drop, Target, DropsOf, Thread
<1>2. /\ \A q \in Request : todo'[q] = todo[q]
      /\ Shape' /\ Orders' /\ Threads'
      /\ \A i \in Job : Finishing(i)' => Finishing(i)
      /\ at[j] = "loop" => j \in flagged \/ todo'[j] # <<>>
      /\ todo'[j] = todo[j] \/ (phase'[j] = "check" /\ (at[j] = "loop" => todo'[j] = <<>>))
      /\ todo'[j] = <<>> => phase'[j] = "check"
      /\ \A t \in Thread : t # j => todo'[t] = todo[t] /\ phase'[t] = phase[t]
    <2>1. CASE j \in flagged /\ DropsOf(j) /\ phase' = [phase EXCEPT ![j] = "check"]
        <3>1. Threads' /\ \A t \in Thread : t # j => todo'[t] = todo[t]
            BY <1>1, <2>1, DropTypes DEF StudioInv
        <3>2. /\ Shape' /\ Orders'
              /\ \A i \in Job : Finishing(i)' => Finishing(i)
              /\ at[j] = "loop" => todo'[j] = <<>>
              /\ \A q \in Request : todo'[q] = todo[q]
            BY <1>1, <2>1, WorkerDrops DEF StudioInv, tables
        <3>3. phase'[j] = "check" /\ \A t \in Thread : t # j => phase'[t] = phase[t]
            BY <1>1, <2>1 DEF StudioInv, TypeOK
        <3> QED BY <2>1, <3>1, <3>2, <3>3
    <2>2. CASE j \notin flagged /\ phase' = [phase EXCEPT ![j] = "read"] /\ UNCHANGED todo
        <3>1. Threads' /\ Shape' /\ Orders'
            BY <1>1, <2>2 DEF StudioInv, Threads, Shape, Orders, tables
        <3>2. \A i \in Job : Finishing(i)' => Finishing(i)
            BY <1>1, <2>2 DEF Finishing
        <3>3. todo'[j] # <<>>
            BY <1>1, <2>2 DEF Pending
        <3>4. \A t \in Thread : t # j => phase'[t] = phase[t]
            BY <1>1, <2>2 DEF StudioInv, TypeOK
        <3> QED BY <2>2, <3>1, <3>2, <3>3, <3>4
    <2> QED BY <1>1, <2>1, <2>2
<1>3. phase'[j] \in {"check", "read"}
    BY <1>1 DEF StudioInv, TypeOK
<1>4. TypeOK'
    BY <1>1 DEF StudioInv, TypeOK, tables
<1>5. Phases'
    BY <1>1, <1>2, <1>3 DEF StudioInv, Phases, Update
<1>6. Requests'
    BY <1>1, <1>2 DEF StudioInv, Requests, Pending, Present, tables
<1>7. Owners' /\ Late' /\ SucceededIsComplete' /\ AnnouncedEndIsStored'
    BY <1>1 DEF StudioInv, Owners, Late, SucceededIsComplete, AnnouncedEndIsStored, Cancels,
                Present, tables
<1>8. Rest'
    <2> SUFFICES ASSUME NEW i \in Job
                 PROVE  Rest!(i)'
        BY DEF Rest
    <2>1. CASE i = j
        BY <1>1, <2>1, BusyWorker DEF StudioInv, Rest, tables
    <2>2. CASE i # j
        BY <1>1, <1>2, <2>2 DEF StudioInv, Rest, Single, Pending, tables, Thread
    <2> QED BY <2>1, <2>2
<1>9. Counts'
    <2> SUFFICES ASSUME NEW i \in Job
                 PROVE  Counts!(i)'
        BY DEF Counts
    <2>1. \A q \in Request : phase'[q] = phase[q]
        BY <1>1, <1>2 DEF StudioAssumption, Thread
    <2>2. CASE i = j
        BY <1>1, <1>2, <1>3, <2>1, <2>2 DEF StudioInv, Counts, tables
    <2>3. CASE i # j
        BY <1>1, <1>2, <2>1, <2>3 DEF StudioInv, Counts, tables, Thread
    <2> QED BY <2>2, <2>3
<1>10. Announced'
    BY <1>1, <1>2, <1>3 DEF StudioInv, Announced, Cancels, Update, Thread, tables
<1> QED BY <1>2, <1>4, <1>5, <1>6, <1>7, <1>8, <1>9, <1>10 DEF StudioInv

LEMMA WorkerReadStep ==
    ASSUME StudioAssumption, StudioInv, NEW j \in Job, ReadRow(j)
    PROVE  StudioInv'
<1>1. /\ Pending(j) /\ phase[j] \in {"check", "read"} /\ j \in Thread
      /\ snap' = [snap EXCEPT ![j] = row[j]]
      /\ phase' = [phase EXCEPT ![j] = "write"]
      /\ UNCHANGED <<tables, flagged, at, todo, ordinal, serves, wants, late, restarts>>
    BY DEF ReadRow, Target, Thread
<1>2. /\ snap'[j] = row[j] /\ phase'[j] = "write"
      /\ \A t \in Thread : t # j => snap'[t] = snap[t] /\ phase'[t] = phase[t]
    BY <1>1 DEF StudioInv, TypeOK
<1>3. Present(j) /\ row[j].status \notin Settled
    BY <1>1, BusyWorker
<1>4. \A q \in Request : phase'[q] = phase[q] /\ snap'[q] = snap[q]
    BY <1>2 DEF StudioAssumption, Thread
<1>5. TypeOK'
    BY <1>1 DEF StudioInv, TypeOK, tables
<1>6. Threads' /\ Shape' /\ Orders'
    BY <1>1 DEF StudioInv, Threads, Shape, Orders, tables
<1>7. Phases'
    BY <1>1, <1>2, <1>3 DEF StudioInv, Phases, Update, Present, Pending
<1>8. Requests' /\ Owners' /\ Late' /\ SucceededIsComplete' /\ AnnouncedEndIsStored'
    <2>1. Requests'
        BY <1>1 DEF StudioInv, Requests, Pending, Present, tables
    <2>2. Owners' /\ Late' /\ SucceededIsComplete' /\ AnnouncedEndIsStored'
        BY <1>1 DEF StudioInv, Owners, Late, SucceededIsComplete, AnnouncedEndIsStored, Cancels,
                    Present, tables
    <2> QED BY <2>1, <2>2
<1>9. Rest'
    BY <1>1, <1>2, <1>3 DEF StudioInv, Rest, Single, Pending, tables, Thread
<1>10. Counts'
    <2> SUFFICES ASSUME NEW i \in Job
                 PROVE  Counts!(i)'
        BY DEF Counts
    <2>1. Finishing(i)' = Finishing(i)
        BY <1>1 DEF Finishing
    <2>2. CASE i = j
        BY <1>1, <1>2, <1>4, <2>1, <2>2 DEF StudioInv, Counts, tables
    <2>3. CASE i # j
        BY <1>1, <1>2, <1>4, <2>1, <2>3 DEF StudioInv, Counts, tables, Thread
    <2> QED BY <2>2, <2>3
<1>11. Announced'
    BY <1>1, <1>2 DEF StudioInv, Announced, Cancels, Update, Thread, tables
<1> QED BY <1>5, <1>6, <1>7, <1>8, <1>9, <1>10, <1>11 DEF StudioInv

\* The row after the worker's write.
LEMMA WorkerWrites ==
    ASSUME StudioAssumption, StudioInv, NEW j \in Job, Pending(j), phase[j] = "write"
    PROVE  /\ Merge(snap[j], Update(j).set) \in Row
           /\ Merge(snap[j], Update(j).set).status # "absent"
           /\ \/ \E s \in WorkerStatus :
                    /\ Sets(j, s) /\ "status" \in DOMAIN Update(j).set
                    /\ Update(j).set.status = s
                    /\ Merge(snap[j], Update(j).set).status = s
                    /\ Merge(snap[j], Update(j).set).completed = snap[j].completed
                    /\ s \in Settled => at[j] = "end" /\ Remaining(j) = <<>>
                    /\ s = "SUCCEEDED" => Finishing(j)
              \/ /\ at[j] \in {"health", "loop"} /\ "status" \notin DOMAIN Update(j).set
                 /\ Merge(snap[j], Update(j).set).status = snap[j].status
                 /\ at[j] = "loop" =>
                       Merge(snap[j], Update(j).set).completed = Cardinality(candidates[j])
<1>1. snap[j] \in Row /\ snap[j].status # "absent"
    BY DEF StudioInv, TypeOK, Phases, Thread
<1>2. \/ \E s \in WorkerStatus :
            /\ Sets(j, s)
            /\ s \in Settled => at[j] = "end" /\ Remaining(j) = <<>>
            /\ s = "SUCCEEDED" => Finishing(j)
      \/ at[j] = "health" /\ Update(j) = Touch
      \/ at[j] = "loop" /\ Update(j) = Count(Cardinality(candidates[j]))
    <2>1. Shape
        BY DEF StudioInv
    <2> QED BY <2>1, WorkerUpdate DEF WorkerStatus, Settled, Finishing
<1>3. ASSUME NEW s \in WorkerStatus, Sets(j, s)
      PROVE  /\ Merge(snap[j], Update(j).set) \in Row
             /\ Merge(snap[j], Update(j).set).status = s
             /\ Merge(snap[j], Update(j).set).completed = snap[j].completed
             /\ "status" \in DOMAIN Update(j).set /\ Update(j).set.status = s
             /\ s # "absent"
    <2>1. Update(j).set = [status |-> s]
        BY <1>3 DEF Sets
    <2>2. s \in JobStatus /\ s # "absent"
        BY DEF WorkerStatus, JobStatus, Terminal
    <2> QED BY <1>1, <2>1, <2>2, MergeStatus, ColumnNames
<1>4. CASE \E s \in WorkerStatus :
            /\ Sets(j, s)
            /\ s \in Settled => at[j] = "end" /\ Remaining(j) = <<>>
            /\ s = "SUCCEEDED" => Finishing(j)
    BY <1>3, <1>4
<1>5. CASE at[j] = "health" /\ Update(j) = Touch
    <2>1. Update(j).set = <<>>
        BY <1>5, UpdateColumns
    <2> QED BY <1>1, <1>5, <2>1, MergeNothing, ColumnNames
<1>6. CASE at[j] = "loop" /\ Update(j) = Count(Cardinality(candidates[j]))
    <2>1. Update(j).set = [completed |-> Cardinality(candidates[j])]
        BY <1>6, UpdateColumns
    <2>2. Cardinality(candidates[j]) \in 0..Requested
        BY CountedCandidates DEF StudioInv
    <2> QED BY <1>1, <1>6, <2>1, <2>2, MergeCount, ColumnNames
<1> QED BY <1>2, <1>4, <1>5, <1>6

LEMMA WorkerWriteStep ==
    ASSUME StudioAssumption, StudioInv, NEW j \in Job, WriteRow(j)
    PROVE  StudioInv'
<1>1. /\ Pending(j) /\ phase[j] = "write" /\ j \in Thread
      /\ row' = [row EXCEPT ![j] = Merge(snap[j], Update(j).set)]
      /\ snap' = [snap EXCEPT ![j] = NoRow]
      /\ \/ /\ "status" \in DOMAIN Update(j).set
            /\ phase' = [phase EXCEPT ![j] = "event"] /\ UNCHANGED todo
         \/ /\ "status" \notin DOMAIN Update(j).set
            /\ phase' = [phase EXCEPT ![j] = "check"] /\ DropsOf(j)
      /\ UNCHANGED <<key, candidates, last, flagged, at, ordinal, serves, wants, late, restarts>>
    BY DEF WriteRow, Drop, Target, DropsOf, Thread
<1>2. /\ row'[j] = Merge(snap[j], Update(j).set)
      /\ \A i \in Job : i # j => row'[i] = row[i]
      /\ snap'[j] = NoRow
      /\ \A t \in Thread : t # j => snap'[t] = snap[t] /\ phase'[t] = phase[t]
    BY <1>1 DEF StudioInv, TypeOK
<1>3. /\ row'[j] \in Row /\ row'[j].status # "absent"
      /\ \/ \E s \in WorkerStatus :
               /\ Sets(j, s) /\ Update(j).set.status = s
               /\ row'[j].status = s /\ row'[j].completed = snap[j].completed
               /\ s \in Settled => at[j] = "end" /\ Remaining(j) = <<>>
               /\ s = "SUCCEEDED" => Finishing(j)
               /\ phase'[j] = "event" /\ UNCHANGED todo
               /\ "status" \in DOMAIN Update(j).set
         \/ /\ at[j] \in {"health", "loop"} /\ row'[j].status = snap[j].status
            /\ at[j] = "loop" => row'[j].completed = Cardinality(candidates[j])
            /\ phase'[j] = "check" /\ DropsOf(j)
    <2>1. phase'[j] = IF "status" \in DOMAIN Update(j).set THEN "event" ELSE "check"
        BY <1>1 DEF StudioInv, TypeOK
    <2> QED BY <1>1, <1>2, <2>1, WorkerWrites
<1>4. /\ Shape' /\ Orders' /\ Threads'
      /\ \A i \in Job : Finishing(i)' => Finishing(i)
      /\ at[j] = "loop" /\ phase'[j] = "check" => todo'[j] = <<>>
      /\ \A t \in Thread : t # j => todo'[t] = todo[t]
    <2>1. CASE UNCHANGED todo /\ phase'[j] = "event"
        BY <1>1, <2>1 DEF StudioInv, Threads, Shape, Orders, Finishing
    <2>2. CASE DropsOf(j)
        BY <1>1, <2>2, DropTypes, WorkerDrops DEF StudioInv
    <2> QED BY <1>3, <2>1, <2>2
<1>5. \A q \in Request : todo'[q] = todo[q] /\ phase'[q] = phase[q] /\ snap'[q] = snap[q]
    BY <1>2, <1>4 DEF StudioAssumption, Thread
<1>6. \A i \in Job : Present(i)' <=> Present(i)
    <2>1. Present(j)
        BY <1>1, BusyWorker
    <2> QED BY <1>2, <1>3, <2>1 DEF Present
<1>7. TypeOK'
    <2>1. row' \in [Job -> Row]
        BY <1>1, <1>2, <1>3 DEF StudioInv, TypeOK
    <2>2. snap' \in [Thread -> Row] /\ phase' \in [Thread -> {"check", "read", "write", "event"}]
        <3>1. NoRow \in Row
            BY DEF NoRow, Row, StudioAssumption
        <3> QED BY <1>1, <3>1 DEF StudioInv, TypeOK
    <2> QED BY <1>1, <2>1, <2>2 DEF StudioInv, TypeOK
<1>8. Phases'
    <2> SUFFICES ASSUME NEW t \in Thread
                 PROVE  Phases!(t)'
        BY DEF Phases
    <2>1. CASE t = j /\ phase'[j] = "event"
        <3>1. UNCHANGED todo /\ "status" \in DOMAIN Update(j).set /\ todo[j] # <<>>
            BY <1>1, <1>3, <2>1 DEF Pending
        <3> QED BY <2>1, <3>1 DEF Update
    <2>2. CASE t = j /\ phase'[j] = "check"
        BY <2>2
    <2>3. CASE t # j
        BY <1>2, <1>4, <2>3 DEF StudioInv, Phases, Update
    <2> QED BY <1>3, <2>1, <2>2, <2>3
<1>9. Requests'
    BY <1>1, <1>5, <1>6 DEF StudioInv, Requests, Pending
<1>10. Owners' /\ Late'
    BY <1>1, <1>6 DEF StudioInv, Owners, Late
<1>11. Rest'
    <2> SUFFICES ASSUME NEW i \in Job
                 PROVE  Rest!(i)'
        BY DEF Rest
    <2>1. CASE i # j
        BY <1>1, <1>2, <1>4, <2>1 DEF StudioInv, Rest, Single, Pending, Thread
    <2>2. CASE i = j
        <3>1. row'[j].status \in Settled =>
                 at'[j] = "end" /\ phase'[j] = "event" /\ UNCHANGED todo /\ Remaining(j) = <<>>
            BY <1>1, <1>3 DEF StudioInv, Rest
        <3>2. row'[j].status \in Settled => Single(j)' /\ at'[j] = "end" /\ phase'[j] = "event"
            BY <1>1, <3>1 DEF Single, Pending, Remaining
        <3>3. snap'[j].status \notin Settled
            BY <1>2 DEF NoRow, Settled
        <3>4. last'[j] \notin Settled
            BY <1>1, BusyWorker
        <3> QED BY <2>2, <3>2, <3>3, <3>4
    <2> QED BY <2>1, <2>2
<1>12. Counts'
    <2> SUFFICES ASSUME NEW i \in Job
                 PROVE  Counts!(i)'
        BY DEF Counts
    <2>1. CASE i # j
        BY <1>1, <1>2, <1>4, <1>5, <2>1 DEF StudioInv, Counts, Thread
    <2>2. CASE i = j /\ phase'[j] = "event"
        <3>1. /\ UNCHANGED todo /\ todo[j] # <<>>
              /\ row'[j].completed = snap[j].completed
            BY <1>1, <1>3, <2>2 DEF Pending
        <3>2. Finishing(j)' => Finishing(j)
            BY <1>4
        <3> QED BY <1>1, <1>5, <2>2, <3>1, <3>2 DEF StudioInv, Counts
    <2>3. CASE i = j /\ phase'[j] = "check"
        <3>1. /\ at[j] \in {"health", "loop"}
              /\ at[j] = "loop" => row'[j].completed = Cardinality(candidates[j]) /\ todo'[j] = <<>>
            BY <1>3, <1>4, <2>3
        <3>2. ~Finishing(j)'
            BY <1>1, <3>1 DEF Finishing
        <3>3. todo'[j] # <<Emit("RUNNING")>> \/ at[j] # "loop"
            BY <3>1, OneUpdate
        <3>4. at[j] = "health" => ordinal[j] = 1
            BY DEF StudioInv, Counts
        <3> QED BY <1>1, <2>3, <3>1, <3>2, <3>3, <3>4
    <2> QED BY <1>3, <2>1, <2>2, <2>3
<1>13. Announced'
    <2> SUFFICES ASSUME NEW i \in Job
                 PROVE  Announced!(i)'
        BY DEF Announced
    <2>1. CASE i # j
        BY <1>1, <1>2, <1>4, <2>1 DEF StudioInv, Announced, Cancels, Update, Thread
    <2>2. CASE i = j /\ phase'[j] = "event"
        <3>1. UNCHANGED todo /\ row'[j].status = Update(j).set.status
            BY <1>3, <2>2
        <3> QED BY <2>2, <3>1 DEF Update
    <2>3. CASE i = j /\ phase'[j] = "check"
        BY <2>3
    <2> QED BY <1>3, <2>1, <2>2, <2>3
<1>14. SucceededIsComplete'
    <2> SUFFICES ASSUME NEW i \in Job
                 PROVE  SucceededIsComplete!(i)'
        BY DEF SucceededIsComplete
    <2>1. CASE i # j
        BY <1>1, <1>2, <2>1 DEF StudioInv, SucceededIsComplete
    <2>2. CASE i = j /\ row'[j].status = "SUCCEEDED"
        <3>1. Finishing(j) /\ row'[j].completed = snap[j].completed
            BY <1>3, <2>2 DEF StudioInv, Rest, Settled
        <3>2. snap[j].completed = Cardinality(candidates[j]) /\ candidates[j] # {}
            BY <1>1, <3>1 DEF StudioInv, Counts
        <3> QED BY <1>1, <2>2, <3>1, <3>2
    <2> QED BY <2>1, <2>2
<1>15. AnnouncedEndIsStored'
    <2>1. last[j] \notin Settled
        BY <1>1, BusyWorker
    <2> QED BY <1>1, <1>2, <2>1 DEF StudioInv, AnnouncedEndIsStored, Cancels
<1> QED BY <1>4, <1>7, <1>8, <1>9, <1>10, <1>11, <1>12, <1>13, <1>14, <1>15 DEF StudioInv

LEMMA WorkerEventStep ==
    ASSUME StudioAssumption, StudioInv, NEW j \in Job, AppendEvent(j)
    PROVE  StudioInv'
<1>1. /\ Pending(j) /\ phase[j] = "event" /\ j \in Thread
      /\ last' = [last EXCEPT ![j] = Update(j).set.status]
      /\ phase' = [phase EXCEPT ![j] = "check"] /\ DropsOf(j)
      /\ UNCHANGED <<row, key, candidates, flagged, at, snap, ordinal, serves, wants, late,
                     restarts>>
    BY DEF AppendEvent, Drop, Target, DropsOf, Thread
<1>2. PICK s \in WorkerStatus :
         /\ Sets(j, s) /\ Update(j).set.status = s
         /\ s \in Settled => at[j] = "end" /\ Remaining(j) = <<>>
         /\ at[j] = "loop" => todo[j] = <<Emit("RUNNING")>>
    <2>1. "status" \in DOMAIN Update(j).set
        BY <1>1 DEF StudioInv, Phases
    <2>2. Update(j) # Touch /\ Update(j) # Count(Cardinality(candidates[j]))
        <3>1. ASSUME Update(j) = Touch PROVE FALSE
            <4>1. Update(j).set = <<>>
                BY <3>1, UpdateColumns
            <4> QED BY <2>1, <4>1, ColumnNames
        <3>2. ASSUME Update(j) = Count(Cardinality(candidates[j])) PROVE FALSE
            <4>1. Update(j).set = [completed |-> Cardinality(candidates[j])]
                BY <3>2, UpdateColumns
            <4> QED BY <2>1, <4>1, ColumnNames
        <3> QED BY <3>1, <3>2
    <2>3. \E s \in WorkerStatus :
             /\ Sets(j, s)
             /\ s \in Settled => at[j] = "end" /\ Remaining(j) = <<>>
             /\ at[j] = "loop" => todo[j] = <<Emit("RUNNING")>>
        <3>1. Shape
            BY DEF StudioInv
        <3> QED BY <1>1, <2>2, <3>1, WorkerUpdate DEF WorkerStatus, Settled
    <2>4. \A s \in WorkerStatus : Sets(j, s) => Update(j).set.status = s
        BY ColumnNames DEF Sets
    <2> QED BY <2>3, <2>4
<1>3. /\ last'[j] = s /\ phase'[j] = "check"
      /\ \A i \in Job : i # j => last'[i] = last[i]
      /\ \A t \in Thread : t # j => phase'[t] = phase[t]
    BY <1>1, <1>2 DEF StudioInv, TypeOK
<1>4. /\ Shape' /\ Orders' /\ Threads' /\ todo'[j] = Remaining(j)
      /\ \A i \in Job : Finishing(i)' => Finishing(i)
      /\ at[j] = "loop" => todo'[j] = <<>>
      /\ \A t \in Thread : t # j => todo'[t] = todo[t]
    BY <1>1, DropTypes, WorkerDrops DEF StudioInv
<1>5. \A q \in Request : todo'[q] = todo[q] /\ phase'[q] = phase[q]
    BY <1>3, <1>4 DEF StudioAssumption, Thread
<1>6. TypeOK'
    <2>1. s \in JobStatus
        BY DEF WorkerStatus, JobStatus, Terminal
    <2> QED BY <1>1, <1>2, <2>1 DEF StudioInv, TypeOK
<1>7. Phases'
    BY <1>1, <1>3, <1>4 DEF StudioInv, Phases, Update
<1>8. Requests'
    BY <1>1, <1>5 DEF StudioInv, Requests, Pending, Present
<1>9. Owners' /\ Late' /\ SucceededIsComplete'
    BY <1>1 DEF StudioInv, Owners, Late, SucceededIsComplete, Present
<1>10. Rest'
    <2> SUFFICES ASSUME NEW i \in Job
                 PROVE  Rest!(i)'
        BY DEF Rest
    <2>1. CASE i # j
        BY <1>1, <1>3, <1>4, <2>1 DEF StudioInv, Rest, Single, Pending, Thread
    <2>2. CASE i = j
        <3>1. row[j].status \in Settled => at[j] = "end" /\ todo'[j] = <<>>
            <4>1. row[j].status \in Settled => Remaining(j) = <<>>
                BY <1>1, BusyWorker
            <4> QED BY <1>4, <4>1 DEF StudioInv, Rest
        <3>2. last'[j] \in Settled => at[j] = "end" /\ todo'[j] = <<>>
            BY <1>2, <1>3, <1>4
        <3>3. at[j] # "end" => snap[j].status \notin Settled
            BY DEF StudioInv, Rest
        <3> QED BY <1>1, <2>2, <3>1, <3>2, <3>3
    <2> QED BY <2>1, <2>2
<1>11. Counts'
    <2> SUFFICES ASSUME NEW i \in Job
                 PROVE  Counts!(i)'
        BY DEF Counts
    <2>1. CASE i # j
        BY <1>1, <1>3, <1>4, <1>5, <2>1 DEF StudioInv, Counts, Thread
    <2>2. CASE i = j
        <3>1. at[j] = "loop" => todo'[j] = <<>> /\ ordinal[j] = 1
            BY <1>2, <1>4 DEF StudioInv, Counts
        <3>2. todo'[j] # <<Emit("RUNNING")>> \/ at[j] # "loop"
            BY <3>1, OneUpdate
        <3> QED BY <1>1, <1>3, <1>4, <1>5, <2>2, <3>1, <3>2 DEF StudioInv, Counts
    <2> QED BY <2>1, <2>2
<1>12. Announced'
    BY <1>1, <1>3, <1>4 DEF StudioInv, Announced, Cancels, Update, Thread
<1>13. AnnouncedEndIsStored'
    <2> SUFFICES ASSUME NEW i \in Job
                 PROVE  AnnouncedEndIsStored!(i)'
        BY DEF AnnouncedEndIsStored
    <2>1. CASE i # j
        BY <1>1, <1>3, <2>1 DEF StudioInv, AnnouncedEndIsStored, Cancels
    <2>2. CASE i = j
        BY <1>1, <1>2, <1>3, <2>2 DEF StudioInv, Announced, Cancels
    <2> QED BY <2>1, <2>2
<1> QED BY <1>4, <1>6, <1>7, <1>8, <1>9, <1>10, <1>11, <1>12, <1>13 DEF StudioInv

LEMMA WorkerStoreStep ==
    ASSUME StudioAssumption, StudioInv, NEW j \in Job, StoreStep(j)
    PROVE  StudioInv'
    BY CheckCancelledStep, WorkerReadStep, WorkerWriteStep, WorkerEventStep DEF StoreStep

-----------------------------------------------------------------------------
(* The store steps of a request's thread.                                  *)

\* A request with an update to make cancels one job, and has flagged it.
LEMMA BusyRequest ==
    ASSUME StudioAssumption, StudioInv, NEW q \in Request, Pending(q)
    PROVE  /\ q \in Thread /\ q \notin Job /\ Target(q) = serves[q]
           /\ \E j \in Job : serves[q] = {j} /\ j \in flagged /\ Present(j) /\ Cancels(q, j)
<1>1. q \in Thread /\ q \notin Job /\ Target(q) = serves[q]
    BY DEF StudioAssumption, Thread, Target
<1> QED BY <1>1 DEF StudioInv, Requests, Cancels

LEMMA RequestReadStep ==
    ASSUME StudioAssumption, StudioInv, NEW q \in Request, ReadRow(q)
    PROVE  StudioInv'
<1>0. PICK j \in Job :
         /\ serves[q] = {j} /\ Pending(q) /\ q \in Thread /\ q \notin Job /\ Present(j)
         /\ j \in flagged /\ Cancels(q, j) /\ Target(q) = {j}
    <2>1. Pending(q)
        BY DEF ReadRow
    <2> QED BY <2>1, BusyRequest
<1>1. /\ serves[q] = {j} /\ Pending(q) /\ q \in Thread /\ q \notin Job /\ Present(j)
      /\ snap' = [snap EXCEPT ![q] = row[j]]
      /\ phase' = [phase EXCEPT ![q] = "write"]
      /\ UNCHANGED <<tables, flagged, at, todo, ordinal, serves, wants, late, restarts>>
    BY <1>0 DEF ReadRow
<1>2. /\ snap'[q] = row[j] /\ phase'[q] = "write"
      /\ \A t \in Thread : t # q => snap'[t] = snap[t] /\ phase'[t] = phase[t]
    BY <1>1 DEF StudioInv, TypeOK
<1>3. \A i \in Job : phase'[i] = phase[i] /\ snap'[i] = snap[i]
    BY <1>1, <1>2 DEF Thread
<1>4. TypeOK'
    BY <1>1 DEF StudioInv, TypeOK, tables
<1>5. Threads' /\ Shape' /\ Orders'
    BY <1>1 DEF StudioInv, Threads, Shape, Orders, tables
<1>6. Phases'
    BY <1>1, <1>2 DEF StudioInv, Phases, Update, Present, Pending
<1>7. Requests'
    BY <1>1 DEF StudioInv, Requests, Pending, Present, tables
<1>8. Owners' /\ Late' /\ SucceededIsComplete' /\ AnnouncedEndIsStored'
    BY <1>1 DEF StudioInv, Owners, Late, SucceededIsComplete, AnnouncedEndIsStored, Cancels,
                Present, tables
<1>9. Rest'
    BY <1>1, <1>3 DEF StudioInv, Rest, Single, Pending, tables
<1>10. Counts'
    <2> SUFFICES ASSUME NEW i \in Job
                 PROVE  Counts!(i)'
        BY DEF Counts
    <2>1. Finishing(i)' = Finishing(i)
        BY <1>1 DEF Finishing
    <2>2. ASSUME Finishing(i), NEW p \in Request, serves[p] = {i}, phase'[p] = "write"
          PROVE  snap'[p].completed = Cardinality(candidates[i])
        <3>1. CASE p = q
            <4>1. i = j
                BY <1>1, <2>2, <3>1
            <4> QED BY <1>2, <2>2, <3>1, <4>1 DEF StudioInv, Counts
        <3>2. CASE p # q
            BY <1>2, <2>2, <3>2 DEF StudioInv, Counts, Thread
        <3> QED BY <3>1, <3>2
    <2> QED BY <1>1, <1>3, <2>1, <2>2 DEF StudioInv, Counts, tables
<1>11. Announced'
    BY <1>1, <1>3 DEF StudioInv, Announced, Cancels, Update, tables
<1> QED BY <1>4, <1>5, <1>6, <1>7, <1>8, <1>9, <1>10, <1>11 DEF StudioInv

LEMMA RequestWriteStep ==
    ASSUME StudioAssumption, StudioInv, NEW q \in Request, WriteRow(q)
    PROVE  StudioInv'
<1>0. PICK j \in Job :
         /\ serves[q] = {j} /\ Pending(q) /\ q \in Thread /\ q \notin Job /\ Present(j)
         /\ j \in flagged /\ Cancels(q, j) /\ Target(q) = {j}
    <2>1. Pending(q)
        BY DEF WriteRow
    <2> QED BY <2>1, BusyRequest
<1>1. /\ serves[q] = {j} /\ Pending(q) /\ q \in Thread /\ q \notin Job /\ Present(j)
      /\ j \in flagged /\ Cancels(q, j) /\ phase[q] = "write"
      /\ row' = [row EXCEPT ![j] = Merge(snap[q], Update(q).set)]
      /\ snap' = [snap EXCEPT ![q] = NoRow]
      /\ "status" \in DOMAIN Update(q).set =>
            phase' = [phase EXCEPT ![q] = "event"] /\ UNCHANGED todo
      /\ UNCHANGED <<key, candidates, last, flagged, at, ordinal, serves, wants, late, restarts>>
    BY <1>0 DEF WriteRow
<1>2. PICK s \in {"CANCEL_REQUESTED", "CANCELLED"} : Sets(q, s)
    BY <1>1, RequestUpdate DEF StudioInv
<1>3. "status" \in DOMAIN Update(q).set /\ Update(q).set.status = s
    BY <1>2, ColumnNames DEF Sets
<1>4. snap[q] \in Row /\ s \in JobStatus
    BY <1>1 DEF StudioInv, TypeOK, JobStatus, Terminal
<1>5. /\ phase' = [phase EXCEPT ![q] = "event"] /\ UNCHANGED todo
      /\ row'[j] \in Row /\ row'[j].status = s /\ row'[j].completed = snap[q].completed
      /\ \A i \in Job : i # j => row'[i] = row[i]
    <2>1. row'[j] = Merge(snap[q], [status |-> s])
        BY <1>1, <1>2 DEF Sets, StudioInv, TypeOK
    <2>2. \A i \in Job : i # j => row'[i] = row[i]
        BY <1>1 DEF StudioInv, TypeOK
    <2> QED BY <1>1, <1>3, <1>4, <2>1, <2>2, MergeStatus
<1>6. /\ phase'[q] = "event"
      /\ \A t \in Thread : t # q => phase'[t] = phase[t] /\ snap'[t] = snap[t]
    BY <1>1, <1>5 DEF StudioInv, TypeOK
<1>7. \A i \in Job : phase'[i] = phase[i] /\ snap'[i] = snap[i]
    BY <1>1, <1>6 DEF Thread
<1>8. \A i \in Job : Present(i)' <=> Present(i)
    BY <1>1, <1>5 DEF Present
<1>9. TypeOK'
    <2>1. row' \in [Job -> Row]
        BY <1>1, <1>5 DEF StudioInv, TypeOK
    <2>2. snap' \in [Thread -> Row] /\ phase' \in [Thread -> {"check", "read", "write", "event"}]
        <3>1. NoRow \in Row
            BY DEF NoRow, Row, StudioAssumption
        <3> QED BY <1>1, <1>5, <3>1 DEF StudioInv, TypeOK
    <2> QED BY <1>1, <2>1, <2>2 DEF StudioInv, TypeOK
<1>10. Threads' /\ Shape' /\ Orders'
    BY <1>1, <1>5 DEF StudioInv, Threads, Shape, Orders
<1>11. Phases'
    <2> SUFFICES ASSUME NEW t \in Thread
                 PROVE  Phases!(t)'
        BY DEF Phases
    <2>1. CASE t = q
        BY <1>1, <1>3, <1>5, <1>6, <2>1 DEF Update, Pending
    <2>2. CASE t # q
        BY <1>5, <1>6, <2>2 DEF StudioInv, Phases, Update
    <2> QED BY <2>1, <2>2
<1>12. Requests'
    BY <1>1, <1>5, <1>8 DEF StudioInv, Requests, Pending
<1>13. Owners' /\ Late'
    BY <1>1, <1>8 DEF StudioInv, Owners, Late
<1>14. Rest'
    <2>1. row'[j].status \notin Settled
        BY <1>5 DEF Settled
    <2> QED BY <1>1, <1>5, <1>7, <2>1 DEF StudioInv, Rest, Single, Pending
<1>15. Counts'
    <2> SUFFICES ASSUME NEW i \in Job
                 PROVE  Counts!(i)'
        BY DEF Counts
    <2>1. Finishing(i)' = Finishing(i)
        BY <1>1, <1>5 DEF Finishing
    <2>2. Finishing(j) => row'[j].completed = Cardinality(candidates[j])
        BY <1>1, <1>5 DEF StudioInv, Counts
    <2>3. \A p \in Request : phase'[p] = "write" => phase[p] = "write" /\ snap'[p] = snap[p]
        BY <1>6 DEF Thread
    <2>4. CASE i = j
        BY <1>1, <1>5, <1>7, <2>1, <2>2, <2>3, <2>4 DEF StudioInv, Counts
    <2>5. CASE i # j
        BY <1>1, <1>5, <1>7, <2>1, <2>3, <2>5 DEF StudioInv, Counts
    <2> QED BY <2>4, <2>5
<1>16. Announced' /\ SucceededIsComplete' /\ AnnouncedEndIsStored'
    <2>1. Cancels(q, j)'
        BY <1>1 DEF Cancels
    <2>2. Announced'
        <3> SUFFICES ASSUME NEW i \in Job, \A p \in Request : ~Cancels(p, i)',
                            phase'[i] = "event"
                     PROVE  row'[i].status = Update(i)'.set.status
            BY DEF Announced
        <3>1. i # j /\ row'[i] = row[i]
            BY <1>5, <2>1
        <3> QED BY <1>1, <1>5, <1>7, <3>1 DEF StudioInv, Announced, Cancels, Update
    <2>3. SucceededIsComplete'
        BY <1>1, <1>5 DEF StudioInv, SucceededIsComplete
    <2>4. AnnouncedEndIsStored'
        BY <1>1, <1>5, <2>1 DEF StudioInv, AnnouncedEndIsStored, Cancels
    <2> QED BY <2>2, <2>3, <2>4
<1> QED BY <1>9, <1>10, <1>11, <1>12, <1>13, <1>14, <1>15, <1>16 DEF StudioInv

LEMMA RequestEventStep ==
    ASSUME StudioAssumption, StudioInv, NEW q \in Request, AppendEvent(q)
    PROVE  StudioInv'
<1>0. PICK j \in Job :
         /\ serves[q] = {j} /\ Pending(q) /\ q \in Thread /\ q \notin Job /\ Present(j)
         /\ j \in flagged /\ Cancels(q, j) /\ Target(q) = {j}
    <2>1. Pending(q)
        BY DEF AppendEvent
    <2> QED BY <2>1, BusyRequest
<1>1. /\ serves[q] = {j} /\ Pending(q) /\ q \in Thread /\ q \notin Job
      /\ last' = [last EXCEPT ![j] = Update(q).set.status]
      /\ phase' = [phase EXCEPT ![q] = "check"] /\ DropsOf(q)
      /\ UNCHANGED <<row, key, candidates, flagged, at, snap, ordinal, serves, wants, late,
                     restarts>>
    BY <1>0 DEF AppendEvent, Drop, DropsOf
<1>2. Update(q).set.status \in {"CANCEL_REQUESTED", "CANCELLED"}
    <2>1. PICK s \in {"CANCEL_REQUESTED", "CANCELLED"} : Sets(q, s)
        BY <1>1, RequestUpdate DEF StudioInv
    <2> QED BY <2>1, ColumnNames DEF Sets
<1>3. /\ last'[j] \in {"CANCEL_REQUESTED", "CANCELLED"} /\ phase'[q] = "check"
      /\ \A i \in Job : i # j => last'[i] = last[i]
      /\ \A t \in Thread : t # q => phase'[t] = phase[t]
    BY <1>1, <1>2 DEF StudioInv, TypeOK
<1>4. /\ Shape' /\ Orders' /\ Threads'
      /\ \A i \in Job : todo'[i] = todo[i] /\ (Finishing(i)' => Finishing(i))
      /\ \A p \in Request : Pending(p)' => Pending(p)
      /\ \A t \in Thread : t # q => todo'[t] = todo[t]
    BY <1>1, DropTypes, RequestDrops DEF StudioInv
<1>5. \A i \in Job : phase'[i] = phase[i]
    BY <1>1, <1>3 DEF Thread
<1>6. TypeOK'
    <2>1. Update(q).set.status \in JobStatus
        BY <1>2 DEF JobStatus, Terminal
    <2> QED BY <1>1, <2>1 DEF StudioInv, TypeOK
<1>7. Phases'
    BY <1>1, <1>3, <1>4 DEF StudioInv, Phases, Update
<1>8. Requests'
    BY <1>1, <1>4 DEF StudioInv, Requests, Present
<1>9. Owners' /\ Late' /\ SucceededIsComplete'
    BY <1>1 DEF StudioInv, Owners, Late, SucceededIsComplete, Present
<1>10. Rest'
    <2>1. last'[j] \notin Settled
        BY <1>3 DEF Settled
    <2> QED BY <1>1, <1>3, <1>4, <1>5, <2>1 DEF StudioInv, Rest, Single, Pending
<1>11. Counts'
    <2>1. \A p \in Request : phase'[p] = "write" => phase[p] = "write"
        BY <1>3 DEF Thread
    <2> QED BY <1>1, <1>4, <1>5, <2>1 DEF StudioInv, Counts
<1>12. Announced'
    BY <1>1, <1>4, <1>5 DEF StudioInv, Announced, Cancels, Update
<1>13. AnnouncedEndIsStored'
    <2>1. last'[j] \notin Settled
        BY <1>3 DEF Settled
    <2> QED BY <1>1, <1>3, <2>1 DEF StudioInv, AnnouncedEndIsStored, Cancels
<1> QED BY <1>4, <1>6, <1>7, <1>8, <1>9, <1>10, <1>11, <1>12, <1>13 DEF StudioInv

LEMMA RequestStoreStep ==
    ASSUME StudioAssumption, StudioInv, NEW q \in Request, StoreStep(q)
    PROVE  StudioInv'
<1>1. ~CheckCancelled(q)
    BY RequestUpdate DEF StudioInv, CheckCancelled
<1> QED BY <1>1, RequestReadStep, RequestWriteStep, RequestEventStep DEF StoreStep

-----------------------------------------------------------------------------
(* The worker's own steps.                                                 *)

Places == {"start", "select", "health", "loop", "generate", "register", "progress", "end"}

\* A step of the worker of j keeps the types, and what the other workers have.
Private(j) ==
    /\ candidates' \in [Job -> SUBSET (1..Requested)]
    /\ ordinal' \in [Job -> 1..(Requested + 1)]
    /\ late' \in [Job -> Nat]
    /\ \A i \in Job : i # j =>
          candidates'[i] = candidates[i] /\ ordinal'[i] = ordinal[i] /\ late'[i] = late[i]

\* A worker that goes on keeps the invariant when its own place, count and
\* provider calls do.
LEMMA GoOnStep ==
    ASSUME StudioAssumption, StudioInv, NEW j \in Job, NEW here \in Places, here # "end",
           NEW place \in Places, NEW us, At(j, here), GoOn(j, place, us), Private(j),
           UNCHANGED <<row, last>>
    PROVE  /\ at'[j] = place /\ todo'[j] = us /\ phase'[j] = "check"
           /\ Shape!(j)' /\ Late!(j)' /\ Counts!(j)' => StudioInv'
<1>1. /\ at[j] = here /\ todo[j] = <<>> /\ j \in Thread
      /\ at' = [at EXCEPT ![j] = place] /\ todo' = [todo EXCEPT ![j] = us]
      /\ UNCHANGED <<row, key, last, flagged, phase, snap, serves, wants, restarts>>
    BY DEF At, Pending, GoOn, Thread
<1>2. /\ at'[j] = place /\ todo'[j] = us /\ phase'[j] = "check"
      /\ \A t \in Thread : t # j => at'[t] = at[t] /\ todo'[t] = todo[t]
    BY <1>1 DEF StudioInv, TypeOK, Threads, Phases
<1>3. \A q \in Request : at'[q] = at[q] /\ todo'[q] = todo[q]
    BY <1>2 DEF StudioAssumption, Thread
<1>4. row[j].status \notin Settled /\ last[j] \notin Settled /\ Present(j)
    BY <1>1 DEF StudioInv, Rest, Owners, Places
<1>5. TypeOK' /\ Threads'
    <2>1. Threads'
        BY <1>1 DEF StudioInv, Threads
    <2>2. at' \in [Thread -> {"new", "start", "select", "health", "loop", "generate", "register",
                              "progress", "create", "announce", "launch", "flag", "end"}]
        BY <1>1 DEF StudioInv, TypeOK, Places
    <2> QED BY <1>1, <2>1, <2>2 DEF StudioInv, TypeOK, Private
<1>6. Orders'
    BY <1>3 DEF StudioInv, Orders
<1>7. Phases'
    BY <1>1, <1>2 DEF StudioInv, Phases, Update
<1>8. Requests'
    <2>1. \A i \in Job : at[i] = "new" => at'[i] = "new"
        BY <1>1, <1>2 DEF Thread, Places
    <2> QED BY <1>1, <1>3, <2>1 DEF StudioInv, Requests, Pending, Present
<1>9. Owners'
    <2>1. \A i \in Job : at'[i] # "new" => Present(i)'
        BY <1>1, <1>2, <1>4 DEF StudioInv, Owners, Present, Thread
    <2> QED BY <1>1, <1>3, <2>1 DEF StudioInv, Owners, Present
<1>10. Rest'
    <2> SUFFICES ASSUME NEW i \in Job
                 PROVE  Rest!(i)'
        BY DEF Rest
    <2>1. CASE i # j
        BY <1>1, <1>2, <2>1 DEF StudioInv, Rest, Single, Pending, Thread
    <2>2. CASE i = j
        BY <1>1, <1>4, <2>2 DEF StudioInv, Rest
    <2> QED BY <2>1, <2>2
<1>11. Announced'
    BY <1>1, <1>2 DEF StudioInv, Announced, Cancels, Update, Thread
<1>12. SucceededIsComplete'
    <2>1. row[j].status # "SUCCEEDED"
        BY <1>4 DEF Settled
    <2> QED BY <1>1, <2>1 DEF StudioInv, SucceededIsComplete, Private
<1>13. AnnouncedEndIsStored'
    BY <1>1 DEF StudioInv, AnnouncedEndIsStored, Cancels
<1>14. ASSUME Shape!(j)' PROVE Shape'
    <2> SUFFICES ASSUME NEW i \in Job, i # j
                 PROVE  Shape!(i)'
        BY <1>14 DEF Shape
    <2> QED BY <1>2 DEF StudioInv, Shape, Private, Thread
<1>15. ASSUME Late!(j)' PROVE Late'
    <2> SUFFICES ASSUME NEW i \in Job, i # j
                 PROVE  Late!(i)'
        BY <1>15 DEF Late
    <2> QED BY <1>1, <1>2 DEF StudioInv, Late, Private, Thread
<1>16. ASSUME Counts!(j)' PROVE Counts'
    <2> SUFFICES ASSUME NEW i \in Job, i # j
                 PROVE  Counts!(i)'
        BY <1>16 DEF Counts
    <2>1. /\ at'[i] = at[i] /\ todo'[i] = todo[i]
          /\ candidates'[i] = candidates[i] /\ ordinal'[i] = ordinal[i]
        BY <1>2 DEF Private, Thread
    <2>2. Finishing(i)' = Finishing(i)
        BY <2>1 DEF Finishing
    <2> QED BY <1>1, <2>1, <2>2 DEF StudioInv, Counts
<1> QED BY <1>2, <1>5, <1>6, <1>7, <1>8, <1>9, <1>10, <1>11, <1>12, <1>13, <1>14, <1>15, <1>16
        DEF StudioInv

LEMMA NothingToFinish ==
    ASSUME NEW us \in {<<>>, <<Put("BLOCKED")>>, <<Put("FAILED")>>}
    PROVE  us \notin {<<Emit("SUCCEEDED")>>, <<Emit("REVIEW_REQUIRED"), Emit("SUCCEEDED")>>}
<1>1. Put("BLOCKED") # Emit("SUCCEEDED") /\ Put("FAILED") # Emit("SUCCEEDED")
    BY DEF Put, Emit
<1>2. us # <<Emit("SUCCEEDED")>>
    BY <1>1, OneUpdate
<1>3. us # <<Emit("REVIEW_REQUIRED"), Emit("SUCCEEDED")>>
    BY OneUpdate, TwoUpdates
<1> QED BY <1>2, <1>3

\* The worker ends, with nothing more to store or with a failure.
LEMMA EndsStep ==
    ASSUME StudioAssumption, StudioInv, NEW j \in Job, NEW here \in Places, here # "end",
           NEW us \in {<<>>, <<Put("BLOCKED")>>, <<Put("FAILED")>>}, At(j, here),
           GoOn(j, "end", us), Private(j), late'[j] \in {0, 1}, UNCHANGED <<row, last>>
    PROVE  StudioInv'
<1>1. /\ at'[j] = "end" /\ todo'[j] = us
      /\ Shape!(j)' /\ Late!(j)' /\ Counts!(j)' => StudioInv'
    <2>1. "end" \in Places
        BY DEF Places
    <2> QED BY <2>1, GoOnStep
<1>2. ~Finishing(j)'
    BY <1>1, NothingToFinish DEF Finishing
<1>3. Shape!(j)'
    BY <1>1
<1>4. Late!(j)'
    BY <1>1
<1>5. Counts!(j)'
    BY <1>1, <1>2
<1> QED BY <1>1, <1>3, <1>4, <1>5

\* A worker at a place is not past a late provider call, unless it was flagged.
LEMMA LateCalls ==
    ASSUME StudioInv, NEW j \in Job
    PROVE  /\ late[j] \in {0, 1}
           /\ late[j] = 1 /\ at[j] # "end" => j \in flagged
           /\ at[j] \in {"new", "generate"} => late[j] = 0
    BY DEF StudioInv, Late

LEMMA KeepsPrivate ==
    ASSUME StudioInv, NEW j \in Job, UNCHANGED <<candidates, ordinal, late>>
    PROVE  Private(j)
    BY DEF StudioInv, TypeOK, Private

LEMMA StartStep ==
    ASSUME StudioAssumption, StudioInv, NEW j \in Job, Start(j)
    PROVE  StudioInv'
<1>1. /\ At(j, "start") /\ UNCHANGED <<row, candidates, last, ordinal, late>>
      /\ \/ j \in flagged /\ GoOn(j, "end", <<>>)
         \/ j \notin flagged /\ GoOn(j, "select", <<Emit("QUEUED"), Emit("PROVISIONING")>>)
    BY DEF Start
<1>2. Private(j) /\ late'[j] \in {0, 1}
    BY <1>1, KeepsPrivate, LateCalls
<1>3. CASE GoOn(j, "end", <<>>)
    BY <1>1, <1>2, <1>3, EndsStep DEF Places
<1>4. CASE j \notin flagged /\ GoOn(j, "select", <<Emit("QUEUED"), Emit("PROVISIONING")>>)
    <2>1. /\ at'[j] = "select" /\ todo'[j] = <<Emit("QUEUED"), Emit("PROVISIONING")>>
          /\ Shape!(j)' /\ Late!(j)' /\ Counts!(j)' => StudioInv'
        BY <1>1, <1>2, <1>4, GoOnStep DEF Places
    <2>2. Shape!(j)'
        BY <2>1
    <2>3. Late!(j)'
        BY <1>1, <1>4, LateCalls DEF At
    <2>4. Counts!(j)'
        BY <1>1, <2>1 DEF StudioInv, Counts, Finishing, At
    <2> QED BY <2>1, <2>2, <2>3, <2>4
<1> QED BY <1>1, <1>3, <1>4

LEMMA SelectProviderStep ==
    ASSUME StudioAssumption, StudioInv, NEW j \in Job, SelectProvider(j)
    PROVE  StudioInv'
<1>1. /\ At(j, "select") /\ UNCHANGED <<row, candidates, last, ordinal, late>>
      /\ \/ GoOn(j, "end", <<Put("BLOCKED")>>)
         \/ GoOn(j, "health", <<Touch>>)
         \/ GoOn(j, "end", <<Put("FAILED")>>)
    BY DEF SelectProvider, Raise
<1>2. Private(j) /\ late'[j] \in {0, 1}
    BY <1>1, KeepsPrivate, LateCalls
<1>3. CASE GoOn(j, "end", <<Put("BLOCKED")>>)
    BY <1>1, <1>2, <1>3, EndsStep DEF Places
<1>4. CASE GoOn(j, "end", <<Put("FAILED")>>)
    BY <1>1, <1>2, <1>4, EndsStep DEF Places
<1>5. CASE GoOn(j, "health", <<Touch>>)
    <2>1. /\ at'[j] = "health" /\ todo'[j] = <<Touch>>
          /\ Shape!(j)' /\ Late!(j)' /\ Counts!(j)' => StudioInv'
        BY <1>1, <1>2, <1>5, GoOnStep DEF Places
    <2>2. Shape!(j)'
        BY <2>1
    <2>3. Late!(j)'
        BY <1>1, <1>5, <2>1, LateCalls DEF At, GoOn
    <2>4. Counts!(j)'
        BY <1>1, <2>1 DEF StudioInv, Counts, Finishing, At
    <2> QED BY <2>1, <2>2, <2>3, <2>4
<1> QED BY <1>1, <1>3, <1>4, <1>5

LEMMA CheckHealthStep ==
    ASSUME StudioAssumption, StudioInv, NEW j \in Job, CheckHealth(j)
    PROVE  StudioInv'
<1>1. /\ At(j, "health") /\ UNCHANGED <<row, candidates, last, ordinal, late>>
      /\ \/ GoOn(j, "end", <<Put("BLOCKED")>>)
         \/ GoOn(j, "loop", <<Emit("RUNNING")>>)
         \/ GoOn(j, "end", <<Put("FAILED")>>)
    BY DEF CheckHealth, Raise
<1>2. Private(j) /\ late'[j] \in {0, 1}
    BY <1>1, KeepsPrivate, LateCalls
<1>3. CASE GoOn(j, "end", <<Put("BLOCKED")>>)
    BY <1>1, <1>2, <1>3, EndsStep DEF Places
<1>4. CASE GoOn(j, "end", <<Put("FAILED")>>)
    BY <1>1, <1>2, <1>4, EndsStep DEF Places
<1>5. CASE GoOn(j, "loop", <<Emit("RUNNING")>>)
    <2>1. /\ at'[j] = "loop" /\ todo'[j] = <<Emit("RUNNING")>>
          /\ Shape!(j)' /\ Late!(j)' /\ Counts!(j)' => StudioInv'
        BY <1>1, <1>2, <1>5, GoOnStep DEF Places
    <2>2. Shape!(j)'
        BY <2>1
    <2>3. Late!(j)'
        BY <1>1, <1>5, <2>1, LateCalls DEF At, GoOn
    <2>4. Counts!(j)'
        <3>1. todo'[j] # <<>> /\ ordinal'[j] = 1
            BY <1>1, <2>1, OneUpdate DEF StudioInv, Counts, At
        <3> QED BY <1>1, <2>1, <3>1 DEF Finishing
    <2> QED BY <2>1, <2>2, <2>3, <2>4
<1> QED BY <1>1, <1>3, <1>4, <1>5

LEMMA NextCandidateStep ==
    ASSUME StudioAssumption, StudioInv, NEW j \in Job, NextCandidate(j)
    PROVE  StudioInv'
<1>1. /\ At(j, "loop") /\ UNCHANGED <<row, candidates, last, ordinal, late>>
      /\ ordinal[j] <= Requested
      /\ \/ j \in flagged /\ GoOn(j, "end", <<>>)
         \/ j \notin flagged /\ GoOn(j, "generate", <<>>)
    BY DEF NextCandidate
<1>2. Private(j) /\ late'[j] \in {0, 1}
    BY <1>1, KeepsPrivate, LateCalls
<1>3. CASE GoOn(j, "end", <<>>)
    BY <1>1, <1>2, <1>3, EndsStep DEF Places
<1>4. CASE j \notin flagged /\ GoOn(j, "generate", <<>>)
    <2>1. /\ at'[j] = "generate" /\ todo'[j] = <<>>
          /\ Shape!(j)' /\ Late!(j)' /\ Counts!(j)' => StudioInv'
        BY <1>1, <1>2, <1>4, GoOnStep DEF Places
    <2>2. Shape!(j)'
        BY <2>1
    <2>3. Late!(j)'
        BY <1>1, <1>4, <2>1, LateCalls DEF At
    <2>4. Counts!(j)'
        BY <1>1, <2>1 DEF Finishing
    <2> QED BY <2>1, <2>2, <2>3, <2>4
<1> QED BY <1>1, <1>3, <1>4

LEMMA GenerateStep ==
    ASSUME StudioAssumption, StudioInv, NEW j \in Job, Generate(j)
    PROVE  StudioInv'
<1>1. /\ At(j, "generate") /\ UNCHANGED <<row, candidates, last, ordinal>>
      /\ late' = [late EXCEPT ![j] = IF j \in flagged THEN @ + 1 ELSE @]
      /\ \/ GoOn(j, "register", <<>>) \/ GoOn(j, "progress", <<>>)
         \/ GoOn(j, "end", <<Put("FAILED")>>)
    BY DEF Generate, Raise
<1>2. late[j] = 0
    BY <1>1, LateCalls DEF At
<1>3. late'[j] = (IF j \in flagged THEN 1 ELSE 0) /\ Private(j)
    BY <1>1, <1>2 DEF StudioInv, TypeOK, Private
<1>4. CASE GoOn(j, "end", <<Put("FAILED")>>)
    BY <1>1, <1>3, <1>4, EndsStep DEF Places
<1>5. ASSUME NEW place \in {"register", "progress"}, GoOn(j, place, <<>>)
      PROVE  StudioInv'
    <2>1. /\ at'[j] = place /\ todo'[j] = <<>>
          /\ Shape!(j)' /\ Late!(j)' /\ Counts!(j)' => StudioInv'
        <3>1. "generate" \in Places /\ place \in Places
            BY DEF Places
        <3> QED BY <1>1, <1>3, <1>5, <3>1, GoOnStep
    <2>2. Shape!(j)'
        BY <2>1
    <2>3. Late!(j)'
        BY <1>3, <1>5, <2>1 DEF GoOn
    <2>4. Counts!(j)'
        BY <1>1, <2>1 DEF StudioInv, Counts, Finishing, At
    <2> QED BY <2>1, <2>2, <2>3, <2>4
<1> QED BY <1>1, <1>4, <1>5

LEMMA RegisterAssetStep ==
    ASSUME StudioAssumption, StudioInv, NEW j \in Job, RegisterAsset(j)
    PROVE  StudioInv'
<1>1. /\ At(j, "register") /\ UNCHANGED <<row, last, ordinal, late>>
      /\ candidates' = [candidates EXCEPT ![j] = @ \cup {ordinal[j]}]
      /\ GoOn(j, "progress", <<>>) \/ GoOn(j, "end", <<Put("FAILED")>>)
    BY DEF RegisterAsset, Raise
<1>2. ordinal[j] \in 1..Requested
    BY <1>1 DEF StudioInv, TypeOK, Counts, At, StudioAssumption
<1>3. Private(j) /\ late'[j] \in {0, 1}
    BY <1>1, <1>2, LateCalls DEF StudioInv, TypeOK, Private
<1>4. CASE GoOn(j, "end", <<Put("FAILED")>>)
    BY <1>1, <1>3, <1>4, EndsStep DEF Places
<1>5. CASE GoOn(j, "progress", <<>>)
    <2>1. /\ at'[j] = "progress" /\ todo'[j] = <<>>
          /\ Shape!(j)' /\ Late!(j)' /\ Counts!(j)' => StudioInv'
        BY <1>1, <1>3, <1>5, GoOnStep DEF Places
    <2>2. Shape!(j)'
        BY <2>1
    <2>3. Late!(j)'
        BY <1>1, <1>5, <2>1, LateCalls DEF At, GoOn
    <2>4. Counts!(j)'
        BY <1>1, <2>1 DEF StudioInv, Counts, Finishing, At
    <2> QED BY <2>1, <2>2, <2>3, <2>4
<1> QED BY <1>1, <1>4, <1>5

LEMMA ProgressStep ==
    ASSUME StudioAssumption, StudioInv, NEW j \in Job, Progress(j)
    PROVE  StudioInv'
<1>1. /\ At(j, "progress") /\ UNCHANGED <<row, candidates, last, late>>
      /\ ordinal' = [ordinal EXCEPT ![j] = @ + 1]
      /\ GoOn(j, "loop", <<Count(Cardinality(candidates[j]))>>)
    BY DEF Progress
<1>2. ordinal[j] \in 1..Requested
    BY <1>1 DEF StudioInv, TypeOK, Counts, At, StudioAssumption
<1>3. Private(j)
    BY <1>1, <1>2 DEF StudioInv, TypeOK, Private, StudioAssumption
<1>4. /\ at'[j] = "loop" /\ todo'[j] = <<Count(Cardinality(candidates[j]))>>
      /\ Shape!(j)' /\ Late!(j)' /\ Counts!(j)' => StudioInv'
    BY <1>1, <1>3, GoOnStep DEF Places
<1>5. Shape!(j)'
    BY <1>1, <1>4
<1>6. Late!(j)'
    BY <1>1, <1>4, LateCalls DEF At, GoOn
<1>7. Counts!(j)'
    <2>1. todo'[j] # <<>> /\ todo'[j] # <<Emit("RUNNING")>>
        <3>1. Count(Cardinality(candidates[j])) # Emit("RUNNING")
            <4>1. Count(Cardinality(candidates[j])).set = [completed |-> Cardinality(candidates[j])]
                BY UpdateColumns
            <4>2. Emit("RUNNING").set = [status |-> "RUNNING"]
                BY UpdateColumns
            <4> QED BY <4>1, <4>2, ColumnNames
        <3> QED BY <1>4, <3>1, OneUpdate
    <2> QED BY <1>4, <2>1 DEF Finishing
<1> QED BY <1>4, <1>5, <1>6, <1>7

LEMMA FinishStep ==
    ASSUME StudioAssumption, StudioInv, NEW j \in Job, Finish(j)
    PROVE  StudioInv'
<1>1. /\ At(j, "loop") /\ UNCHANGED <<row, candidates, last, ordinal, late>>
      /\ ordinal[j] = Requested + 1
      /\ \/ GoOn(j, "end", <<>>)
         \/ GoOn(j, "end", <<Put("FAILED")>>)
         \/ /\ j \notin flagged /\ candidates[j] # {}
            /\ GoOn(j, "end", <<Emit("REVIEW_REQUIRED"), Emit("SUCCEEDED")>>)
    BY DEF Finish, Raise
<1>2. Private(j) /\ late'[j] \in {0, 1}
    BY <1>1, KeepsPrivate, LateCalls
<1>3. CASE GoOn(j, "end", <<>>)
    BY <1>1, <1>2, <1>3, EndsStep DEF Places
<1>4. CASE GoOn(j, "end", <<Put("FAILED")>>)
    BY <1>1, <1>2, <1>4, EndsStep DEF Places
<1>5. CASE /\ j \notin flagged /\ candidates[j] # {}
           /\ GoOn(j, "end", <<Emit("REVIEW_REQUIRED"), Emit("SUCCEEDED")>>)
    <2>1. /\ at'[j] = "end" /\ todo'[j] = <<Emit("REVIEW_REQUIRED"), Emit("SUCCEEDED")>>
          /\ phase'[j] = "check"
          /\ Shape!(j)' /\ Late!(j)' /\ Counts!(j)' => StudioInv'
        BY <1>1, <1>2, <1>5, GoOnStep DEF Places
    <2>2. Shape!(j)'
        BY <2>1
    <2>3. Late!(j)'
        BY <1>2, <2>1
    <2>4. row[j].completed = Cardinality(candidates[j])
        <3>1. ordinal[j] > 1
            BY <1>1 DEF StudioAssumption
        <3> QED BY <1>1, <1>5, <3>1 DEF StudioInv, Counts, At, Pending
    <2>5. \A q \in Request : ~(serves[q] = {j} /\ phase[q] = "write")
        <3> SUFFICES ASSUME NEW q \in Request, serves[q] = {j}, phase[q] = "write"
                     PROVE  FALSE
            OBVIOUS
        <3>1. todo[q] # <<>>
            BY DEF StudioInv, Phases, Thread
        <3> QED BY <1>5, <3>1 DEF StudioInv, Requests, Pending
    <2>6. Counts!(j)'
        BY <1>1, <1>5, <2>1, <2>4, <2>5 DEF GoOn
    <2> QED BY <2>1, <2>2, <2>3, <2>6
<1> QED BY <1>1, <1>3, <1>4, <1>5

LEMMA WorkerStep ==
    ASSUME StudioAssumption, StudioInv, NEW j \in Job, Worker(j)
    PROVE  StudioInv'
    BY WorkerStoreStep, StartStep, SelectProviderStep, CheckHealthStep, NextCandidateStep,
       GenerateStep, RegisterAssetStep, ProgressStep, FinishStep DEF Worker

-----------------------------------------------------------------------------
(* The requests' own steps.                                                *)

\* A request before its list of updates has none, and does nothing to a job
\* that has a worker.
LEMMA IdleRequest ==
    ASSUME StudioAssumption, StudioInv, NEW q \in Request, at[q] # "end"
    PROVE  /\ todo[q] = <<>> /\ phase[q] = "check" /\ q \in Thread /\ q \notin Job
           /\ \A i \in Job : i # q /\ i \in Thread
    BY DEF StudioAssumption, StudioInv, Orders, Phases, Thread

\* A step of a request that leaves the tables, the updates and the workers alone.
LEMMA RequestMoves ==
    ASSUME StudioAssumption, StudioInv, NEW q \in Request, at[q] # "end", at'[q] # "new",
           at'[q] \in {"create", "announce", "launch", "flag", "end"},
           at' \in [Thread -> {"new", "start", "select", "health", "loop", "generate", "register",
                               "progress", "create", "announce", "launch", "flag", "end"}],
           \A t \in Thread : t # q => at'[t] = at[t],
           \A p \in Request : p # q => serves'[p] = serves[p] /\ wants'[p] = wants[p],
           \A i \in Job : Cancels(q, i) => Cancels(q, i)',
           UNCHANGED <<row, candidates, flagged, todo, phase, snap, ordinal, late, restarts>>
    PROVE  /\ Threads' /\ Shape' /\ Orders' /\ Phases' /\ Late' /\ Counts' /\ Announced'
           /\ SucceededIsComplete'
           /\ \A i \in Job : at'[i] = at[i] /\ Present(i)' = Present(i)
<1>1. /\ todo[q] = <<>> /\ phase[q] = "check"
      /\ \A i \in Job : i # q /\ i \in Thread
    BY IdleRequest
<1>2. \A i \in Job : at'[i] = at[i]
    BY <1>1
<1>3. Threads' /\ Phases'
    BY DEF StudioInv, Threads, Phases, Update
<1>4. Shape'
    BY <1>2 DEF StudioInv, Shape
<1>5. Orders'
    <2> SUFFICES ASSUME NEW p \in Request
                 PROVE  Orders!(p)'
        BY DEF Orders
    <2>1. CASE p = q
        BY <1>1, <2>1
    <2>2. CASE p # q
        BY <2>2 DEF StudioInv, Orders, Thread
    <2> QED BY <2>1, <2>2
<1>6. Late'
    BY <1>2 DEF StudioInv, Late
<1>7. Counts'
    <2> SUFFICES ASSUME NEW i \in Job
                 PROVE  Counts!(i)'
        BY DEF Counts
    <2>1. Finishing(i)' = Finishing(i)
        BY <1>2 DEF Finishing
    <2>2. ASSUME Finishing(i), NEW p \in Request, serves'[p] = {i}, phase'[p] = "write"
          PROVE  snap'[p].completed = Cardinality(candidates[i])
        <3>1. p # q
            BY <1>1, <2>2
        <3> QED BY <2>2, <3>1 DEF StudioInv, Counts
    <2> QED BY <1>2, <2>1, <2>2 DEF StudioInv, Counts
<1>8. Announced'
    BY DEF StudioInv, Announced, Cancels, Update
<1>9. SucceededIsComplete'
    BY DEF StudioInv, SucceededIsComplete
<1>10. \A i \in Job : Present(i)' = Present(i)
    BY DEF Present
<1> QED BY <1>2, <1>3, <1>4, <1>5, <1>6, <1>7, <1>8, <1>9, <1>10

LEMMA SubmitStep ==
    ASSUME StudioAssumption, StudioInv, NEW q \in Request, Submit(q)
    PROVE  StudioInv'
<1>1. PICK k \in Key \cup {NoKey} :
         LET existing == {j \in Job : k # NoKey /\ Present(j) /\ key[j] = k} IN
         /\ wants' = [wants EXCEPT ![q] = {k}]
         /\ serves' = [serves EXCEPT ![q] = existing]
         /\ at' = [at EXCEPT ![q] = IF existing = {} THEN "create" ELSE "end"]
    BY DEF Submit
<1> DEFINE existing == {j \in Job : k # NoKey /\ Present(j) /\ key[j] = k}
<1>2. /\ at[q] = "new" /\ q \in Thread /\ todo[q] = <<>>
      /\ UNCHANGED <<row, key, candidates, last, flagged, todo, phase, snap, ordinal, late, restarts>>
    BY IdleRequest DEF Submit, tables
<1>3. /\ wants'[q] = {k} /\ serves'[q] = existing
      /\ at'[q] = IF existing = {} THEN "create" ELSE "end"
      /\ \A t \in Thread : t # q => at'[t] = at[t]
      /\ \A p \in Request : p # q => serves'[p] = serves[p] /\ wants'[p] = wants[p]
    BY <1>1, <1>2 DEF StudioInv, TypeOK
<1>4. serves[q] = {} /\ wants[q] = {}
    BY <1>2 DEF StudioInv, Requests
<1>5. \A i \in Job : ~Cancels(q, i) /\ ~Cancels(q, i)'
    BY <1>3, <1>4 DEF Cancels
<1>6. TypeOK'
    BY <1>1, <1>2 DEF StudioInv, TypeOK
<1>7. /\ Threads' /\ Shape' /\ Orders' /\ Phases' /\ Late' /\ Counts' /\ Announced'
      /\ SucceededIsComplete'
      /\ \A i \in Job : at'[i] = at[i] /\ Present(i)' = Present(i)
    BY <1>2, <1>3, <1>5, <1>6, RequestMoves DEF TypeOK
<1>8. Requests'
    <2> SUFFICES ASSUME NEW p \in Request
                 PROVE  Requests!(p)'
        BY DEF Requests
    <2>1. CASE p = q
        <3>1. \A i \in existing : Present(i) /\ key[i] = k
            OBVIOUS
        <3> QED BY <1>2, <1>3, <1>7, <2>1, <3>1 DEF Pending
    <2>2. CASE p # q
        BY <1>2, <1>3, <1>7, <2>2 DEF StudioInv, Requests, Pending, Thread
    <2> QED BY <2>1, <2>2
<1>9. Owners'
    BY <1>2, <1>3, <1>7 DEF StudioInv, Owners, Thread
<1>10. Rest'
    BY <1>2, <1>7 DEF StudioInv, Rest, Single, Pending
<1>11. AnnouncedEndIsStored'
    BY <1>2, <1>3, <1>5 DEF StudioInv, AnnouncedEndIsStored, Cancels
<1> QED BY <1>6, <1>7, <1>8, <1>9, <1>10, <1>11 DEF StudioInv

LEMMA CancelJobStep ==
    ASSUME StudioAssumption, StudioInv, NEW q \in Request, CancelJob(q)
    PROVE  StudioInv'
<1>1. PICK j \in Job :
         /\ Present(j)
         /\ serves' = [serves EXCEPT ![q] = {j}]
         /\ at' = [at EXCEPT ![q] = IF row[j].status \in Terminal THEN "end" ELSE "flag"]
    BY DEF CancelJob
<1>2. /\ at[q] = "new" /\ q \in Thread /\ todo[q] = <<>>
      /\ UNCHANGED <<row, key, candidates, last, flagged, todo, phase, snap, ordinal, wants, late,
                     restarts>>
    BY IdleRequest DEF CancelJob, tables
<1>3. /\ serves'[q] = {j} /\ at'[q] \in {"flag", "end"}
      /\ \A t \in Thread : t # q => at'[t] = at[t]
      /\ \A p \in Request : p # q => serves'[p] = serves[p] /\ wants'[p] = wants[p]
    BY <1>1, <1>2 DEF StudioInv, TypeOK
<1>4. serves[q] = {} /\ wants[q] = {}
    BY <1>2 DEF StudioInv, Requests
<1>5. \A i \in Job : ~Cancels(q, i)
    BY <1>4 DEF Cancels
<1>6. TypeOK'
    BY <1>1, <1>2 DEF StudioInv, TypeOK
<1>7. /\ Threads' /\ Shape' /\ Orders' /\ Phases' /\ Late' /\ Counts' /\ Announced'
      /\ SucceededIsComplete'
      /\ \A i \in Job : at'[i] = at[i] /\ Present(i)' = Present(i)
    BY <1>2, <1>3, <1>5, <1>6, RequestMoves DEF TypeOK
<1>8. Requests'
    <2> SUFFICES ASSUME NEW p \in Request
                 PROVE  Requests!(p)'
        BY DEF Requests
    <2>1. CASE p = q
        BY <1>1, <1>2, <1>3, <1>4, <1>7, <2>1 DEF Pending
    <2>2. CASE p # q
        BY <1>2, <1>3, <1>7, <2>2 DEF StudioInv, Requests, Pending, Thread
    <2> QED BY <2>1, <2>2
<1>9. Owners'
    BY <1>2, <1>3, <1>7 DEF StudioInv, Owners, Thread
<1>10. Rest'
    BY <1>2, <1>7 DEF StudioInv, Rest, Single, Pending
<1>11. AnnouncedEndIsStored'
    BY <1>2, <1>3, <1>5 DEF StudioInv, AnnouncedEndIsStored, Cancels
<1> QED BY <1>6, <1>7, <1>8, <1>9, <1>10, <1>11 DEF StudioInv

LEMMA AnnounceJobStep ==
    ASSUME StudioAssumption, StudioInv, NEW q \in Request, AnnounceJob(q)
    PROVE  StudioInv'
<1>1. PICK j \in Job : last' = [last EXCEPT ![j] = "CREATED"]
    BY DEF AnnounceJob, StudioInv, TypeOK
<1>2. /\ at[q] = "announce" /\ q \in Thread /\ at' = [at EXCEPT ![q] = "launch"]
      /\ UNCHANGED <<row, key, candidates, flagged, todo, phase, snap, ordinal, serves, wants,
                     late, restarts>>
    BY IdleRequest DEF AnnounceJob
<1>3. at'[q] = "launch" /\ \A t \in Thread : t # q => at'[t] = at[t]
    BY <1>2 DEF StudioInv, TypeOK
<1>4. \A i \in Job : last'[i] \notin Settled \/ last'[i] = last[i]
    BY <1>1 DEF StudioInv, TypeOK, Settled
<1>5. TypeOK'
    <2>1. "CREATED" \in JobStatus
        BY DEF JobStatus
    <2> QED BY <1>1, <1>2, <2>1 DEF StudioInv, TypeOK
<1>6. /\ Threads' /\ Shape' /\ Orders' /\ Phases' /\ Late' /\ Counts' /\ Announced'
      /\ SucceededIsComplete'
      /\ \A i \in Job : at'[i] = at[i] /\ Present(i)' = Present(i)
    BY <1>2, <1>3, <1>5, RequestMoves DEF TypeOK, Cancels
<1>7. Requests'
    <2> SUFFICES ASSUME NEW p \in Request
                 PROVE  Requests!(p)'
        BY DEF Requests
    <2>1. CASE p = q
        BY <1>2, <1>3, <1>6, <2>1 DEF StudioInv, Requests, Pending
    <2>2. CASE p # q
        BY <1>2, <1>3, <1>6, <2>2 DEF StudioInv, Requests, Pending, Thread
    <2> QED BY <2>1, <2>2
<1>8. Owners'
    BY <1>2, <1>3, <1>6 DEF StudioInv, Owners, Thread
<1>9. Rest'
    BY <1>2, <1>4, <1>6 DEF StudioInv, Rest, Single, Pending
<1>10. AnnouncedEndIsStored'
    BY <1>2, <1>4 DEF StudioInv, AnnouncedEndIsStored, Cancels
<1> QED BY <1>5, <1>6, <1>7, <1>8, <1>9, <1>10 DEF StudioInv

\* The INSERT was refused: another request's job has the key.
LEMMA RefusedInsertStep ==
    ASSUME StudioAssumption, StudioInv, NEW q \in Request, at[q] = "create",
           at' = [at EXCEPT ![q] = "end"],
           UNCHANGED <<tables, flagged, todo, phase, snap, ordinal, serves, wants, late, restarts>>
    PROVE  StudioInv'
<1>1. /\ q \in Thread /\ todo[q] = <<>>
      /\ at'[q] = "end" /\ \A t \in Thread : t # q => at'[t] = at[t]
    BY IdleRequest DEF StudioInv, TypeOK
<1>2. TypeOK'
    BY <1>1 DEF StudioInv, TypeOK, tables
<1>3. /\ Threads' /\ Shape' /\ Orders' /\ Phases' /\ Late' /\ Counts' /\ Announced'
      /\ SucceededIsComplete'
      /\ \A i \in Job : at'[i] = at[i] /\ Present(i)' = Present(i)
    BY <1>1, <1>2, RequestMoves DEF TypeOK, Cancels, tables
<1>4. Requests'
    <2> SUFFICES ASSUME NEW p \in Request
                 PROVE  Requests!(p)'
        BY DEF Requests
    <2>1. CASE p = q
        BY <1>1, <1>3, <2>1 DEF StudioInv, Requests, Pending, tables
    <2>2. CASE p # q
        BY <1>1, <1>3, <2>2 DEF StudioInv, Requests, Pending, Thread, tables
    <2> QED BY <2>1, <2>2
<1>5. Owners'
    BY <1>1, <1>3 DEF StudioInv, Owners, Thread, tables
<1>6. Rest'
    BY <1>3 DEF StudioInv, Rest, Single, Pending, tables
<1>7. AnnouncedEndIsStored'
    BY DEF StudioInv, AnnouncedEndIsStored, Cancels, tables
<1> QED BY <1>2, <1>3, <1>4, <1>5, <1>6, <1>7 DEF StudioInv

LEMMA InsertStep ==
    ASSUME StudioAssumption, StudioInv, NEW q \in Request, at[q] = "create",
           NEW k \in wants[q], k = NoKey \/ \A i \in Job : Present(i) => key[i] # k,
           NEW j \in Job, ~Present(j),
           at' = [at EXCEPT ![q] = "announce"],
           row' = [row EXCEPT ![j].status = "CREATED"],
           key' = [key EXCEPT ![j] = k],
           serves' = [serves EXCEPT ![q] = {j}],
           UNCHANGED <<candidates, last, flagged, todo, phase, snap, ordinal, wants, late, restarts>>
    PROVE  StudioInv'
<1>1. /\ todo[q] = <<>> /\ phase[q] = "check" /\ q \in Thread
      /\ \A i \in Job : i # q /\ i \in Thread
    BY IdleRequest
<1>2. /\ at'[q] = "announce" /\ serves'[q] = {j}
      /\ \A t \in Thread : t # q => at'[t] = at[t]
      /\ \A p \in Request : p # q => serves'[p] = serves[p]
    BY <1>1 DEF StudioInv, TypeOK
<1>3. /\ row'[j].status = "CREATED" /\ row'[j] \in Row /\ key'[j] = k
      /\ \A i \in Job : i # j => row'[i] = row[i] /\ key'[i] = key[i]
    <2>1. row \in [Job -> Row] /\ row[j] \in Row /\ "CREATED" \in JobStatus
        BY DEF StudioInv, TypeOK, JobStatus
    <2>2. [row[j] EXCEPT !.status = "CREATED"] \in Row
          /\ [row[j] EXCEPT !.status = "CREATED"].status = "CREATED"
        BY <2>1 DEF Row
    <2>3. row'[j] = [row[j] EXCEPT !.status = "CREATED"]
          /\ \A i \in Job : i # j => row'[i] = row[i]
        BY <2>1
    <2>4. key'[j] = k /\ \A i \in Job : i # j => key'[i] = key[i]
        BY DEF StudioInv, TypeOK
    <2> QED BY <2>2, <2>3, <2>4
<1>4. \A i \in Job : at'[i] = at[i]
    BY <1>1, <1>2
<1>5. at[j] = "new" /\ last[j] \notin Settled /\ todo[j] = <<>>
    BY DEF StudioInv, Owners, Rest, Shape
<1>6. /\ Present(j)' /\ \A i \in Job : i # j => Present(i)' = Present(i)
      /\ \A i \in Job : Present(i) => i # j /\ Present(i)' /\ key'[i] = key[i]
    BY <1>3 DEF Present
<1>7. wants[q] = {k} /\ k \in Key \cup {NoKey}
    BY DEF StudioInv, Requests
<1>8. TypeOK'
    <2>1. row' \in [Job -> Row]
        BY <1>3 DEF StudioInv, TypeOK
    <2> QED BY <1>7, <2>1 DEF StudioInv, TypeOK
<1>9. Threads' /\ Shape' /\ Late' /\ Phases'
    BY <1>4 DEF StudioInv, Threads, Shape, Late, Phases, Update
<1>10. Orders'
    <2> SUFFICES ASSUME NEW p \in Request
                 PROVE  Orders!(p)'
        BY DEF Orders
    <2>1. CASE p = q
        BY <1>1, <1>2, <2>1
    <2>2. CASE p # q
        BY <1>2, <2>2 DEF StudioInv, Orders, Thread
    <2> QED BY <2>1, <2>2
<1>11. Requests'
    <2> SUFFICES ASSUME NEW p \in Request
                 PROVE  Requests!(p)'
        BY DEF Requests
    <2>1. CASE p = q
        <3>1. at'[q] = "announce" /\ ~Pending(q)' /\ wants'[q] = {k} /\ serves'[q] = {j}
            BY <1>1, <1>2, <1>7 DEF Pending
        <3>2. Present(j)' /\ at'[j] = "new" /\ key'[j] = k
            BY <1>3, <1>4, <1>5, <1>6
        <3> QED BY <1>7, <2>1, <3>1, <3>2
    <2>2. CASE p # q
        <3>1. at'[p] = at[p] /\ serves'[p] = serves[p] /\ wants'[p] = wants[p]
              /\ (Pending(p)' <=> Pending(p))
            BY <1>2, <2>2 DEF Thread, Pending
        <3>2. at[p] \in {"announce", "launch"} =>
                 wants[p] # {} /\ \E i \in Job : serves[p] = {i} /\ Present(i)' /\ at'[i] = "new"
            BY <1>4, <1>6 DEF StudioInv, Requests
        <3>3. at[p] = "flag" \/ Pending(p) =>
                 wants[p] = {} /\ \E i \in Job : serves[p] = {i} /\ Present(i)'
            BY <1>6 DEF StudioInv, Requests
        <3>4. \A c \in Key, i \in Job : wants[p] = {c} /\ i \in serves[p] => Present(i)' /\ key'[i] = c
            BY <1>6 DEF StudioInv, Requests
        <3>5. /\ at[p] = "new" => serves[p] = {} /\ wants[p] = {}
              /\ at[p] = "create" => wants[p] # {} /\ serves[p] = {}
              /\ Pending(p) => serves[p] \subseteq flagged
              /\ wants[p] # {} => \E c \in Key \cup {NoKey} : wants[p] = {c}
            BY DEF StudioInv, Requests
        <3> QED BY <3>1, <3>2, <3>3, <3>4, <3>5
    <2> QED BY <2>1, <2>2
<1>12. Owners'
    <2>1. \A i \in Job : at'[i] # "new" => Present(i)'
        BY <1>4, <1>5, <1>6 DEF StudioInv, Owners
    <2>2. ASSUME NEW p \in Request, p # q, at'[p] \in {"announce", "launch"}
          PROVE  serves'[p] # serves'[q]
        <3>1. at[p] \in {"announce", "launch"} /\ serves'[p] = serves[p]
            BY <1>2, <2>2 DEF Thread
        <3>2. PICK i \in Job : serves[p] = {i} /\ Present(i)
            BY <3>1 DEF StudioInv, Requests
        <3> QED BY <1>2, <1>6, <3>1, <3>2
    <2>3. ASSUME NEW p \in Request, NEW r \in Request, p # q, r # q,
                 at'[p] \in {"announce", "launch"}, at'[r] \in {"announce", "launch"},
                 serves'[p] = serves'[r]
          PROVE  p = r
        BY <1>2, <2>3 DEF StudioInv, Owners, Thread
    <2>4. ASSUME NEW i \in Job, NEW m \in Job, Present(i)', Present(m)', key'[i] = key'[m],
                 key'[i] \in Key
          PROVE  i = m
        <3>1. k \in Key => k # NoKey
            BY DEF StudioAssumption
        <3>2. CASE i # j /\ m # j
            BY <1>3, <1>6, <2>4, <3>2 DEF StudioInv, Owners
        <3>3. CASE i = j /\ m # j
            BY <1>3, <1>6, <2>4, <3>1, <3>3
        <3>4. CASE i # j /\ m = j
            BY <1>3, <1>6, <2>4, <3>1, <3>4
        <3> QED BY <3>2, <3>3, <3>4
    <2> QED BY <2>1, <2>2, <2>3, <2>4 DEF Owners
<1>13. Rest'
    <2>1. row'[j].status \notin Settled
        BY <1>3 DEF Settled
    <2> QED BY <1>3, <1>4, <2>1 DEF StudioInv, Rest, Single, Pending
<1>14. Counts'
    <2> SUFFICES ASSUME NEW i \in Job
                 PROVE  Counts!(i)'
        BY DEF Counts
    <2>1. Finishing(i)' = Finishing(i)
        BY <1>4 DEF Finishing
    <2>2. CASE i = j
        <3>1. ~Finishing(j)
            BY <1>5 DEF Finishing
        <3> QED BY <1>4, <1>5, <2>1, <2>2, <3>1 DEF StudioInv, Counts
    <2>3. CASE i # j
        <3>1. ASSUME NEW p \in Request, serves'[p] = {i}, phase'[p] = "write"
              PROVE  serves[p] = {i} /\ phase[p] = "write"
            BY <1>1, <1>2, <3>1
        <3> QED BY <1>3, <1>4, <2>1, <2>3, <3>1 DEF StudioInv, Counts
    <2> QED BY <2>2, <2>3
<1>15. \A p \in Request, i \in Job : Cancels(p, i)' <=> Cancels(p, i)
    <2> SUFFICES ASSUME NEW p \in Request, NEW i \in Job
                 PROVE  Cancels(p, i)' <=> Cancels(p, i)
        OBVIOUS
    <2>1. CASE p = q
        BY <1>7, <2>1 DEF Cancels
    <2>2. CASE p # q
        BY <1>2, <2>2 DEF Cancels
    <2> QED BY <2>1, <2>2
<1>16. Announced'
    <2>1. phase[j] = "check"
        BY <1>1, <1>5 DEF StudioInv, Phases
    <2> QED BY <1>3, <1>15, <2>1 DEF StudioInv, Announced, Update
<1>17. SucceededIsComplete'
    BY <1>3 DEF StudioInv, SucceededIsComplete
<1>18. AnnouncedEndIsStored'
    BY <1>3, <1>5, <1>15 DEF StudioInv, AnnouncedEndIsStored
<1> QED BY <1>8, <1>9, <1>10, <1>11, <1>12, <1>13, <1>14, <1>16, <1>17, <1>18 DEF StudioInv

LEMMA CreateJobStep ==
    ASSUME StudioAssumption, StudioInv, NEW q \in Request, CreateJob(q)
    PROVE  StudioInv'
<1>1. PICK k \in wants[q] :
         IF k # NoKey /\ \E j \in Job : Present(j) /\ key[j] = k
         THEN at' = [at EXCEPT ![q] = "end"] /\ UNCHANGED <<row, key, serves>>
         ELSE /\ at' = [at EXCEPT ![q] = "announce"]
              /\ \E j \in Job :
                    /\ ~Present(j)
                    /\ row' = [row EXCEPT ![j].status = "CREATED"]
                    /\ key' = [key EXCEPT ![j] = k]
                    /\ serves' = [serves EXCEPT ![q] = {j}]
    BY DEF CreateJob
<1>2. /\ at[q] = "create"
      /\ UNCHANGED <<candidates, last, flagged, todo, phase, snap, ordinal, wants, late, restarts>>
    BY DEF CreateJob
<1>3. CASE k # NoKey /\ \E j \in Job : Present(j) /\ key[j] = k
    BY <1>1, <1>2, <1>3, RefusedInsertStep DEF tables
<1>4. CASE ~(k # NoKey /\ \E j \in Job : Present(j) /\ key[j] = k)
    <2>1. PICK j \in Job :
             /\ ~Present(j)
             /\ row' = [row EXCEPT ![j].status = "CREATED"]
             /\ key' = [key EXCEPT ![j] = k]
             /\ serves' = [serves EXCEPT ![q] = {j}]
        BY <1>1, <1>4
    <2>2. at' = [at EXCEPT ![q] = "announce"]
        BY <1>1, <1>4
    <2>3. k = NoKey \/ \A i \in Job : Present(i) => key[i] # k
        BY <1>4
    <2> QED BY <1>2, <2>1, <2>2, <2>3, InsertStep
<1> QED BY <1>3, <1>4

LEMMA StartThreadStep ==
    ASSUME StudioAssumption, StudioInv, NEW q \in Request, StartThread(q)
    PROVE  StudioInv'
<1>1. PICK j \in Job : serves[q] = {j} /\ Present(j) /\ at[j] = "new"
    BY DEF StartThread, StudioInv, Requests
<1>2. /\ at[q] = "launch" /\ at' = [at EXCEPT ![q] = "end", ![j] = "start"]
      /\ UNCHANGED <<row, key, candidates, last, flagged, todo, phase, snap, ordinal, serves, wants,
                     late, restarts>>
    BY <1>1 DEF StartThread, tables
<1>3. /\ q \in Thread /\ j \in Thread /\ \A i \in Job : i # q /\ i \in Thread
      /\ todo[q] = <<>>
    BY <1>2, IdleRequest
<1>4. /\ at'[q] = "end" /\ at'[j] = "start"
      /\ \A t \in Thread : t # q /\ t # j => at'[t] = at[t]
    BY <1>2, <1>3 DEF StudioInv, TypeOK
<1>5. \A p \in Request : p # j
    BY DEF StudioAssumption
<1>6. TypeOK'
    BY <1>2 DEF StudioInv, TypeOK
<1>7. Threads' /\ Phases'
    BY <1>2 DEF StudioInv, Threads, Phases, Update
<1>8. Shape'
    <2> SUFFICES ASSUME NEW i \in Job
                 PROVE  Shape!(i)'
        BY DEF Shape
    <2>1. CASE i = j
        BY <1>1, <1>2, <1>4, <2>1 DEF StudioInv, Shape
    <2>2. CASE i # j
        <3>1. at'[i] = at[i]
            BY <1>3, <1>4, <2>2
        <3> QED BY <1>2, <3>1 DEF StudioInv, Shape
    <2> QED BY <2>1, <2>2
<1>9. Orders'
    <2> SUFFICES ASSUME NEW p \in Request
                 PROVE  Orders!(p)'
        BY DEF Orders
    <2>1. CASE p = q
        BY <1>2, <1>3, <1>4, <2>1
    <2>2. CASE p # q
        <3>1. at'[p] = at[p]
            BY <1>4, <1>5, <2>2 DEF Thread
        <3> QED BY <1>2, <3>1 DEF StudioInv, Orders
    <2> QED BY <2>1, <2>2
<1>10. Requests'
    <2> SUFFICES ASSUME NEW p \in Request
                 PROVE  Requests!(p)'
        BY DEF Requests
    <2>1. CASE p = q
        BY <1>1, <1>2, <1>3, <1>4, <2>1 DEF StudioInv, Requests, Pending, Present
    <2>2. CASE p # q
        <3>1. at'[p] = at[p]
            BY <1>4, <1>5, <2>2 DEF Thread
        <3>2. at[p] \in {"announce", "launch"} => serves[p] # {j}
            BY <1>1, <1>2, <2>2 DEF StudioInv, Owners
        <3>3. \A i \in Job : i # j => at'[i] = at[i]
            BY <1>3, <1>4
        <3>4. at[p] \in {"announce", "launch"} =>
                 \E i \in Job : serves[p] = {i} /\ Present(i) /\ at'[i] = "new"
            BY <3>2, <3>3 DEF StudioInv, Requests
        <3>5. (Pending(p)' <=> Pending(p)) /\ \A i \in Job : Present(i)' <=> Present(i)
            BY <1>2 DEF Pending, Present
        <3>6. /\ at[p] = "new" => serves[p] = {} /\ wants[p] = {}
              /\ at[p] = "create" => wants[p] # {} /\ serves[p] = {}
              /\ at[p] \in {"announce", "launch"} => wants[p] # {}
              /\ at[p] = "flag" \/ Pending(p) =>
                    wants[p] = {} /\ \E i \in Job : serves[p] = {i} /\ Present(i)
              /\ Pending(p) => serves[p] \subseteq flagged
              /\ wants[p] # {} => \E k \in Key \cup {NoKey} : wants[p] = {k}
              /\ \A k \in Key, i \in Job : wants[p] = {k} /\ i \in serves[p] => Present(i) /\ key[i] = k
            BY DEF StudioInv, Requests
        <3> QED BY <1>2, <3>1, <3>4, <3>5, <3>6
    <2> QED BY <2>1, <2>2
<1>11. Owners'
    <2>1. \A i \in Job : at'[i] # "new" => Present(i)'
        BY <1>1, <1>2, <1>3, <1>4 DEF StudioInv, Owners, Present
    <2>2. \A p \in Request : at'[p] \in {"announce", "launch"} => at[p] = at'[p]
        BY <1>4, <1>5 DEF Thread
    <2> QED BY <1>2, <2>1, <2>2 DEF StudioInv, Owners, Present
<1>12. Late'
    <2> SUFFICES ASSUME NEW i \in Job
                 PROVE  Late!(i)'
        BY DEF Late
    <2>1. CASE i = j
        BY <1>1, <1>2, <2>1, LateCalls
    <2>2. CASE i # j
        <3>1. at'[i] = at[i]
            BY <1>3, <1>4, <2>2
        <3> QED BY <1>2, <3>1 DEF StudioInv, Late
    <2> QED BY <2>1, <2>2
<1>13. Rest'
    <2> SUFFICES ASSUME NEW i \in Job
                 PROVE  Rest!(i)'
        BY DEF Rest
    <2>1. CASE i = j
        BY <1>1, <1>2, <1>4, <2>1 DEF StudioInv, Rest
    <2>2. CASE i # j
        <3>1. at'[i] = at[i]
            BY <1>3, <1>4, <2>2
        <3> QED BY <1>2, <3>1 DEF StudioInv, Rest, Single, Pending
    <2> QED BY <2>1, <2>2
<1>14. Counts'
    <2> SUFFICES ASSUME NEW i \in Job
                 PROVE  Counts!(i)'
        BY DEF Counts
    <2>1. CASE i = j
        <3>1. ~Finishing(j)'
            BY <1>4 DEF Finishing
        <3> QED BY <1>1, <1>2, <1>4, <2>1, <3>1 DEF StudioInv, Counts
    <2>2. CASE i # j
        <3>1. at'[i] = at[i]
            BY <1>3, <1>4, <2>2
        <3>2. Finishing(i)' = Finishing(i)
            BY <1>2, <3>1 DEF Finishing
        <3> QED BY <1>2, <3>1, <3>2 DEF StudioInv, Counts
    <2> QED BY <2>1, <2>2
<1>15. Announced' /\ SucceededIsComplete' /\ AnnouncedEndIsStored'
    BY <1>2 DEF StudioInv, Announced, SucceededIsComplete, AnnouncedEndIsStored, Cancels, Update
<1> QED BY <1>6, <1>7, <1>8, <1>9, <1>10, <1>11, <1>12, <1>13, <1>14, <1>15 DEF StudioInv

LEMMA FlagStep ==
    ASSUME StudioAssumption, StudioInv, NEW q \in Request, Flag(q)
    PROVE  StudioInv'
<1>1. PICK j \in Job : serves[q] = {j} /\ Present(j) /\ wants[q] = {}
    BY DEF Flag, StudioInv, Requests
<1>2. /\ at[q] = "flag" /\ flagged' = flagged \cup {j} /\ at' = [at EXCEPT ![q] = "end"]
      /\ todo' = [todo EXCEPT ![q] = <<Emit("CANCEL_REQUESTED"), Emit("CANCELLED")>>]
      /\ UNCHANGED <<row, key, candidates, last, phase, snap, ordinal, serves, wants, late, restarts>>
    BY <1>1 DEF Flag, tables
<1>3. q \in Thread /\ phase[q] = "check" /\ \A i \in Job : i # q /\ i \in Thread
    BY <1>2, IdleRequest
<1>4. /\ at'[q] = "end"
      /\ todo'[q] = <<Emit("CANCEL_REQUESTED"), Emit("CANCELLED")>>
      /\ \A t \in Thread : t # q => at'[t] = at[t] /\ todo'[t] = todo[t]
    BY <1>2, <1>3 DEF StudioInv, TypeOK, Threads
<1>5. \A i \in Job : at'[i] = at[i] /\ todo'[i] = todo[i]
    BY <1>3, <1>4
<1>6. TypeOK' /\ Threads'
    BY <1>2 DEF StudioInv, TypeOK, Threads
<1>7. Shape'
    BY <1>2, <1>5 DEF StudioInv, Shape
<1>8. Orders'
    <2> SUFFICES ASSUME NEW p \in Request
                 PROVE  Orders!(p)'
        BY DEF Orders
    <2>1. CASE p = q
        BY <1>4, <2>1
    <2>2. CASE p # q
        BY <1>4, <2>2 DEF StudioInv, Orders, Thread
    <2> QED BY <2>1, <2>2
<1>9. Phases'
    <2> SUFFICES ASSUME NEW t \in Thread
                 PROVE  Phases!(t)'
        BY DEF Phases
    <2>1. CASE t = q
        BY <1>2, <1>3, <2>1
    <2>2. CASE t # q
        BY <1>2, <1>4, <2>2 DEF StudioInv, Phases, Update
    <2> QED BY <2>1, <2>2
<1>10. Requests'
    <2> SUFFICES ASSUME NEW p \in Request
                 PROVE  Requests!(p)'
        BY DEF Requests
    <2>1. CASE p = q
        BY <1>1, <1>2, <1>4, <2>1 DEF Present
    <2>2. CASE p # q
        <3>1. at'[p] = at[p] /\ (Pending(p)' <=> Pending(p))
            BY <1>4, <2>2 DEF Thread, Pending
        <3>2. \A i \in Job : Present(i)' <=> Present(i)
            BY <1>2 DEF Present
        <3>3. Pending(p) => serves[p] \subseteq flagged'
            BY <1>2 DEF StudioInv, Requests
        <3>4. /\ at[p] = "new" => serves[p] = {} /\ wants[p] = {}
              /\ at[p] = "create" => wants[p] # {} /\ serves[p] = {}
              /\ at[p] \in {"announce", "launch"} =>
                    wants[p] # {} /\ \E i \in Job : serves[p] = {i} /\ Present(i) /\ at[i] = "new"
              /\ at[p] = "flag" \/ Pending(p) =>
                    wants[p] = {} /\ \E i \in Job : serves[p] = {i} /\ Present(i)
              /\ wants[p] # {} => \E k \in Key \cup {NoKey} : wants[p] = {k}
              /\ \A k \in Key, i \in Job : wants[p] = {k} /\ i \in serves[p] => Present(i) /\ key[i] = k
            BY DEF StudioInv, Requests
        <3> QED BY <1>2, <1>5, <3>1, <3>2, <3>3, <3>4
    <2> QED BY <2>1, <2>2
<1>11. Owners'
    BY <1>2, <1>4, <1>5 DEF StudioInv, Owners, Present, Thread
<1>12. Late'
    BY <1>2, <1>5 DEF StudioInv, Late
<1>13. Rest'
    BY <1>2, <1>5 DEF StudioInv, Rest, Single, Pending
<1>14. Counts'
    BY <1>2, <1>5 DEF StudioInv, Counts, Finishing
<1>15. Announced' /\ SucceededIsComplete' /\ AnnouncedEndIsStored'
    BY <1>2, <1>5 DEF StudioInv, Announced, SucceededIsComplete, AnnouncedEndIsStored, Cancels,
                      Update
<1> QED BY <1>6, <1>7, <1>8, <1>9, <1>10, <1>11, <1>12, <1>13, <1>14, <1>15 DEF StudioInv

LEMMA ServerStep ==
    ASSUME StudioAssumption, StudioInv, NEW q \in Request, Server(q)
    PROVE  StudioInv'
    BY RequestStoreStep, SubmitStep, CreateJobStep, AnnounceJobStep, StartThreadStep,
       CancelJobStep, FlagStep DEF Server

-----------------------------------------------------------------------------
(* The start, a restart, and the theorems.                                 *)

LEMMA RestartStep ==
    ASSUME StudioAssumption, StudioInv, Restart
    PROVE  StudioInv'
<1>1. /\ restarts < MaxRestart /\ restarts' = restarts + 1 /\ flagged' = {}
      /\ at' = [t \in Thread |-> IF at[t] = "new" THEN "new" ELSE "end"]
      /\ todo' = [t \in Thread |-> <<>>]
      /\ phase' = [t \in Thread |-> "check"]
      /\ snap' = [t \in Thread |-> NoRow]
      /\ UNCHANGED <<row, key, candidates, last, ordinal, serves, wants, late>>
    BY DEF Restart, tables
<1>2. \A t \in Thread :
         /\ at'[t] = IF at[t] = "new" THEN "new" ELSE "end"
         /\ todo'[t] = <<>> /\ phase'[t] = "check" /\ snap'[t] = NoRow
    BY <1>1
<1>3. (\A j \in Job : j \in Thread) /\ (\A q \in Request : q \in Thread)
    BY DEF Thread
<1>4. TypeOK'
    <2>1. NoRow \in Row
        BY DEF NoRow, Row, StudioAssumption
    <2>2. restarts' \in 0..MaxRestart
        BY <1>1 DEF StudioInv, TypeOK, StudioAssumption
    <2> QED BY <1>1, <2>1, <2>2 DEF StudioInv, TypeOK
<1>5. Threads'
    BY <1>1 DEF Threads
<1>6. Shape' /\ Orders' /\ Phases'
    BY <1>2, <1>3 DEF Shape, Orders, Phases
<1>7. Requests'
    <2> SUFFICES ASSUME NEW q \in Request
                 PROVE  Requests!(q)'
        BY DEF Requests
    <2>1. ~Pending(q)' /\ at'[q] \in {"new", "end"} /\ (at'[q] = "new" => at[q] = "new")
        BY <1>2, <1>3 DEF Pending
    <2> QED BY <1>1, <2>1 DEF StudioInv, Requests, Present
<1>8. Owners'
    <2>1. \A q \in Request : at'[q] \notin {"announce", "launch"}
        BY <1>2, <1>3
    <2>2. \A j \in Job : at'[j] # "new" => at[j] # "new"
        BY <1>2, <1>3
    <2> QED BY <1>1, <2>1, <2>2 DEF StudioInv, Owners, Present
<1>9. Late'
    BY <1>1, <1>2, <1>3 DEF StudioInv, Late
<1>10. Rest'
    <2>1. \A j \in Job : row[j].status \in Settled \/ last[j] \in Settled => at[j] = "end"
        BY DEF StudioInv, Rest
    <2>2. NoRow.status \notin Settled
        BY DEF NoRow, Settled
    <2> QED BY <1>1, <1>2, <1>3, <2>1, <2>2 DEF Rest
<1>11. Counts'
    <2>1. \A j \in Job : ~Finishing(j)'
        BY <1>2, <1>3, OneUpdate, TwoUpdates DEF Finishing
    <2> QED BY <1>1, <1>2, <1>3, <2>1 DEF StudioInv, Counts
<1>12. Announced' /\ SucceededIsComplete' /\ AnnouncedEndIsStored'
    <2>1. Announced'
        BY <1>2, <1>3 DEF Announced
    <2>2. SucceededIsComplete' /\ AnnouncedEndIsStored'
        BY <1>1 DEF StudioInv, SucceededIsComplete, AnnouncedEndIsStored, Cancels
    <2> QED BY <2>1, <2>2
<1> QED BY <1>4, <1>5, <1>6, <1>7, <1>8, <1>9, <1>10, <1>11, <1>12 DEF StudioInv

LEMMA StudioStarts ==
    ASSUME StudioAssumption, Init
    PROVE  StudioInv
<1>1. (\A j \in Job : j \in Thread) /\ (\A q \in Request : q \in Thread)
    BY DEF Thread
<1>2. \A t \in Thread : at[t] = "new" /\ todo[t] = <<>> /\ phase[t] = "check" /\ snap[t] = NoRow
    BY DEF Init
<1>3. /\ \A j \in Job : /\ row[j] = NoRow /\ last[j] = "absent" /\ ordinal[j] = 1 /\ late[j] = 0
                        /\ ~Present(j)
      /\ \A q \in Request : serves[q] = {} /\ wants[q] = {}
    BY DEF Init, Present, NoRow
<1>4. NoRow.status = "absent" /\ NoRow \in Row
    BY DEF NoRow, Row, StudioAssumption
<1>5. TypeOK
    BY <1>4 DEF Init, TypeOK, StudioAssumption
<1>6. Threads
    BY DEF Init, Threads
<1>7. Shape /\ Orders /\ Phases
    BY <1>1, <1>2 DEF Shape, Orders, Phases
<1>8. Requests /\ Owners /\ Late
    BY <1>1, <1>2, <1>3 DEF Requests, Owners, Late, Pending
<1>9. Rest
    BY <1>1, <1>2, <1>3, <1>4 DEF Rest, Settled
<1>10. Counts
    BY <1>1, <1>2, <1>3 DEF Counts, Finishing
<1>11. Announced /\ SucceededIsComplete /\ AnnouncedEndIsStored
    BY <1>1, <1>2, <1>3, <1>4 DEF Announced, SucceededIsComplete, AnnouncedEndIsStored, Settled
<1> QED BY <1>5, <1>6, <1>7, <1>8, <1>9, <1>10, <1>11 DEF StudioInv

LEMMA StudioStutters ==
    ASSUME StudioInv, UNCHANGED vars
    PROVE  StudioInv'
<1>1. TypeOK' /\ Threads'
    BY DEF StudioInv, TypeOK, Threads, vars, tables, threads
<1>2. Shape' /\ Orders' /\ Phases'
    BY DEF StudioInv, Shape, Orders, Phases, Update, vars, tables, threads
<1>3. Requests'
    BY DEF StudioInv, Requests, Pending, Present, vars, tables, threads
<1>4. Owners' /\ Late' /\ Rest'
    BY DEF StudioInv, Owners, Late, Rest, Single, Pending, Present, vars, tables, threads
<1>5. Counts'
    BY DEF StudioInv, Counts, Finishing, vars, tables, threads
<1>6. Announced' /\ SucceededIsComplete' /\ AnnouncedEndIsStored'
    BY DEF StudioInv, Announced, SucceededIsComplete, AnnouncedEndIsStored, Cancels, Update,
           vars, tables, threads
<1> QED BY <1>1, <1>2, <1>3, <1>4, <1>5, <1>6 DEF StudioInv

\* The invariant holds in every state, whatever the interleaving of workers,
\* requests and restarts.
THEOREM StudioInvariant == Spec => []StudioInv
<1>1. Init => StudioInv
    BY StudioAssumption, StudioStarts
<1>2. StudioInv /\ [Next]_vars => StudioInv'
    BY StudioAssumption, WorkerStep, ServerStep, RestartStep, StudioStutters DEF Next
<1> QED BY <1>1, <1>2, PTL DEF Spec

\* Every table, flag and thread keeps its type: at most candidate_count
\* candidates, and a count that never passes it.
THEOREM StudioTypeOK == Spec => []TypeOK
<1>1. StudioInv => TypeOK
    BY DEF StudioInv
<1> QED BY <1>1, StudioInvariant, PTL

\* Idempotent submission, for any number of concurrent requests: find_idempotent_job
\* is only a look-up, and the UNIQUE constraint decides between two inserts.
THEOREM StudioSameKeySameJob == Spec => []SameKeySameJob
<1>1. ASSUME StudioInv PROVE SameKeySameJob
    <2> SUFFICES ASSUME NEW p \in Request, NEW q \in Request,
                        wants[p] = wants[q], wants[p] \subseteq Key, wants[p] # {},
                        serves[p] # {}, serves[q] # {}
                 PROVE  serves[p] = serves[q]
        BY DEF SameKeySameJob
    <2>1. serves[p] \subseteq Job /\ serves[q] \subseteq Job
        BY <1>1 DEF StudioInv, TypeOK
    <2>2. PICK k \in Key : wants[p] = {k} /\ wants[q] = {k}
        BY <1>1 DEF StudioInv, Requests
    <2>3. \A i \in serves[p] : Present(i) /\ key[i] = k
        BY <1>1, <2>1, <2>2 DEF StudioInv, Requests
    <2>4. \A i \in serves[q] : Present(i) /\ key[i] = k
        BY <1>1, <2>1, <2>2 DEF StudioInv, Requests
    <2>5. \A i \in serves[p], j \in serves[q] : i = j
        BY <1>1, <2>1, <2>3, <2>4 DEF StudioInv, Owners
    <2> QED BY <2>5
<1> QED BY <1>1, StudioInvariant, PTL

\* A job in SUCCEEDED has its candidates counted, whichever threads still hold
\* an old copy of its row.
THEOREM StudioSucceededIsComplete == Spec => []SucceededIsComplete
<1>1. StudioInv => SucceededIsComplete
    BY DEF StudioInv
<1> QED BY <1>1, StudioInvariant, PTL

\* A cancelled job's worker begins at most one more provider call.
THEOREM StudioCancelStopsProvider == Spec => []CancelStopsProvider
<1>1. ASSUME StudioInv PROVE CancelStopsProvider
    <2>1. \A j \in Job : late[j] \in {0, 1}
        BY <1>1, LateCalls
    <2> QED BY <2>1 DEF CancelStopsProvider
<1> QED BY <1>1, StudioInvariant, PTL

\* The end the event stream tells of is the one in the job table, of every job
\* nobody cancels.
THEOREM StudioAnnouncedEndIsStored == Spec => []AnnouncedEndIsStored
<1>1. StudioInv => AnnouncedEndIsStored
    BY DEF StudioInv
<1> QED BY <1>1, StudioInvariant, PTL

-----------------------------------------------------------------------------
(* Finished jobs stay finished.                                            *)

\* No request is in the middle of a cancel of j.
Uncancelled(j) == \A q \in Request : Cancels(q, j) => at[q] = "end" /\ ~Pending(q)

LEMMA WriterKeepsFinished ==
    ASSUME StudioAssumption, StudioInv, NEW t \in Thread, WriteRow(t), NEW j \in Job,
           row[j].status \in Settled, Uncancelled(j)
    PROVE  row'[j].status = row[j].status
<1>1. Pending(t) /\ phase[t] = "write"
    BY DEF WriteRow
<1>2. \A i \in Job : \A r : i # j /\ row' = [row EXCEPT ![i] = r] => row'[j] = row[j]
    BY DEF StudioInv, TypeOK
<1>3. CASE t \in Job
    <2>1. t # j
        BY <1>1, <1>3, BusyWorker
    <2>2. row' = [row EXCEPT ![t] = Merge(snap[t], Update(t).set)]
        BY <1>3 DEF WriteRow, Target
    <2> QED BY <1>2, <1>3, <2>1, <2>2
<1>4. CASE t \in Request
    <2>1. PICK i \in Job : serves[t] = {i} /\ Cancels(t, i) /\ Target(t) = {i}
        BY <1>1, <1>4, BusyRequest
    <2>2. i # j
        BY <1>1, <1>4, <2>1 DEF Uncancelled
    <2>3. row' = [row EXCEPT ![i] = Merge(snap[t], Update(t).set)]
        BY <2>1 DEF WriteRow
    <2> QED BY <1>2, <2>2, <2>3
<1> QED BY <1>3, <1>4 DEF Thread

LEMMA InsertKeepsFinished ==
    ASSUME StudioInv, NEW q \in Request, CreateJob(q), NEW j \in Job, row[j].status \in Settled
    PROVE  row'[j].status = row[j].status
<1>1. \/ UNCHANGED row
      \/ \E i \in Job : ~Present(i) /\ row' = [row EXCEPT ![i].status = "CREATED"]
    BY DEF CreateJob
<1>2. Present(j)
    BY DEF Present, Settled
<1>3. CASE UNCHANGED row
    BY <1>3
<1>4. ASSUME NEW i \in Job, ~Present(i), row' = [row EXCEPT ![i].status = "CREATED"]
      PROVE  row'[j].status = row[j].status
    BY <1>2, <1>4 DEF StudioInv, TypeOK
<1> QED BY <1>1, <1>3, <1>4

LEMMA StoreStepRows ==
    ASSUME NEW t, StoreStep(t), ~WriteRow(t)
    PROVE  UNCHANGED row
    BY DEF StoreStep, CheckCancelled, ReadRow, AppendEvent, tables

LEMMA WorkerRows ==
    ASSUME NEW j \in Job, Worker(j), ~WriteRow(j)
    PROVE  UNCHANGED row
    BY StoreStepRows DEF Worker, Start, SelectProvider, CheckHealth, NextCandidate, Generate,
       RegisterAsset, Progress, Finish

LEMMA ServerRows ==
    ASSUME NEW q \in Request, Server(q), ~WriteRow(q), ~CreateJob(q)
    PROVE  UNCHANGED row
    BY StoreStepRows DEF Server, Submit, AnnounceJob, StartThread, CancelJob, Flag, tables

\* While no cancel of it is in progress a finished job keeps its status: neither
\* a late write of its worker nor another request nor a restart takes it back.
THEOREM StudioFinishedStays == Spec => FinishedStays
<1>1. ASSUME StudioAssumption, StudioInv, [Next]_vars, NEW j \in Job,
             row[j].status \in Settled, Uncancelled(j)
      PROVE  row'[j].status = row[j].status
    <2>1. CASE \E t \in Thread : WriteRow(t)
        BY <1>1, <2>1, WriterKeepsFinished
    <2>2. CASE \E q \in Request : CreateJob(q)
        BY <1>1, <2>2, InsertKeepsFinished
    <2>3. CASE /\ \A t \in Thread : ~WriteRow(t)
               /\ \A q \in Request : ~CreateJob(q)
        <3>1. UNCHANGED row
            BY <1>1, <2>3, WorkerRows, ServerRows DEF Next, Restart, Thread, vars, tables
        <3> QED BY <3>1
    <2> QED BY <2>1, <2>2, <2>3
<1>2. StudioInv /\ [Next]_vars =>
         [\A j \in Job :
             /\ row[j].status \in Settled
             /\ \A q \in Request : Cancels(q, j) => at[q] = "end" /\ ~Pending(q)
             => row'[j].status = row[j].status]_vars
    BY <1>1, StudioAssumption DEF Uncancelled
<1> QED BY <1>2, StudioInvariant, PTL DEF Spec, FinishedStays

-----------------------------------------------------------------------------
(* A worker comes to its end.                                              *)

\* The places a worker still goes through, four for every candidate.
PlacesLeft(j) ==
    LET ahead == 4 * (Requested + 1 - ordinal[j]) IN
    CASE at[j] = "start"    -> ahead + 7
      [] at[j] = "select"   -> ahead + 6
      [] at[j] = "health"   -> ahead + 5
      [] at[j] = "loop"     -> ahead + 4
      [] at[j] = "generate" -> ahead + 3
      [] at[j] = "register" -> ahead + 2
      [] at[j] = "progress" -> ahead + 1
      [] OTHER              -> 0

\* The store calls of the updates it is making: four at most for each.
PhaseNo == [check |-> 0, read |-> 1, write |-> 2, event |-> 3]
CallsLeft(j) == IF todo[j] = <<>> THEN 0 ELSE 4 * Len(todo[j]) - PhaseNo[phase[j]]

Effort(j) == 9 * PlacesLeft(j) + CallsLeft(j)

EffortFits ==
    \A j \in Job :
        /\ PlacesLeft(j) \in Nat /\ CallsLeft(j) \in 0..8
        /\ at[j] \notin {"new", "end"} => PlacesLeft(j) > 0

LEMMA ListLengths ==
    ASSUME NEW u, NEW v
    PROVE  Len(<<>>) = 0 /\ Len(<<u>>) = 1 /\ Len(<<u, v>>) = 2
    OBVIOUS

LEMMA UpdatesLeft ==
    ASSUME StudioInv, NEW j \in Job
    PROVE  /\ Len(todo[j]) \in {0, 1, 2} /\ (todo[j] # <<>> => Len(todo[j]) > 0)
           /\ todo[j] # <<>> => Len(Remaining(j)) = Len(todo[j]) - 1
           /\ Remaining(j) # <<>> => Len(todo[j]) # 1
<1>1. \/ todo[j] = <<>>
      \/ \E u : todo[j] = <<u>>
      \/ \E u, v : todo[j] = <<u, v>>
    BY DEF StudioInv, Shape
<1>2. CASE todo[j] = <<>>
    <2>1. Len(todo[j]) = 0
        BY <1>2
    <2> QED BY <1>2, <2>1
<1>3. ASSUME NEW u, todo[j] = <<u>>
      PROVE  Len(todo[j]) = 1 /\ Remaining(j) = <<>> /\ Len(Remaining(j)) = 0
    BY <1>3, ListLengths, OneUpdate DEF Remaining
<1>4. ASSUME NEW u, NEW v, todo[j] = <<u, v>>
      PROVE  Len(todo[j]) = 2 /\ Len(Remaining(j)) = 1
    <2>1. Remaining(j) = <<v>>
        BY <1>4, TwoUpdates DEF Remaining
    <2>2. Len(<<u, v>>) = 2 /\ Len(<<v>>) = 1
        BY ListLengths
    <2> QED BY <1>4, <2>1, <2>2
<1>5. CASE \E u : todo[j] = <<u>>
    <2>1. Len(todo[j]) = 1 /\ Remaining(j) = <<>> /\ Len(Remaining(j)) = 0
        BY <1>3, <1>5
    <2> QED BY <2>1
<1>6. CASE \E u, v : todo[j] = <<u, v>>
    <2>1. Len(todo[j]) = 2 /\ Len(Remaining(j)) = 1
        BY <1>4, <1>6
    <2> QED BY <2>1
<1> QED BY <1>1, <1>2, <1>5, <1>6

LEMMA EffortType == StudioInv => EffortFits
<1> SUFFICES ASSUME StudioInv, NEW j \in Job
             PROVE  /\ PlacesLeft(j) \in Nat /\ CallsLeft(j) \in 0..8
                    /\ at[j] \notin {"new", "end"} => PlacesLeft(j) > 0
    BY DEF EffortFits
<1>1. /\ Requested + 1 - ordinal[j] \in Nat
      /\ phase[j] \in {"check", "read", "write", "event"}
      /\ at[j] \in Places \cup {"new"}
    BY StudioAssumption DEF StudioInv, TypeOK, Thread, Shape, Places
<1>2. PlacesLeft(j) \in Nat /\ (at[j] \notin {"new", "end"} => PlacesLeft(j) > 0)
    BY <1>1 DEF PlacesLeft, Places
<1>3. PhaseNo[phase[j]] \in 0..3
    BY <1>1 DEF PhaseNo
<1>4. CallsLeft(j) \in 0..8
    <2>1. CASE todo[j] = <<>>
        BY <2>1 DEF CallsLeft
    <2>2. CASE todo[j] # <<>>
        <3>1. Len(todo[j]) \in {1, 2}
            BY <2>2, UpdatesLeft
        <3>2. \A l \in {1, 2}, n \in 0..3 : 4 * l - n \in 0..8
            OBVIOUS
        <3> QED BY <1>3, <2>2, <3>1, <3>2 DEF CallsLeft
    <2> QED BY <2>1, <2>2
<1> QED BY <1>2, <1>4

\* A place is worth more than the store calls of two updates.
LEMMA PlacesFirst ==
    ASSUME EffortFits, EffortFits', NEW j \in Job
    PROVE  /\ Effort(j) \in Nat
           /\ PlacesLeft(j)' < PlacesLeft(j) /\ CallsLeft(j) = 0 => Effort(j)' < Effort(j)
           /\ PlacesLeft(j)' = PlacesLeft(j) /\ CallsLeft(j)' < CallsLeft(j)
                 => Effort(j)' < Effort(j)
<1>1. \A p, q \in Nat, c, d \in 0..8 :
        /\ 9 * p + c \in Nat
        /\ q < p /\ c = 0 => 9 * q + d < 9 * p + c
        /\ q = p /\ d < c => 9 * q + d < 9 * p + c
    OBVIOUS
<1>2. /\ PlacesLeft(j) \in Nat /\ PlacesLeft(j)' \in Nat
      /\ CallsLeft(j) \in 0..8 /\ CallsLeft(j)' \in 0..8
    BY DEF EffortFits
<1> QED BY <1>1, <1>2 DEF Effort

\* What the worker of j has is its own.
LEMMA OthersEffort ==
    ASSUME NEW j \in Job, at'[j] = at[j], ordinal'[j] = ordinal[j], todo'[j] = todo[j],
           phase'[j] = phase[j]
    PROVE  Effort(j)' = Effort(j)
<1>1. PlacesLeft(j)' = PlacesLeft(j)
    BY DEF PlacesLeft
<1>2. CallsLeft(j)' = CallsLeft(j)
    BY DEF CallsLeft
<1> QED BY <1>1, <1>2 DEF Effort

LEMMA StoreNearer ==
    ASSUME StudioInv, EffortFits, EffortFits', NEW j \in Job, StoreStep(j)
    PROVE  Effort(j)' < Effort(j)
<1>0. todo[j] # <<>> /\ UNCHANGED <<at, ordinal>>
    BY DEF StoreStep, CheckCancelled, ReadRow, WriteRow, AppendEvent, Pending
<1>1. /\ j \in Thread
      /\ todo = [t \in Thread |-> todo[t]] /\ phase = [t \in Thread |-> phase[t]]
      /\ phase[j] \in {"check", "read", "write", "event"}
    BY DEF Thread, StudioInv, TypeOK, Threads
<1>2. PlacesLeft(j)' = PlacesLeft(j)
    BY <1>0 DEF PlacesLeft
<1>3. Len(todo[j]) \in {1, 2} /\ Len(Remaining(j)) = Len(todo[j]) - 1
    BY <1>0, UpdatesLeft
<1>4. PhaseNo[phase[j]] \in 0..3 /\ CallsLeft(j) = 4 * Len(todo[j]) - PhaseNo[phase[j]]
    BY <1>0, <1>1 DEF CallsLeft, PhaseNo
<1>5. ASSUME Drop(j) PROVE CallsLeft(j)' < CallsLeft(j)
    <2>1. todo'[j] = Remaining(j) /\ phase'[j] = "check"
        BY <1>1, <1>5 DEF Drop, Remaining
    <2>2. CallsLeft(j)' = IF Remaining(j) = <<>> THEN 0 ELSE 4 * Len(Remaining(j))
        BY <2>1 DEF CallsLeft, PhaseNo
    <2> QED BY <1>3, <1>4, <2>2
<1>6. ASSUME NEW p \in {"read", "write", "event"}, UNCHANGED todo,
             phase' = [phase EXCEPT ![j] = p], PhaseNo[phase[j]] < PhaseNo[p]
      PROVE  CallsLeft(j)' < CallsLeft(j)
    <2>1. todo'[j] = todo[j] /\ phase'[j] = p
        BY <1>1, <1>6
    <2>2. CallsLeft(j)' = 4 * Len(todo[j]) - PhaseNo[p] /\ PhaseNo[p] \in 0..3
        BY <1>0, <1>1, <2>1 DEF CallsLeft, PhaseNo
    <2> QED BY <1>3, <1>4, <1>6, <2>2
<1>7. \/ Drop(j)
      \/ \E p \in {"read", "write", "event"} :
            /\ UNCHANGED todo /\ phase' = [phase EXCEPT ![j] = p]
            /\ PhaseNo[phase[j]] < PhaseNo[p]
    <2>1. CASE CheckCancelled(j)
        BY <2>1 DEF CheckCancelled, PhaseNo
    <2>2. CASE ReadRow(j)
        BY <2>2 DEF ReadRow, PhaseNo
    <2>3. CASE WriteRow(j)
        BY <2>3 DEF WriteRow, PhaseNo
    <2>4. CASE AppendEvent(j)
        BY <2>4 DEF AppendEvent
    <2> QED BY <2>1, <2>2, <2>3, <2>4 DEF StoreStep
<1> QED BY <1>2, <1>5, <1>6, <1>7, PlacesFirst

LEMMA WorkerNearer ==
    ASSUME StudioInv, EffortFits, EffortFits', NEW j \in Job, Worker(j)
    PROVE  Effort(j)' < Effort(j)
<1>1. /\ j \in Thread /\ at = [t \in Thread |-> at[t]]
      /\ ordinal = [i \in Job |-> ordinal[i]]
      /\ Requested \in Nat /\ ordinal[j] \in Nat /\ Requested + 1 - ordinal[j] \in Nat
      /\ (PlacesLeft(j) \in Nat) /\ (at[j] \notin {"new", "end"} => PlacesLeft(j) > 0)
    BY StudioAssumption DEF StudioInv, TypeOK, Thread, EffortFits
<1>2. ASSUME ~Pending(j), NEW place, NEW us, GoOn(j, place, us),
             PlacesLeft(j)' < PlacesLeft(j)
      PROVE  Effort(j)' < Effort(j)
    <2>1. CallsLeft(j) = 0
        BY <1>2 DEF CallsLeft, Pending
    <2> QED BY <1>2, <2>1, PlacesFirst
<1>3. ASSUME at[j] \notin {"new", "end"}, NEW us, GoOn(j, "end", us)
      PROVE  PlacesLeft(j)' < PlacesLeft(j)
    <2>1. at'[j] = "end"
        BY <1>1, <1>3 DEF GoOn
    <2>2. PlacesLeft(j)' = 0
        BY <2>1 DEF PlacesLeft
    <2> QED BY <1>1, <1>3, <2>2
<1>4. ASSUME NEW place, NEW us, GoOn(j, place, us), UNCHANGED ordinal,
             \/ at[j] = "start" /\ place = "select"
             \/ at[j] = "select" /\ place = "health"
             \/ at[j] = "health" /\ place = "loop"
             \/ at[j] = "loop" /\ place = "generate"
             \/ at[j] = "generate" /\ place \in {"register", "progress"}
             \/ at[j] = "register" /\ place = "progress"
      PROVE  PlacesLeft(j)' < PlacesLeft(j)
    <2>1. at'[j] = place /\ ordinal'[j] = ordinal[j]
        BY <1>1, <1>4 DEF GoOn
    <2> QED BY <1>1, <1>4, <2>1 DEF PlacesLeft
<1>5. CASE StoreStep(j)
    BY <1>5, StoreNearer
<1>6. CASE Start(j) \/ SelectProvider(j) \/ CheckHealth(j)
    <2>1. /\ ~Pending(j) /\ UNCHANGED ordinal /\ at[j] \in {"start", "select", "health"}
          /\ \/ \E us : GoOn(j, "end", us)
             \/ at[j] = "start" /\ \E us : GoOn(j, "select", us)
             \/ at[j] = "select" /\ \E us : GoOn(j, "health", us)
             \/ at[j] = "health" /\ \E us : GoOn(j, "loop", us)
        BY <1>6 DEF Start, SelectProvider, CheckHealth, At, Raise
    <2> QED BY <1>2, <1>3, <1>4, <2>1
<1>7. CASE NextCandidate(j) \/ Generate(j) \/ RegisterAsset(j) \/ Finish(j)
    <2>1. /\ ~Pending(j) /\ UNCHANGED ordinal /\ at[j] \in {"loop", "generate", "register"}
          /\ \/ \E us : GoOn(j, "end", us)
             \/ at[j] = "loop" /\ \E us : GoOn(j, "generate", us)
             \/ at[j] = "generate" /\ \E us : GoOn(j, "register", us)
             \/ at[j] = "generate" /\ \E us : GoOn(j, "progress", us)
             \/ at[j] = "register" /\ \E us : GoOn(j, "progress", us)
        BY <1>7 DEF NextCandidate, Generate, RegisterAsset, Finish, At, Raise
    <2> QED BY <1>2, <1>3, <1>4, <2>1
<1>8. CASE Progress(j)
    <2>1. /\ ~Pending(j) /\ at[j] = "progress" /\ ordinal'[j] = ordinal[j] + 1
          /\ \E us : GoOn(j, "loop", us)
        BY <1>1, <1>8 DEF Progress, At
    <2>2. at'[j] = "loop"
        BY <1>1, <2>1 DEF GoOn
    <2>3. PlacesLeft(j)' < PlacesLeft(j)
        BY <1>1, <2>1, <2>2 DEF PlacesLeft
    <2> QED BY <1>2, <2>1, <2>3
<1> QED BY <1>5, <1>6, <1>7, <1>8 DEF Worker

LEMMA EffortStep ==
    ASSUME StudioInv, EffortFits, EffortFits', [Next]_vars, NEW j \in Job, at[j] # "new"
    PROVE  /\ Effort(j) \in Nat /\ Effort(j)' <= Effort(j)
           /\ Worker(j) => Effort(j)' < Effort(j)
           /\ Restart => Effort(j)' = 0
<1>1. Effort(j) \in Nat /\ Effort(j)' \in Nat
    <2>1. \A p \in Nat, c \in 0..8 : 9 * p + c \in Nat
        OBVIOUS
    <2> QED BY <2>1 DEF Effort, EffortFits
<1>2. /\ todo = [t \in Thread |-> todo[t]] /\ at = [t \in Thread |-> at[t]]
      /\ phase = [t \in Thread |-> phase[t]] /\ ordinal = [i \in Job |-> ordinal[i]]
      /\ j \in Thread
    BY DEF StudioInv, TypeOK, Threads, Thread
<1>3. ASSUME Worker(j) PROVE Effort(j)' < Effort(j)
    BY <1>3, WorkerNearer
<1>4. ASSUME NEW t, t # j, StoreStep(t) PROVE Effort(j)' = Effort(j)
    <2>1. /\ at'[j] = at[j] /\ ordinal'[j] = ordinal[j] /\ todo'[j] = todo[j]
          /\ phase'[j] = phase[j]
        BY <1>2, <1>4 DEF StoreStep, CheckCancelled, ReadRow, WriteRow, AppendEvent, Drop
    <2> QED BY <2>1, OthersEffort
<1>5. ASSUME NEW i \in Job, i # j, Worker(i) PROVE Effort(j)' = Effort(j)
    <2>1. CASE StoreStep(i)
        BY <1>4, <1>5, <2>1
    <2>2. CASE ~StoreStep(i)
        <3>1. /\ \E place, us : GoOn(i, place, us)
              /\ ordinal' = ordinal \/ ordinal' = [ordinal EXCEPT ![i] = @ + 1]
            BY <1>5, <2>2 DEF Worker, Start, SelectProvider, CheckHealth, NextCandidate, Generate,
                              RegisterAsset, Progress, Finish, Raise
        <3>2. /\ at'[j] = at[j] /\ ordinal'[j] = ordinal[j] /\ todo'[j] = todo[j]
              /\ phase'[j] = phase[j]
            BY <1>2, <1>5, <3>1 DEF GoOn
        <3> QED BY <3>2, OthersEffort
    <2> QED BY <2>1, <2>2
<1>6. ASSUME NEW q \in Request, Server(q) PROVE Effort(j)' = Effort(j)
    <2>1. q # j /\ q \in Thread
        BY StudioAssumption DEF Thread
    <2>2. CASE StoreStep(q)
        BY <1>4, <2>1, <2>2
    <2>3. ASSUME StartThread(q) PROVE at'[j] = at[j] /\ UNCHANGED <<ordinal, todo, phase>>
        <3>1. PICK i \in Job : serves[q] = {i} /\ at[i] = "new"
            BY <2>3 DEF StartThread, StudioInv, Requests
        <3>2. at' = [at EXCEPT ![q] = "end", ![i] = "start"] /\ i # j
            BY <2>3, <3>1 DEF StartThread
        <3> QED BY <1>2, <2>1, <2>3, <3>2 DEF StartThread
    <2>4. ASSUME Submit(q) \/ CreateJob(q) \/ AnnounceJob(q) \/ CancelJob(q) \/ Flag(q)
          PROVE  /\ at'[j] = at[j] /\ ordinal'[j] = ordinal[j] /\ todo'[j] = todo[j]
                 /\ phase'[j] = phase[j]
        BY <1>2, <2>1, <2>4 DEF Submit, CreateJob, AnnounceJob, CancelJob, Flag
    <2> QED BY <1>6, <2>2, <2>3, <2>4, OthersEffort DEF Server
<1>7. ASSUME Restart PROVE Effort(j)' = 0
    <2>1. at'[j] = "end" /\ todo'[j] = <<>>
        BY <1>2, <1>7 DEF Restart
    <2>2. PlacesLeft(j)' = 0 /\ CallsLeft(j)' = 0
        BY <2>1 DEF PlacesLeft, CallsLeft
    <2> QED BY <2>2 DEF Effort
<1>8. ASSUME UNCHANGED vars PROVE Effort(j)' = Effort(j)
    BY <1>8, OthersEffort DEF vars, threads
<1> QED BY <1>1, <1>3, <1>5, <1>6, <1>7, <1>8 DEF Next

\* No worker runs for ever: from the moment its thread is started, what a job has
\* left is a number that every step of its worker makes smaller and nobody else
\* makes larger, neither another job nor a request nor a cancel, and a restart
\* leaves nothing of it. For n candidates a worker is over after 36n + 63 steps.
THEOREM StudioWorkerRunsDown ==
    Spec => [][\A j \in Job : at[j] # "new" =>
                  /\ Effort(j) \in Nat /\ Effort(j)' <= Effort(j)
                  /\ Worker(j) => Effort(j)' < Effort(j)
                  /\ Restart => Effort(j)' = 0]_vars
<1>1. StudioInv /\ EffortFits /\ EffortFits' /\ [Next]_vars =>
         [\A j \in Job : at[j] # "new" =>
             /\ Effort(j) \in Nat /\ Effort(j)' <= Effort(j)
             /\ Worker(j) => Effort(j)' < Effort(j)
             /\ Restart => Effort(j)' = 0]_vars
    BY EffortStep
<1> QED BY <1>1, EffortType, StudioInvariant, PTL DEF Spec
=============================================================================
