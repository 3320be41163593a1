----------------------------- MODULE StudioJobs -----------------------------
(***************************************************************************)
(* Generation jobs of the Music Studio: one worker thread per job, one     *)
(* server thread per request (ThreadingHTTPServer), all of them over the   *)
(* SQLite store. A store call is one transaction; nothing joins two of     *)
(* them, so update_job, which reads the row and later writes all of its    *)
(* columns back, can overwrite what another thread wrote in between.       *)
(***************************************************************************)
EXTENDS Naturals, Sequences, FiniteSets

CONSTANTS
    Job,        \* job identifiers (uuid4), each also its worker thread
    Request,    \* HTTP requests, each its own server thread
    Key,        \* idempotency keys
    NoKey,      \* no key, or the fresh key retry_job makes
    Requested,  \* candidate_count of every brief
    MaxRestart  \* bound: restarts of the server process

ASSUME StudioAssumption ==
    /\ NoKey \notin Key
    /\ Job \cap Request = {}
    /\ Requested \in Nat \ {0}
    /\ MaxRestart \in Nat

VARIABLES
    row,        \* row[j]: the jobs table
    key,        \* key[j]: its idempotency_key column
    candidates, \* candidates[j]: ordinals in the candidates table
    last,       \* last[j]: the status of the latest event in the events table
    flagged,    \* _cancelled_jobs, in memory
    at,         \* at[t]: where thread t is
    todo,       \* todo[t]: the updates t makes before it goes on
    phase,      \* phase[t]: how far it is with the first of them
    snap,       \* snap[t]: the row as update_job read it
    ordinal,    \* ordinal[j]: the worker's loop variable
    serves,     \* serves[q]: the job request q works on or answers with
    wants,      \* wants[q]: the key q submits, nothing for a cancel
    late,       \* late[j]: provider calls begun after the cancel (history)
    restarts

tables == <<row, key, candidates, last>>
threads == <<at, todo, phase, snap, ordinal, serves, wants>>
vars == <<tables, flagged, threads, late, restarts>>

Terminal == {"SUCCEEDED", "FAILED", "BLOCKED", "CANCELLED"}
JobStatus == Terminal \cup {"CREATED", "QUEUED", "PROVISIONING", "RUNNING",
                            "REVIEW_REQUIRED", "CANCEL_REQUESTED"}
Row == [status : JobStatus \cup {"absent"}, completed : 0..Requested]
NoRow == [status |-> "absent", completed |-> 0]
Thread == Job \cup Request
Present(j) == row[j].status # "absent"
Target(t) == IF t \in Job THEN {t} ELSE serves[t]

\* An update: the columns it sets, and whether _emit_status guards it.
Emit(s) == [set |-> [status |-> s], guarded |-> s \notin {"CANCEL_REQUESTED", "CANCELLED"}]
Put(s) == [set |-> [status |-> s], guarded |-> FALSE]
Count(n) == [set |-> [completed |-> n], guarded |-> FALSE]
Touch == [set |-> <<>>, guarded |-> FALSE] \* provider columns only

TypeOK ==
    /\ row \in [Job -> Row]
    /\ key \in [Job -> Key \cup {NoKey}]
    /\ candidates \in [Job -> SUBSET (1..Requested)]
    /\ last \in [Job -> JobStatus \cup {"absent"}]
    /\ flagged \in SUBSET Job
    /\ at \in [Thread -> {"new", "start", "select", "health", "loop", "generate", "register",
                          "progress", "create", "announce", "launch", "flag", "end"}]
    /\ phase \in [Thread -> {"check", "read", "write", "event"}]
    /\ snap \in [Thread -> Row]
    /\ ordinal \in [Job -> 1..(Requested + 1)]
    /\ serves \in [Request -> SUBSET Job]
    /\ wants \in [Request -> SUBSET (Key \cup {NoKey})]
    /\ late \in [Job -> Nat]
    /\ restarts \in 0..MaxRestart

Init ==
    /\ row = [j \in Job |-> NoRow]
    /\ key = [j \in Job |-> NoKey]
    /\ candidates = [j \in Job |-> {}]
    /\ last = [j \in Job |-> "absent"]
    /\ flagged = {}
    /\ at = [t \in Thread |-> "new"]
    /\ todo = [t \in Thread |-> <<>>]
    /\ phase = [t \in Thread |-> "check"]
    /\ snap = [t \in Thread |-> NoRow]
    /\ ordinal = [j \in Job |-> 1]
    /\ serves = [q \in Request |-> {}]
    /\ wants = [q \in Request |-> {}]
    /\ late = [j \in Job |-> 0]
    /\ restarts = 0

-----------------------------------------------------------------------------
(* update_job and _emit_status, a transaction at a time.                   *)

Pending(t) == todo[t] # <<>>
Update(t) == Head(todo[t])

\* Mutant: the column read wins over the column to set.
MergeKeepingOld(old, set) == [c \in DOMAIN old |-> old[c]]

Merge(old, set) == [c \in DOMAIN old |-> IF c \in DOMAIN set THEN set[c] ELSE old[c]]

Drop(t) ==
    /\ todo' = [todo EXCEPT ![t] = Tail(@)]
    /\ phase' = [phase EXCEPT ![t] = "check"]

\* _emit_status reads _cancelled_jobs under _threads_lock, then lets it go.
CheckCancelled(t) ==
    /\ Pending(t) /\ phase[t] = "check" /\ Update(t).guarded
    /\ IF Target(t) \subseteq flagged
       THEN Drop(t)
       ELSE phase' = [phase EXCEPT ![t] = "read"] /\ UNCHANGED todo
    /\ UNCHANGED <<tables, flagged, at, snap, ordinal, serves, wants, late, restarts>>

ReadRow(t) ==
    /\ Pending(t)
    /\ phase[t] = "read" \/ (phase[t] = "check" /\ ~Update(t).guarded)
    /\ \E j \in Target(t) : snap' = [snap EXCEPT ![t] = row[j]]
    /\ phase' = [phase EXCEPT ![t] = "write"]
    /\ UNCHANGED <<tables, flagged, at, todo, ordinal, serves, wants, late, restarts>>

WriteRow(t) ==
    /\ Pending(t) /\ phase[t] = "write"
    /\ \E j \in Target(t) : row' = [row EXCEPT ![j] = Merge(snap[t], Update(t).set)]
    /\ snap' = [snap EXCEPT ![t] = NoRow]
    /\ IF "status" \in DOMAIN Update(t).set
       THEN phase' = [phase EXCEPT ![t] = "event"] /\ UNCHANGED todo
       ELSE Drop(t)
    /\ UNCHANGED <<key, candidates, last, flagged, at, ordinal, serves, wants, late, restarts>>

AppendEvent(t) ==
    /\ Pending(t) /\ phase[t] = "event"
    /\ \E j \in Target(t) : last' = [last EXCEPT ![j] = Update(t).set.status]
    /\ Drop(t)
    /\ UNCHANGED <<row, key, candidates, flagged, at, snap, ordinal, serves, wants, late, restarts>>

StoreStep(t) == CheckCancelled(t) \/ ReadRow(t) \/ WriteRow(t) \/ AppendEvent(t)

-----------------------------------------------------------------------------
(* The worker: _run_job.                                                   *)

At(t, place) == at[t] = place /\ ~Pending(t)

\* Thread t makes the updates us and goes on at place.
GoOn(t, place, us) ==
    /\ at' = [at EXCEPT ![t] = place]
    /\ todo' = [todo EXCEPT ![t] = us]
    /\ UNCHANGED <<key, flagged, phase, snap, serves, wants, restarts>>

\* Mutant: the exception ends the thread and nothing else.
RaiseSilently(j) == GoOn(j, "end", <<>>)

\* except Exception: the job fails, whatever its status was.
Raise(j) == GoOn(j, "end", <<Put("FAILED")>>)

Start(j) ==
    /\ At(j, "start")
    /\ IF j \in flagged
       THEN GoOn(j, "end", <<>>)
       ELSE GoOn(j, "select", <<Emit("QUEUED"), Emit("PROVISIONING")>>)
    /\ UNCHANGED <<row, candidates, last, ordinal, late>>

\* Mutant: the blocked job goes on, its early return forgotten.
SelectProviderOrGoOn(j) ==
    /\ At(j, "select")
    /\ \/ GoOn(j, "health", <<Put("BLOCKED")>>)
       \/ GoOn(j, "health", <<Touch>>)
       \/ Raise(j)
    /\ UNCHANGED <<row, candidates, last, ordinal, late>>

SelectProvider(j) ==
    /\ At(j, "select")
    /\ \/ GoOn(j, "end", <<Put("BLOCKED")>>)  \* no provider
       \/ GoOn(j, "health", <<Touch>>)
       \/ Raise(j)
    /\ UNCHANGED <<row, candidates, last, ordinal, late>>

CheckHealth(j) ==
    /\ At(j, "health")
    /\ \/ GoOn(j, "end", <<Put("BLOCKED")>>)  \* no credential, or unavailable
       \/ GoOn(j, "loop", <<Emit("RUNNING")>>)
       \/ Raise(j)
    /\ UNCHANGED <<row, candidates, last, ordinal, late>>

\* Mutant: the loop does not look at the cancel.
NextCandidateAnyway(j) ==
    /\ At(j, "loop") /\ ordinal[j] <= Requested
    /\ GoOn(j, "generate", <<>>)
    /\ UNCHANGED <<row, candidates, last, ordinal, late>>

\* Mutant: the loop runs once more than the brief asks.
NextCandidateOneMore(j) ==
    /\ At(j, "loop") /\ ordinal[j] <= Requested + 1
    /\ GoOn(j, IF j \in flagged THEN "end" ELSE "generate", <<>>)
    /\ UNCHANGED <<row, candidates, last, ordinal, late>>

NextCandidate(j) ==
    /\ At(j, "loop") /\ ordinal[j] <= Requested
    /\ GoOn(j, IF j \in flagged THEN "end" ELSE "generate", <<>>)
    /\ UNCHANGED <<row, candidates, last, ordinal, late>>

\* provider.generate: assets, none, or an exception.
Generate(j) ==
    /\ At(j, "generate")
    /\ late' = [late EXCEPT ![j] = IF j \in flagged THEN @ + 1 ELSE @]
    /\ GoOn(j, "register", <<>>) \/ GoOn(j, "progress", <<>>) \/ Raise(j)
    /\ UNCHANGED <<row, candidates, last, ordinal>>

\* _register_asset. A second asset of the same ordinal meets the primary key
\* of the first and raises.
RegisterAsset(j) ==
    /\ At(j, "register")
    /\ candidates' = [candidates EXCEPT ![j] = @ \cup {ordinal[j]}]
    /\ GoOn(j, "progress", <<>>) \/ Raise(j)
    /\ UNCHANGED <<row, last, ordinal, late>>

\* Mutant: every ordinal counts as a candidate.
ProgressByOrdinal(j) ==
    /\ At(j, "progress")
    /\ ordinal' = [ordinal EXCEPT ![j] = @ + 1]
    /\ GoOn(j, "loop", <<Count(ordinal[j])>>)
    /\ UNCHANGED <<row, candidates, last, late>>

Progress(j) ==
    /\ At(j, "progress")
    /\ ordinal' = [ordinal EXCEPT ![j] = @ + 1]
    /\ GoOn(j, "loop", <<Count(Cardinality(candidates[j]))>>)
    /\ UNCHANGED <<row, candidates, last, late>>

Finish(j) ==
    /\ At(j, "loop") /\ ordinal[j] = Requested + 1
    /\ \/ j \in flagged /\ GoOn(j, "end", <<>>)
       \/ j \notin flagged /\ candidates[j] = {} /\ Raise(j) \* NO_VALID_CANDIDATES
       \/ /\ j \notin flagged /\ candidates[j] # {}
          /\ GoOn(j, "end", <<Emit("REVIEW_REQUIRED"), Emit("SUCCEEDED")>>)
    /\ UNCHANGED <<row, candidates, last, ordinal, late>>

Worker(j) ==
    \/ StoreStep(j) \/ Start(j) \/ SelectProvider(j) \/ CheckHealth(j) \/ NextCandidate(j)
    \/ Generate(j) \/ RegisterAsset(j) \/ Progress(j) \/ Finish(j)

-----------------------------------------------------------------------------
(* The server threads: submit_generation, retry_job and cancel_job.        *)

\* find_idempotent_job; retry_job submits the old brief under a fresh key.
Submit(q) ==
    /\ at[q] = "new"
    /\ \E k \in Key \cup {NoKey} :
          LET existing == {j \in Job : k # NoKey /\ Present(j) /\ key[j] = k} IN
          /\ wants' = [wants EXCEPT ![q] = {k}]
          /\ serves' = [serves EXCEPT ![q] = existing]
          /\ at' = [at EXCEPT ![q] = IF existing = {} THEN "create" ELSE "end"]
    /\ UNCHANGED <<tables, flagged, todo, phase, snap, ordinal, late, restarts>>

\* Mutant: the jobs table has no UNIQUE constraint.
CreateJobAnyKey(q) ==
    /\ at[q] = "create"
    /\ at' = [at EXCEPT ![q] = "announce"]
    /\ \E j \in Job, k \in wants[q] :
          /\ ~Present(j)
          /\ row' = [row EXCEPT ![j].status = "CREATED"]
          /\ key' = [key EXCEPT ![j] = k]
          /\ serves' = [serves EXCEPT ![q] = {j}]
    /\ UNCHANGED <<candidates, last, flagged, todo, phase, snap, ordinal, wants, late, restarts>>

\* create_job: UNIQUE(project_id, idempotency_key) makes the INSERT of a key
\* that is taken raise, and the request ends with an error.
CreateJob(q) ==
    /\ at[q] = "create"
    /\ \E k \in wants[q] :
          IF k # NoKey /\ \E j \in Job : Present(j) /\ key[j] = k
          THEN at' = [at EXCEPT ![q] = "end"] /\ UNCHANGED <<row, key, serves>>
          ELSE /\ at' = [at EXCEPT ![q] = "announce"]
               /\ \E j \in Job :
                     /\ ~Present(j)
                     /\ row' = [row EXCEPT ![j].status = "CREATED"]
                     /\ key' = [key EXCEPT ![j] = k]
                     /\ serves' = [serves EXCEPT ![q] = {j}]
    /\ UNCHANGED <<candidates, last, flagged, todo, phase, snap, ordinal, wants, late, restarts>>

AnnounceJob(q) ==
    /\ at[q] = "announce"
    /\ \E j \in serves[q] : last' = [last EXCEPT ![j] = "CREATED"]
    /\ at' = [at EXCEPT ![q] = "launch"]
    /\ UNCHANGED <<row, key, candidates, flagged, todo, phase, snap, ordinal, serves, wants,
                   late, restarts>>

StartThread(q) ==
    /\ at[q] = "launch"
    /\ \E j \in serves[q] : at' = [at EXCEPT ![q] = "end", ![j] = "start"]
    /\ UNCHANGED <<tables, flagged, todo, phase, snap, ordinal, serves, wants, late, restarts>>

\* cancel_job: a finished job is returned as it is.
CancelJob(q) ==
    /\ at[q] = "new"
    /\ \E j \in Job :
          /\ Present(j)
          /\ serves' = [serves EXCEPT ![q] = {j}]
          /\ at' = [at EXCEPT ![q] = IF row[j].status \in Terminal THEN "end" ELSE "flag"]
    /\ UNCHANGED <<tables, flagged, todo, phase, snap, ordinal, wants, late, restarts>>

Flag(q) ==
    /\ at[q] = "flag"
    /\ flagged' = flagged \cup serves[q]
    /\ at' = [at EXCEPT ![q] = "end"]
    /\ todo' = [todo EXCEPT ![q] = <<Emit("CANCEL_REQUESTED"), Emit("CANCELLED")>>]
    /\ UNCHANGED <<tables, phase, snap, ordinal, serves, wants, late, restarts>>

Server(q) ==
    \/ StoreStep(q) \/ Submit(q) \/ CreateJob(q) \/ AnnounceJob(q) \/ StartThread(q)
    \/ CancelJob(q) \/ Flag(q)

\* The process ends and a new StudioService opens the same store: every thread
\* and _cancelled_jobs are gone, and nothing looks for unfinished jobs.
Restart ==
    /\ restarts < MaxRestart
    /\ restarts' = restarts + 1
    /\ flagged' = {}
    /\ at' = [t \in Thread |-> IF at[t] = "new" THEN "new" ELSE "end"]
    /\ todo' = [t \in Thread |-> <<>>]
    /\ phase' = [t \in Thread |-> "check"]
    /\ snap' = [t \in Thread |-> NoRow]
    /\ UNCHANGED <<tables, ordinal, serves, wants, late>>

Next == (\E j \in Job : Worker(j)) \/ (\E q \in Request : Server(q)) \/ Restart

\* Threads are scheduled and a provider call returns or raises.
Spec == Init /\ [][Next]_vars /\ \A j \in Job : WF_vars(Worker(j))

-----------------------------------------------------------------------------
(* Properties.                                                             *)

\* Idempotent submission: two requests with the same key are about the same
\* job, however their look-ups and inserts interleave and across a restart.
SameKeySameJob ==
    \A p, q \in Request :
        wants[p] = wants[q] /\ wants[p] \subseteq Key /\ serves[p] # {} /\ serves[q] # {}
        => wants[p] = {} \/ serves[p] = serves[q]

\* A job in SUCCEEDED counts every candidate it has, and has one: no update by a
\* request's thread writes a stale count back over the worker's last.
SucceededIsComplete ==
    \A j \in Job : row[j].status = "SUCCEEDED" =>
        row[j].completed = Cardinality(candidates[j]) /\ candidates[j] # {}

\* After the cancel is registered the worker begins at most one more provider
\* call, the one whose check it had passed.
CancelStopsProvider == \A j \in Job : late[j] <= 1

Settled == {"SUCCEEDED", "FAILED", "BLOCKED"}

Cancels(q, j) == serves[q] = {j} /\ wants[q] = {}

\* A finished job stays finished: while no cancel of it is in progress, neither
\* its worker nor a request nor a restart takes it out of its final status.
FinishedStays ==
    [][\A j \in Job :
          /\ row[j].status \in Settled
          /\ \A q \in Request : Cancels(q, j) => at[q] = "end" /\ ~Pending(q)
          => row'[j].status = row[j].status]_vars

\* The event stream never announces an end that the job table does not have:
\* update_job comes first, and no stale update of the job's follows it.
AnnouncedEndIsStored ==
    \A j \in Job : last[j] \in Settled /\ (\A q \in Request : ~Cancels(q, j))
        => row[j].status = last[j]

\* Every job whose worker was started ends, is cancelled or meets a restart.
JobEnds ==
    \A j \in Job : (at[j] = "start") ~>
        (row[j].status \in Terminal \/ j \in flagged \/ restarts > 0)

\* test_music_studio_simulation_v1.py, "test_simulation_job_cancel_is_terminal_for_worker":
\* once cancel_job has stored CANCELLED, the worker does not change the status.
CancelIsTerminal ==
    [][\A j \in Job : row[j].status = "CANCELLED" => row'[j].status = "CANCELLED"]_vars
=============================================================================
