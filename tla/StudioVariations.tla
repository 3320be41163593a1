-------------------------- MODULE StudioVariations --------------------------
(***************************************************************************)
(* Variations of the Music Studio: a request makes candidates in Live, one *)
(* SafeWrite transaction each, and later requests keep, select or discard  *)
(* them. Every request is a thread of its own (ThreadingHTTPServer) and    *)
(* nothing locks them: the rows are one JSON value that is read, changed   *)
(* and written back, and a rollback names the track by the index at which  *)
(* a snapshot showed it, or showed another candidate that looks like it.   *)
(*                                                                         *)
(* A candidate is one track here (a multi-element one is a group of three, *)
(* made and undone together). Tracks that are not candidates stand before  *)
(* them in Live, where nothing the Studio does moves them. Before the next *)
(* call of a request there may be an error (Breaks); what a call that      *)
(* raises has already done is in the action of that call.                  *)
(***************************************************************************)
EXTENDS Naturals, Sequences, SequencesExt

CONSTANTS
    Request,     \* threads of the server, each serves one request at a time
    Variation,   \* candidate ids (uuid4)
    Shape,       \* Shape[v]: what a fingerprint holds of v's track as it is made
    Count,       \* variations a request may ask for
    MaxTouches,  \* bound: edits the user makes on candidates' tracks
    MaxServed    \* bound: requests the server takes

ASSUME VariationsAssumption ==
    /\ "none" \notin Variation
    /\ Count \subseteq Nat \ {0}
    /\ MaxTouches \in Nat
    /\ MaxServed \in Nat

VARIABLES
    rows,     \* rows[v]: its element of the stored list "variations"
    job,      \* job[r]: what request r is doing
    runtime,  \* candidates in _variation_runtime
    open,     \* connections to Live that are open, named by their first candidate
    link,     \* link[v]: the connection v's executor uses
    txn,      \* txn[v]: v's transaction in the history of its executor
    tracks,   \* the candidates' tracks in Live, in order
    edited,   \* tracks that no longer look as their transaction left them
    disk,     \* candidates whose tracks are in the saved set
    astray,   \* candidates whose deletion hit another track than theirs (history)
    touches,  \* edits so far
    served    \* requests so far

memory == <<runtime, open, link, txn>>
live == <<tracks, edited, disk, astray>>
bounds == <<touches, served>>
vars == <<rows, job, memory, live, bounds>>

\* A row without its persistence_status, which no step reads but together with
\* the decision KEPT, and then it is IN_SYNC.
Row == [status : {"none", "READY", "KEPT", "DISCARDED", "FAILED"},
        decision : {"PENDING", "MUSICAL_ACCEPTED", "KEPT", "DISCARDED"}]
Pending(status) == [status |-> status, decision |-> "PENDING"]
NoRow == Pending("none")
Decided(status) == [status |-> status, decision |-> status]

\* What a request is doing: its place, the candidate and the row it works on,
\* the rows it read, the index it resolved, what it still has to make or discard.
Producing == {"produce", "fail"}
Job == [pc : {"idle", "write", "preview", "undo", "strike", "readback", "save", "read",
              "put", "project", "register", "discards"},
        op : Producing \cup {"keep", "select", "discard"},
        v : Variation \cup {"none"},
        row : Row,
        list : [Variation -> Row],
        index : Nat,
        left : Nat,
        todo : SUBSET Variation]
Idle == [pc |-> "idle", op |-> "keep", v |-> "none", row |-> NoRow,
         list |-> [v \in Variation |-> NoRow], index |-> 0, left |-> 0, todo |-> {}]

TypeOK ==
    /\ rows \in [Variation -> Row]
    /\ job \in [Request -> Job]
    /\ \A r \in Request : job[r].pc # "idle" /\ job[r].pc # "discards" => job[r].v \in Variation
    /\ runtime \subseteq Variation
    /\ open \subseteq Variation
    /\ link \in [Variation -> Variation \cup {"none"}]
    /\ txn \in [Variation -> {"none", "VERIFIED", "ROLLED_BACK", "ROLLBACK_CONFLICT"}]
    /\ tracks \in Seq(Variation)
    /\ edited \subseteq Variation
    /\ disk \subseteq Variation
    /\ astray \subseteq Variation
    /\ touches \in 0..MaxTouches
    /\ served \in 0..MaxServed

InLive == ToSet(tracks)
Connected(r) == link[job[r].v] \in open

\* Request r goes on as j, or at another place.
Goes(r, j) == job' = [job EXCEPT ![r] = j]
To(r, place) == Goes(r, [job[r] EXCEPT !.pc = place])

\* Mutant: a request that fails does not disconnect.
RaisesOpen(r) == Goes(r, Idle) /\ UNCHANGED open

\* It ends with an error, which closes the connection of a request that makes
\* candidates; those it has registered may use the same one.
Raises(r) ==
    /\ Goes(r, Idle)
    /\ open' = IF job[r].op \in Producing THEN open \ {link[job[r].v]} ELSE open

\* Request r is taken.
Takes(r, j) ==
    /\ job[r].pc = "idle"
    /\ served < MaxServed
    /\ served' = served + 1
    /\ Goes(r, j)

Init ==
    /\ rows = [v \in Variation |-> NoRow]
    /\ job = [r \in Request |-> Idle]
    /\ runtime = {} /\ open = {}
    /\ link = [v \in Variation |-> "none"]
    /\ txn = [v \in Variation |-> "none"]
    /\ tracks = <<>>
    /\ edited = {} /\ disk = {} /\ astray = {}
    /\ touches = 0 /\ served = 0

-----------------------------------------------------------------------------
(* Making candidates.                                                      *)

\* produce_generate connects, checks the working copy and draws the first id; a
\* request that is refused before leaves nothing.
Produce(r, v, n) ==
    /\ link[v] = "none"
    /\ Takes(r, [Idle EXCEPT !.pc = "write", !.op = "produce", !.v = v, !.left = n - 1])
    /\ link' = [link EXCEPT ![v] = v]
    /\ open' = open \cup {v}
    /\ UNCHANGED <<rows, runtime, txn, live, touches>>

\* The executor creates the track and its clips and closes the transaction. A
\* run that is not ok has rolled back what it recorded and raises (Breaks).
SafeWrite(r) ==
    /\ job[r].pc = "write"
    /\ Connected(r)
    /\ tracks' = Append(tracks, job[r].v)
    /\ txn' = [txn EXCEPT ![job[r].v] = "VERIFIED"]
    /\ To(r, "preview")
    /\ UNCHANGED <<rows, runtime, open, link, edited, disk, astray, bounds>>

\* The preview was captured and measured and its artifact stored.
Captured(r) ==
    /\ job[r].pc = "preview"
    /\ Goes(r, [job[r] EXCEPT !.pc = "read", !.row = Pending("READY")])
    /\ UNCHANGED <<rows, memory, live, bounds>>

\* fail_preview: no usable preview, so the candidate is rolled back first.
PreviewFails(r) ==
    /\ job[r].pc = "preview"
    /\ Goes(r, [job[r] EXCEPT !.pc = "undo", !.op = "fail"])
    /\ UNCHANGED <<rows, memory, live, bounds>>

\* Mutant: range(1, variations + 2).
RegisterOneMore(r) ==
    /\ job[r].pc = "register"
    /\ runtime' = runtime \cup {job[r].v}
    /\ \E v \in Variation :
         /\ link[v] = "none"
         /\ Goes(r, [job[r] EXCEPT !.pc = "write", !.v = v, !.left = @ - 1])
         /\ link' = [link EXCEPT ![v] = link[job[r].v]]
    /\ UNCHANGED <<rows, open, txn, live, bounds>>

\* The candidate can be kept or discarded from now on; the next one of the
\* request shares its connection.
Register(r) ==
    /\ job[r].pc = "register"
    /\ runtime' = runtime \cup {job[r].v}
    /\ \/ /\ job[r].left = 0
          /\ Goes(r, Idle)
          /\ UNCHANGED link
       \/ \E v \in Variation :
            /\ job[r].left > 0
            /\ link[v] = "none"
            /\ Goes(r, [job[r] EXCEPT !.pc = "write", !.v = v, !.left = @ - 1])
            /\ link' = [link EXCEPT ![v] = link[job[r].v]]
    /\ UNCHANGED <<rows, open, txn, live, bounds>>

-----------------------------------------------------------------------------
(* _rollback_applied, of a failed preview and of a discard.                *)

\* What comes after a rollback that reports no error.
Undone(r) ==
    Goes(r, IF job[r].op = "fail" THEN [job[r] EXCEPT !.pc = "read", !.row = Pending("FAILED")]
                                  ELSE [job[r] EXCEPT !.pc = "readback"])

\* last_own finds no transaction that is VERIFIED: "" as if it were undone.
NothingToUndo(r) ==
    /\ job[r].pc = "undo"
    /\ txn[job[r].v] # "VERIFIED"
    /\ Undone(r)
    /\ UNCHANGED <<rows, memory, live, bounds>>

\* Where v's fingerprint is found by a snapshot that misses the notes of the
\* tracks in unread: a fingerprint has no name, so another candidate of the same
\* shape will do, but not one that was edited since it was made.
Found(v, unread) ==
    {i \in DOMAIN tracks : tracks[i] \notin edited \cup unread /\ Shape[tracks[i]] = Shape[v]}
Own(v, places) == {i \in places : tracks[i] = v}

\* The index in the rollback's own snapshot: v's track if it is found, else the
\* only one found, or of several one that was given the id of v.
Resolve(r) ==
    /\ job[r].pc = "undo"
    /\ txn[job[r].v] = "VERIFIED"
    /\ Connected(r)
    /\ \E unread \in SUBSET InLive :
         LET found == Found(job[r].v, unread)
             own == Own(job[r].v, found) IN
         \E i \in IF own = {} THEN found ELSE own :
             Goes(r, [job[r] EXCEPT !.pc = "strike", !.index = i])
    /\ UNCHANGED <<rows, memory, live, bounds>>

\* Nothing is found, or several but not v's own.
Conflict(r) ==
    /\ job[r].pc = "undo"
    /\ txn[job[r].v] = "VERIFIED"
    /\ Connected(r)
    /\ \E unread \in SUBSET InLive :
         LET found == Found(job[r].v, unread) IN
         Own(job[r].v, found) = {} /\ \A i \in found : found # {i}
    /\ txn' = [txn EXCEPT ![job[r].v] = "ROLLBACK_CONFLICT"]
    /\ Raises(r)
    /\ UNCHANGED <<rows, runtime, link, live, bounds>>

\* The last inverse deletes the track at the index; its reply may be lost.
Strike(r) ==
    /\ job[r].pc = "strike"
    /\ Connected(r)
    /\ job[r].index \in DOMAIN tracks
    /\ tracks' = RemoveAt(tracks, job[r].index)
    /\ astray' = IF tracks[job[r].index] = job[r].v THEN astray ELSE astray \cup {job[r].v}
    /\ \/ /\ txn' = [txn EXCEPT ![job[r].v] = "ROLLED_BACK"]
          /\ Undone(r)
          /\ UNCHANGED open
       \/ /\ Raises(r)
          /\ UNCHANGED txn
    /\ UNCHANGED <<rows, runtime, link, edited, disk, bounds>>

\* Mutant: the rollback counts as done although an inverse raised.
StrikeFailsUnseen(r) ==
    /\ job[r].pc = "strike"
    /\ txn' = [txn EXCEPT ![job[r].v] = "ROLLED_BACK"]
    /\ Undone(r)
    /\ UNCHANGED <<rows, runtime, open, link, live, bounds>>

\* An inverse before it fails: some clips of the track at the index are gone.
StrikeFails(r) ==
    /\ job[r].pc = "strike"
    /\ Raises(r)
    /\ edited' \in {edited} \cup {edited \cup {tracks[i]} : i \in {job[r].index} \cap DOMAIN tracks}
    /\ UNCHANGED <<rows, runtime, link, txn, tracks, disk, astray, bounds>>

-----------------------------------------------------------------------------
(* variation_action: keep, select, discard; reject_all_variations.         *)

Reviewable(v) == rows[v].status \in {"READY", "KEPT"}

\* A KEPT row in sync is answered as it is; without runtime keep refuses.
Keep(r, v) ==
    /\ Reviewable(v)
    /\ rows[v] # Decided("KEPT")
    /\ v \in runtime
    /\ Takes(r, [Idle EXCEPT !.pc = "save", !.op = "keep", !.v = v, !.row = rows[v]])
    /\ UNCHANGED <<rows, memory, live, touches>>

Select(r, v) ==
    /\ Reviewable(v)
    /\ Takes(r, [Idle EXCEPT !.pc = "read", !.op = "select", !.v = v,
                         !.row = [rows[v] EXCEPT !.decision = "MUSICAL_ACCEPTED"]])
    /\ UNCHANGED <<rows, memory, live, touches>>

\* One candidate, or in reject_all all that are reviewable.
Discard(r) ==
    /\ \E todo \in {{v} : v \in Variation} \cup {{v \in Variation : Reviewable(v)}} :
         Takes(r, [Idle EXCEPT !.pc = "discards", !.op = "discard", !.todo = todo])
    /\ UNCHANGED <<rows, memory, live, touches>>

\* The next of them: a DISCARDED one is answered, an unknown one and one without
\* runtime end the request.
DiscardNext(r) ==
    /\ job[r].pc = "discards"
    /\ \/ job[r].todo = {} /\ Goes(r, Idle)
       \/ \E v \in job[r].todo :
            LET rest == job[r].todo \ {v} IN
            Goes(r, IF rows[v].status = "DISCARDED" THEN [job[r] EXCEPT !.todo = rest]
                    ELSE IF rows[v].status = "none" \/ v \notin runtime THEN Idle
                    ELSE [job[r] EXCEPT !.pc = "undo", !.v = v, !.todo = rest])
    /\ UNCHANGED <<rows, memory, live, bounds>>

\* reconciled_after_rollback: the rollback is read back, and the evidence of the
\* saved set compared with what the row carries.
Readback(r) ==
    /\ job[r].pc = "readback"
    /\ Connected(r)
    /\ Goes(r, [job[r] EXCEPT !.pc = "read", !.row = Decided("DISCARDED")])
    /\ UNCHANGED <<rows, memory, live, bounds>>

\* persist_working_copy: Live saves, and path, project and file are read back.
SaveVerified(r) ==
    /\ job[r].pc = "save"
    /\ Connected(r)
    /\ disk' = InLive
    /\ Goes(r, [job[r] EXCEPT !.pc = "read", !.row = Decided("KEPT")])
    /\ UNCHANGED <<rows, memory, tracks, edited, astray, bounds>>

\* Mutant: save_verified is not looked at.
SaveUnverifiedKept(r) ==
    /\ job[r].pc = "save"
    /\ Connected(r)
    /\ disk' \in {disk, InLive}
    /\ Goes(r, [job[r] EXCEPT !.pc = "read", !.row = Decided("KEPT")])
    /\ UNCHANGED <<rows, memory, tracks, edited, astray, bounds>>

\* No capability, no acknowledgement, or a readback that fails after the save.
SaveUnverified(r) ==
    /\ job[r].pc = "save"
    /\ Connected(r)
    /\ disk' \in {disk, InLive}
    /\ To(r, "read")
    /\ UNCHANGED <<rows, memory, tracks, edited, astray, bounds>>

-----------------------------------------------------------------------------
(* The stored list, read and written back without a transaction.           *)

ReadRows(r) ==
    /\ job[r].pc = "read"
    /\ Goes(r, [job[r] EXCEPT !.pc = "put", !.list = rows])
    /\ UNCHANGED <<rows, memory, live, bounds>>

\* A selection demotes the other accepted rows.
Demoted(row) ==
    IF row.decision = "MUSICAL_ACCEPTED"
    THEN [row EXCEPT !.decision = "PENDING"] ELSE row

\* A new row is appended; an old one is replaced if the list has it.
Changed(j) ==
    [v \in Variation |->
        IF v = j.v
        THEN IF j.op \in Producing \/ j.list[v].status # "none" THEN j.row ELSE j.list[v]
        ELSE IF j.op = "select" THEN Demoted(j.list[v]) ELSE j.list[v]]

\* After the row of a failed candidate the request raises.
PutRows(r) ==
    /\ job[r].pc = "put"
    /\ rows' = Changed(job[r])
    /\ IF job[r].op = "fail" THEN Raises(r) ELSE To(r, "project") /\ UNCHANGED open
    /\ UNCHANGED <<runtime, link, txn, live, bounds>>

\* project_persistence, which nothing but list_variations reads.
PutProject(r) ==
    /\ job[r].pc = "project"
    /\ CASE job[r].op = "produce" -> To(r, "register")
         [] job[r].op = "discard" -> To(r, "discards")
         [] OTHER -> Goes(r, Idle)
    /\ UNCHANGED <<rows, memory, live, bounds>>

-----------------------------------------------------------------------------
(* What goes wrong, and the user.                                          *)

\* The next call raises: Live, the capture, the files or the store.
Breaks(r) ==
    /\ job[r].pc \notin {"idle", "discards", "strike"}
    /\ Raises(r)
    /\ UNCHANGED <<rows, runtime, link, txn, live, bounds>>

\* The user changes a candidate's track, or removes it.
UserEdits ==
    /\ touches < MaxTouches
    /\ touches' = touches + 1
    /\ \E i \in DOMAIN tracks :
         \/ edited' = edited \cup {tracks[i]} /\ UNCHANGED tracks
         \/ tracks' = RemoveAt(tracks, i) /\ UNCHANGED edited
    /\ UNCHANGED <<rows, job, memory, disk, astray, served>>

\* The server ends and starts again: what is in memory is gone. link and txn are
\* read only of candidates in runtime.
Restart ==
    /\ job' = [r \in Request |-> Idle]
    /\ runtime' = {} /\ open' = {}
    /\ UNCHANGED <<rows, link, txn, live, bounds>>

Serve(r) ==
    \/ \E v \in Variation : \/ \E n \in Count : Produce(r, v, n)
                            \/ Keep(r, v) \/ Select(r, v)
    \/ SafeWrite(r) \/ Captured(r) \/ PreviewFails(r) \/ Register(r)
    \/ NothingToUndo(r) \/ Resolve(r) \/ Conflict(r) \/ Strike(r) \/ StrikeFails(r)
    \/ Discard(r) \/ DiscardNext(r) \/ Readback(r) \/ SaveVerified(r) \/ SaveUnverified(r)
    \/ ReadRows(r) \/ PutRows(r) \/ PutProject(r) \/ Breaks(r)

Next == (\E r \in Request : Serve(r)) \/ UserEdits \/ Restart

Spec == Init /\ [][Next]_vars

-----------------------------------------------------------------------------
\* A row that says FAILED or DISCARDED is true of Live: its track is not there,
\* unless a rollback of it found a conflict, or its deletion hit another
\* candidate's track: one that the fingerprint took for it, or one that came to
\* its index when another thread or the user moved the tracks after the snapshot.
ToldGone ==
    \A v \in Variation :
        rows[v].status \in {"FAILED", "DISCARDED"} =>
            v \notin InLive \/ txn[v] = "ROLLBACK_CONFLICT" \/ v \in astray

\* A candidate told as KEPT that is still in Live is in the saved set, whatever
\* was kept, discarded or overwritten by other requests since.
KeptIsOnDisk ==
    \A v \in Variation : rows[v].status = "KEPT" /\ v \in InLive => v \in disk

\* Every open connection belongs to a request that is making candidates or to a
\* candidate that was registered, so no failure leaves one behind; and such a
\* candidate has its connection, unless others of its request were to use it.
ConnectionsOwned ==
    /\ \A c \in open :
         \/ \E v \in runtime : link[v] = c
         \/ \E r \in Request : /\ job[r].pc # "idle"
                               /\ job[r].op \in Producing
                               /\ link[job[r].v] = c
    /\ \A v \in runtime :
         link[v] \in open \/ \E w \in Variation \ {v} : link[w] = link[v]

\* A discarded candidate is gone, as the answer's rollback_verified says, but for
\* a deletion that hit another candidate's track.
DiscardedIsGone ==
    \A v \in Variation : rows[v].status = "DISCARDED" => v \notin InLive \/ v \in astray
=============================================================================
