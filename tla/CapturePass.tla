----------------------------- MODULE CapturePass -----------------------------
(***************************************************************************)
(* One playback pass that records sources through capture hosts:           *)
(* capture_sources_post_mixer_batch ("batch", several hosts) and           *)
(* capture_source_post_mixer ("single"), capture_parallel_pass inside both,*)
(* the capture journals, and their recovery by a later process.            *)
(*                                                                         *)
(* Every call to Live may be refused, or miss its reply; after a missed    *)
(* reply no later call on the connection returns (LiveLink), but Live may  *)
(* still carry out what was sent, in the order it was sent. The Core may be*)
(* interrupted (KeyboardInterrupt) once and may crash anywhere.            *)
(***************************************************************************)
EXTENDS Naturals, Sequences

CONSTANT N  \* bound: the sources of one batch

ASSUME HostsAssumption == N \in Nat \ {0}

VARIABLES
    mode,      \* which of the two entry points runs
    pc,        \* where it is
    cur,       \* the host a loop is at
    todo,      \* the writes left in the current stretch of calls
    prepared,  \* how many hosts the finally block knows of
    before,    \* what a restore writes back to each host
    was,       \* the transport was playing before the pass (_transport_snapshot)
    stopped,   \* transport_stopped
    failed,    \* hosts whose restore had an error
    handling,  \* inside "except Exception"
    settled,   \* settled
    exc,       \* the exception on its way out
    interrupted, \* the user has pressed Ctrl-C
    rows,      \* the result row of each source
    journal,   \* last status of each host's capture journal
    files,     \* the finalized assets are on disk
    live,      \* per place in Live, what is not in the idle position
    late,      \* writes without an answer that Live may still carry out
    behind,    \* the connection has missed a reply
    lost       \* observer: some write was refused or dropped

passVars == <<mode, cur, prepared, before, was, stopped, failed, handling, settled>>
endVars == <<exc, interrupted, rows>>
diskVars == <<journal, files>>
linkVars == <<live, late, behind, lost>>
vars == <<passVars, pc, todo, endVars, diskVars, linkVars>>

Host == 1..N
Main == 0            \* the Master track with its tap; the transport is kept here too
Place == Host \cup {Main}
Routing == {"input", "monitor", "output"}
Field == Routing \cup {"rec", "playing"}
Write == [at : SUBSET Place, field : Field, on : BOOLEAN]

Width == IF mode = "single" THEN 1 ELSE N
Hosts == 1..Width
Open == {"PREPARED", "RECORDING", "FINALIZING"}
Terminal == {"VERIFIED", "FAILED", "IN_DOUBT", "RECOVERED"}

\* Places where a raise passes through the finally block of capture_parallel_pass.
InPass == {"pass", "transport", "fallback"}

TypeOK ==
    /\ mode \in {"batch", "single"}
    /\ pc \in InPass \cup {"open", "record", "append", "prepare", "begin", "halt",
                           "passFinally", "finalizing", "copy", "restore", "results", "failing",
                           "cleanup", "done", "crashed"}
    /\ cur \in 0..N /\ prepared \in 0..N
    /\ todo \in Seq(Write) /\ late \in Seq(Write)
    /\ before \in [Host -> SUBSET Routing]
    /\ was \in BOOLEAN /\ stopped \in BOOLEAN /\ handling \in BOOLEAN /\ settled \in BOOLEAN
    /\ failed \subseteq Host
    /\ exc \in {"none", "error", "cancel"}
    /\ interrupted \in BOOLEAN
    /\ rows \in [Host -> {"none", "ok", "failed"}]
    /\ journal \in [Host -> Open \cup Terminal \cup {"none"}]
    /\ files \in BOOLEAN
    /\ live \in [Place -> SUBSET Field]
    /\ behind \in BOOLEAN /\ lost \in BOOLEAN

\* A host is as ensure_capture_pool left it, or still routed and recording
\* because an earlier run did not end well.
Init ==
    /\ mode \in {"batch", "single"}
    /\ pc = "open" /\ cur = 1 /\ todo = <<>>
    /\ prepared = 0 /\ before = [h \in Host |-> {}]
    /\ stopped = FALSE /\ failed = {} /\ handling = FALSE /\ settled = FALSE
    /\ exc = "none" /\ interrupted = FALSE
    /\ rows = [h \in Host |-> "none"]
    /\ journal = [h \in Host |-> "none"] /\ files = FALSE
    /\ live \in [Place -> SUBSET Field]
    /\ live[Main] \subseteq {"playing"}
    /\ \A h \in Host : live[h] \in {{}} \cup IF h \in Hosts THEN {Routing \cup {"rec"}} ELSE {}
    /\ was = ("playing" \in live[Main])
    /\ late = <<>> /\ behind = FALSE /\ lost = FALSE

-----------------------------------------------------------------------------
(* The link.                                                               *)

Carry(w, at) ==
    [p \in Place |-> IF p \notin at THEN live[p]
                     ELSE IF w.on THEN live[p] \cup {w.field} ELSE live[p] \ {w.field}]

Returns(w) == ~behind /\ live' = Carry(w, w.at) /\ UNCHANGED <<late, behind, lost>>

\* An error reply; set_device_parameters for several taps may have set some.
Refused(w) ==
    /\ ~behind
    /\ \E at \in SUBSET w.at : at # w.at /\ live' = Carry(w, at)
    /\ lost' = TRUE
    /\ UNCHANGED <<late, behind>>

\* Sent, and the caller gets no answer of its own.
Missed(w) ==
    /\ late' = Append(late, w)
    /\ behind' = TRUE
    /\ UNCHANGED <<live, lost>>

Raises(w) == Refused(w) \/ Missed(w)

ReadReturns == ~behind /\ UNCHANGED linkVars
ReadRaises == behind' \in {behind, TRUE} /\ UNCHANGED <<live, late, lost>>

\* Live gets to the oldest unanswered write, or it refuses it or the connection
\* ends: once one is lost, what becomes of those after it is not followed.
LiveCatchesUp ==
    /\ late # <<>>
    /\ \/ late' = Tail(late) /\ live' = Carry(Head(late), Head(late).at) /\ UNCHANGED lost
       \/ late' = <<>> /\ lost' = TRUE /\ UNCHANGED live
    /\ UNCHANGED <<passVars, pc, todo, endVars, diskVars, behind>>

-----------------------------------------------------------------------------
(* The writes of each stretch of calls.                                    *)

Put(at, field, on) == [at |-> at, field |-> field, on |-> on]
Taps == Hosts \cup {Main}
Stop == Put({Main}, "playing", FALSE)
Play == Put({Main}, "playing", TRUE)

\* set_tap_recording, then route_host_post_mixer.
PrepareWrites(h) ==
    <<Put({h}, "rec", FALSE), Put({h}, "input", TRUE), Put({h}, "monitor", TRUE),
      Put({h}, "output", TRUE)>>

\* Recorders on, playback, recorders off, transport stop.
PassWrites ==
    <<Put(Taps, "rec", TRUE), Play, Put(Taps, "rec", FALSE), Stop>>

\* First the recorders are turned off, unless the inventory has them off.
PassBegins == {PassWrites, <<Put(Taps, "rec", FALSE)>> \o PassWrites}

RestoreHost(h) ==
    <<Put({h}, "input", "input" \in before[h]), Put({h}, "output", "output" \in before[h]),
      Put({h}, "monitor", "monitor" \in before[h])>>

\* Mutant: the host whose preparation failed is not restored.
RestoreOthers ==
    [i \in 1..(3 * (prepared - 1)) |-> RestoreHost(1 + ((i - 1) \div 3))[1 + ((i - 1) % 3)]]

RestoreWrites ==
    [i \in 1..(3 * prepared) |-> RestoreHost(1 + ((i - 1) \div 3))[1 + ((i - 1) % 3)]]

\* set_taps_recording at once, and tap by tap when that raises.
Disarm == Put(Taps, "rec", FALSE)
DisarmEach == [i \in 1..(Width + 1) |-> Put({i - 1}, "rec", FALSE)]

\* Where an exception goes. Only Exception reaches the handler; the finally
\* block cleans up unless the pass is settled.
Raise(e) ==
    /\ exc' = e
    /\ failed' = {}
    /\ \/ /\ pc \in InPass
          /\ pc' = "passFinally"
          /\ todo' = <<Disarm>> \o (IF stopped THEN <<>> ELSE <<Stop>>)
          /\ UNCHANGED <<handling, cur>>
       \/ /\ pc \notin InPass /\ e = "error" /\ ~handling /\ (mode = "batch" \/ prepared > 0)
          /\ handling' = TRUE
          /\ cur' = 1
          /\ pc' = IF mode = "batch" THEN "restore" ELSE "failing"
          /\ todo' = IF mode = "batch" THEN RestoreWrites ELSE <<>>
       \/ /\ pc \notin InPass /\ (e = "cancel" \/ handling) /\ ~settled
          /\ (mode = "batch" \/ prepared > 0)
          /\ pc' = "cleanup" /\ todo' = <<Stop>> /\ cur' = 0
          /\ UNCHANGED handling
       \/ /\ pc \notin InPass
          /\ \/ settled /\ (e = "cancel" \/ handling)
             \/ mode = "single" /\ prepared = 0
          /\ pc' = "done" /\ todo' = <<>>
          /\ UNCHANGED <<handling, cur>>
    /\ rows' = [h \in Host |-> "none"]
    /\ interrupted' = (interrupted \/ e = "cancel")
    /\ UNCHANGED <<mode, prepared, before, was, stopped, settled>>

\* try/except around a single call, or a finally block that goes on.
Swallowed ==
    \/ pc \in {"passFinally", "fallback", "restore", "cleanup"}
    \/ pc = "prepare" /\ Head(todo).field = "monitor"

Goto(place, writes) == pc' = place /\ todo' = writes

CallReturns ==
    /\ todo # <<>>
    /\ Returns(Head(todo))
    /\ todo' = Tail(todo)
    /\ stopped' = (stopped \/ (pc = "pass" /\ Head(todo) = Stop))
    /\ UNCHANGED <<pc, mode, cur, prepared, before, was, failed, handling, settled,
                   endVars, diskVars>>

CallRaises ==
    /\ todo # <<>>
    /\ Raises(Head(todo))
    /\ \/ ~Swallowed /\ pc # "transport" /\ Raise("error")
       \/ /\ pc = "transport"                  \* _restore_transport has its own handler
          /\ Goto("fallback", <<Stop>>)
          /\ UNCHANGED <<passVars, endVars>>
       \/ /\ Swallowed
          /\ LET w == Head(todo) IN
             /\ failed' = IF pc = "restore" THEN failed \cup w.at ELSE failed
             /\ todo' = IF pc = "passFinally" /\ w = Disarm THEN DisarmEach \o Tail(todo)
                        ELSE Tail(todo)
          /\ UNCHANGED <<pc, mode, cur, prepared, before, was, stopped, handling, settled,
                         endVars>>
    /\ UNCHANGED diskVars

-----------------------------------------------------------------------------
(* Preparing.                                                              *)

Parked(h) == live[h] \subseteq {"output"}

\* _require_parked_baselines. HOST_NOT_READY returns from inside the try, so
\* the finally block still stops the transport.
ReadBaselines ==
    /\ pc = "open" /\ mode = "batch"
    /\ \/ /\ ReadReturns
          /\ \/ /\ \A h \in Hosts : Parked(h)
                /\ Goto("record", <<>>)
                /\ UNCHANGED <<cur, endVars>>
             \/ /\ \E h \in Hosts : ~Parked(h)
                /\ Goto("cleanup", <<Stop>>) /\ cur' = 0
                /\ rows' = [h \in Host |-> "failed"]
                /\ UNCHANGED <<exc, interrupted>>
          /\ UNCHANGED <<mode, prepared, before, was, stopped, failed, handling, settled>>
       \/ ReadRaises /\ Raise("error")
    /\ UNCHANGED diskVars

JournalPrepared ==
    /\ pc = (IF mode = "batch" THEN "record" ELSE "open")
    /\ journal' = [journal EXCEPT ![cur] = "PREPARED"]
    /\ Goto("append", <<>>)
    /\ UNCHANGED <<passVars, endVars, files, linkVars>>

\* The single path takes its baseline here, outside the try: an error leaves
\* the journal open. It asks for no fresh copy (fresh=False), so the baseline may
\* be what the adapter remembers of the host, of any age.
AppendPrepared ==
    /\ pc = "append"
    /\ \/ /\ prepared' = cur
          /\ \E row \in IF mode = "batch" THEN {{}} ELSE SUBSET Routing :
                before' = [before EXCEPT ![cur] = row]
          /\ Goto("prepare", PrepareWrites(cur))
          /\ UNCHANGED linkVars
          /\ UNCHANGED <<mode, cur, was, stopped, failed, handling, settled, endVars>>
       \/ mode = "single" /\ ReadRaises /\ Raise("error")
    /\ UNCHANGED diskVars

\* The loops over the hosts of the pass. Mutant: one step too many.
OneMore == cur \in Hosts
More == cur + 1 \in Hosts

\* _verify_off_mix_graph: the host hears its source and is off Main.
Claimed(h) == Routing \subseteq live[h]

VerifyRouting ==
    /\ pc = "prepare" /\ todo = <<>>
    /\ \/ /\ ReadReturns /\ Claimed(cur)
          /\ journal' = [journal EXCEPT ![cur] = "RECORDING"]
          /\ IF More THEN cur' = cur + 1 /\ Goto("record", <<>>)
                                  ELSE cur' = 1 /\ Goto("begin", <<>>)
          /\ UNCHANGED <<mode, prepared, before, was, stopped, failed, handling, settled, endVars>>
       \/ /\ \/ ReadReturns /\ ~Claimed(cur)
             \/ ReadRaises
          /\ Raise("error") /\ UNCHANGED journal
    /\ UNCHANGED files

-----------------------------------------------------------------------------
(* capture_parallel_pass.                                                  *)

\* The transport snapshot, then a stop that is before the try.
BeginPass ==
    /\ pc = "begin"
    /\ \/ /\ ReadReturns
          /\ Goto("halt", <<Stop>>)
          /\ UNCHANGED <<passVars, endVars>>
       \/ ReadRaises /\ Raise("error")
    /\ UNCHANGED diskVars

Halted ==
    /\ pc = "halt" /\ todo = <<>>
    /\ \E writes \in PassBegins : Goto("pass", writes)
    /\ UNCHANGED <<passVars, endVars, diskVars, linkVars>>

\* What lies between two writes of the pass raises: clearing the staging files,
\* looking for playing clips, reading the position.
PassBreaks ==
    /\ pc = "pass" /\ todo # <<>>
    /\ ReadRaises /\ Raise("error")
    /\ UNCHANGED diskVars

\* Waiting for the recordings and finalizing them may fail half way.
Finalize ==
    /\ pc = "pass" /\ todo = <<>>
    /\ \/ /\ files' = TRUE
          /\ Goto("transport", <<Stop>> \o (IF was THEN <<Play>> ELSE <<>>))
          /\ UNCHANGED <<passVars, endVars>>
       \/ files' \in {files, TRUE} /\ Raise("error")
    /\ UNCHANGED <<journal, linkVars>>

\* _restore_transport reads back; a wrong state or position raises.
CheckTransport ==
    /\ pc \in {"transport", "fallback"} /\ todo = <<>>
    /\ \/ /\ ReadReturns /\ ("playing" \in live[Main]) = was
          /\ Goto("passFinally", <<Disarm>>)
          /\ UNCHANGED <<passVars, endVars>>
       \/ ReadReturns /\ Raise("error")
       \/ ReadRaises /\ Raise("error")
    /\ UNCHANGED diskVars

\* The end of the finally block: the exception goes on, or the pass returns.
EndPass ==
    /\ pc = "passFinally" /\ todo = <<>>
    /\ \/ exc # "none" /\ Raise(exc)
       \/ /\ exc = "none"
          /\ Goto("finalizing", <<>>) /\ cur' = 1
          /\ UNCHANGED <<mode, prepared, before, was, stopped, failed, handling, settled, endVars>>
    /\ UNCHANGED <<diskVars, linkVars>>

-----------------------------------------------------------------------------
(* Settling.                                                               *)

JournalFinalizing ==
    /\ pc = "finalizing"
    /\ journal' = [journal EXCEPT ![cur] = "FINALIZING"]
    /\ IF More THEN cur' = cur + 1 /\ UNCHANGED <<pc, todo>>
                            ELSE cur' = 1 /\ Goto("copy", <<>>)
    /\ UNCHANGED <<mode, prepared, before, was, stopped, failed, handling, settled,
                   endVars, files, linkVars>>

\* The single path records VERIFIED before it restores the host.
\* Mutant: so does the batch.
VerifiedAtOnce == [h \in Host |-> IF h \in Hosts THEN "VERIFIED" ELSE journal[h]]
VerifiedBeforeRestore ==
    IF mode = "single" THEN [journal EXCEPT ![1] = "VERIFIED"] ELSE journal

CopyAssets ==
    /\ pc = "copy"
    /\ \/ /\ Goto("restore", RestoreWrites) /\ failed' = {}
          /\ journal' = VerifiedBeforeRestore
          /\ UNCHANGED <<mode, cur, prepared, before, was, stopped, handling, settled, endVars>>
       \/ Raise("error") /\ UNCHANGED journal
    /\ UNCHANGED <<files, linkVars>>

\* Mutant: what the restore's own calls answered is not looked at.
LooksRestored(h) ==
    live[h] \cap {"input", "output"} = before[h] \cap {"input", "output"}

\* _restore_matches compares input and output; the batch also asks that the
\* host is parked.
Restored(h) ==
    /\ h \notin failed
    /\ live[h] \cap {"input", "output"} = before[h] \cap {"input", "output"}
    /\ mode = "batch" => Parked(h)

\* Mutant: the flag is not set.
NotSettled == UNCHANGED settled
Settle == settled' = TRUE

VerifyRestore ==
    /\ pc = "restore" /\ todo = <<>>
    /\ \/ /\ \/ ReadReturns /\ failed' = {h \in 1..prepared : ~Restored(h)}
             \/ mode = "batch" /\ ReadRaises /\ failed' = 1..prepared
          /\ Settle
          /\ cur' = 1
          /\ \/ ~handling /\ Goto("results", <<>>) /\ UNCHANGED endVars
             \/ handling /\ mode = "batch" /\ Goto("failing", <<>>) /\ UNCHANGED endVars
             \/ /\ handling /\ mode = "single" /\ Goto("done", <<>>)
                /\ rows' = [rows EXCEPT ![1] = "failed"] /\ exc' = "none"
                /\ UNCHANGED interrupted
          /\ UNCHANGED <<mode, prepared, before, was, stopped, handling>>
       \/ mode = "single" /\ ReadRaises /\ Raise("error")
    /\ UNCHANGED diskVars

\* One row and one journal per source; a host that is not back fails them all.
ReportRow ==
    /\ pc = "results"
    /\ rows' = [rows EXCEPT ![cur] = IF failed = {} THEN "ok" ELSE "failed"]
    /\ journal' = [journal EXCEPT ![cur] = IF failed = {} THEN "VERIFIED" ELSE "FAILED"]
    /\ IF More THEN cur' = cur + 1 /\ UNCHANGED <<pc, todo>>
                            ELSE UNCHANGED cur /\ Goto("done", <<>>)
    /\ UNCHANGED <<mode, prepared, before, was, stopped, failed, handling, settled,
                   exc, interrupted, files, linkVars>>

\* Mutant: the last host's journal is left out.
FailedButLast == IF cur < prepared THEN [journal EXCEPT ![cur] = "FAILED"] ELSE journal
FailedJournal == IF cur <= prepared THEN [journal EXCEPT ![cur] = "FAILED"] ELSE journal

\* except Exception: the batch after its restore, the single path before it.
JournalFailed ==
    /\ pc = "failing"
    /\ journal' = FailedJournal
    /\ \/ /\ mode = "single" /\ Goto("restore", RestoreWrites)
          /\ UNCHANGED <<cur, rows, exc>>
       \/ /\ mode = "batch" /\ cur < prepared
          /\ cur' = cur + 1 /\ UNCHANGED <<pc, todo, rows, exc>>
       \/ /\ mode = "batch" /\ cur >= prepared /\ Goto("done", <<>>)
          /\ rows' = [h \in Host |-> "failed"] /\ exc' = "none" /\ UNCHANGED cur
    /\ UNCHANGED <<mode, prepared, before, was, stopped, failed, handling, settled,
                   interrupted, files, linkVars>>

\* _cancel_cleanup_batch, _cancel_cleanup: stop, then for each host restore it
\* and close its journal, whatever each of them raises.
CleanUp ==
    /\ pc = "cleanup" /\ todo = <<>>
    /\ journal' = IF cur = 0 THEN journal ELSE [journal EXCEPT ![cur] = "FAILED"]
    /\ IF cur < prepared THEN cur' = cur + 1 /\ Goto("cleanup", RestoreHost(cur + 1))
                         ELSE UNCHANGED cur /\ Goto("done", <<>>)
    /\ UNCHANGED <<mode, prepared, before, was, stopped, failed, handling, settled,
                   endVars, files, linkVars>>

-----------------------------------------------------------------------------
(* Ctrl-C, the end of the process, and the next one.                       *)

\* Between two calls, or in one, whose reply is then left unread. A second
\* one, and one inside the cleanup, are not modelled.
Interrupt ==
    /\ ~interrupted /\ pc \notin {"cleanup", "done", "crashed"}
    /\ \/ UNCHANGED linkVars
       \/ todo # <<>> /\ Missed(Head(todo))
       \/ todo = <<>> /\ ReadRaises
    /\ Raise("cancel")
    /\ UNCHANGED diskVars

\* What was in memory is gone; the journals, the files and Live remain.
Crash ==
    /\ pc \notin {"done", "crashed"}
    /\ Goto("crashed", <<>>)
    /\ cur' = 1 /\ prepared' = 0 /\ stopped' = FALSE /\ failed' = {}
    /\ handling' = FALSE /\ settled' = FALSE
    /\ exc' = "none" /\ interrupted' = FALSE /\ rows' = [h \in Host |-> "none"]
    /\ lost' = TRUE                      \* not observed any more
    /\ UNCHANGED <<mode, before, was, diskVars, live, late, behind>>

\* _asset_candidates looks for the journal's name in the name of a file. A
\* single pass names both after the pass; a batch journal is <pass>_<slot> and
\* the files are capture_<pass>_slot<slot> and scb_v1_..._<pass>.
AssetsFound(h) == mode = "single" /\ files

\* Mutant: a pass that died while finalizing is not found.
StillRecording(h) == journal[h] \in {"PREPARED", "RECORDING"}
Unresolved(h) == journal[h] \in Open

\* recover_stale_capture_journal. The taps are seen as the adapter remembers
\* them, or not at all when Live is out of reach.
Recover(h) ==
    /\ pc \in {"done", "crashed"}
    /\ Unresolved(h)
    /\ \E recording \in BOOLEAN :
        journal' = [journal EXCEPT ![h] =
            IF recording \/ (AssetsFound(h) /\ journal[h] = "FINALIZING") THEN "IN_DOUBT"
            ELSE IF AssetsFound(h) THEN "FAILED" ELSE "RECOVERED"]
    /\ UNCHANGED <<passVars, pc, todo, endVars, files, linkVars>>

Core ==
    \/ CallReturns \/ CallRaises
    \/ ReadBaselines \/ JournalPrepared \/ AppendPrepared \/ VerifyRouting
    \/ BeginPass \/ Halted \/ PassBreaks \/ Finalize \/ CheckTransport \/ EndPass
    \/ JournalFinalizing \/ CopyAssets \/ VerifyRestore \/ ReportRow
    \/ JournalFailed \/ CleanUp

Next ==
    \/ Core
    \/ Interrupt
    \/ Crash
    \/ LiveCatchesUp
    \/ \E h \in Host : Recover(h)

\* A call returns or raises and the next line runs; the commands that capture
\* begin with recover_all_unresolved.
Spec == Init /\ [][Next]_vars /\ WF_vars(Core) /\ \A h \in Host : WF_vars(Recover(h))

-----------------------------------------------------------------------------

\* A host is as its baseline says, and its tap is idle.
Back(h) == live[h] = before[h]

\* Contract of the batch: "if any host cannot be restored the whole batch fails
\* closed". A source is reported captured only with every host back, all taps
\* idle, the transport as it was, and nothing on its way to Live that could
\* move one of them again.
SuccessIsClean ==
    \A h \in Hosts : rows[h] = "ok" /\ pc = "done" =>
        /\ files /\ journal[h] = "VERIFIED" /\ late = <<>>
        /\ \A g \in Hosts : Back(g)
        /\ live[Main] = IF was THEN {"playing"} ELSE {}

\* A VERIFIED journal of a batch is true wherever the Core ends after it: the
\* assets are on disk and all hosts of the pass are back for good.
VerifiedIsBack ==
    mode = "batch" =>
        \A h \in Host : journal[h] = "VERIFIED" =>
            files /\ late = <<>> /\ \A g \in Host : Back(g)

\* "settles every journal": when the pass returns rows, or its finally block
\* cleaned up, no journal of a host it had prepared is open.
SettledAtEnd ==
    pc = "done" /\ (exc = "none" \/ ~settled) =>
        \A h \in 1..prepared : journal[h] \notin Open

\* "every host ... restored afterwards", whatever calls fail and wherever the
\* user interrupts: when the pass has ended and Live has carried out all it was
\* sent, each host has its routing back and the pass is not playing.
ToldToRestore ==
    pc = "done" /\ late = <<>> /\ ~lost =>
        /\ \A h \in 1..prepared : live[h] \cap Routing = before[h]
        /\ prepared > 0 /\ "playing" \in live[Main] => was

\* A verdict in a journal stands: neither a later failure, nor an interrupt, nor
\* recovery rewrites it. The one exception is the single path, whose VERIFIED
\* comes before the restore and may turn into FAILED.
VerdictStands ==
    [][\A h \in Host : journal[h] \in Terminal /\ journal'[h] # journal[h] =>
           mode = "single" /\ journal[h] = "VERIFIED" /\ journal'[h] = "FAILED"]_vars

\* Every journal that is opened gets a verdict, from the pass or, after a crash,
\* from the recovery.
JournalCloses ==
    \A h \in Host : journal[h] = "PREPARED" ~> journal[h] \in Terminal

\* capture_journal_recovery.py: "Assets exist but never claimed VERIFIED". A
\* journal that was FINALIZING with the assets on disk is not closed as a pass
\* that left none.
AssetsAreInDoubt ==
    [][\A h \in Host : journal[h] = "FINALIZING" /\ files => journal'[h] # "RECOVERED"]_vars
=============================================================================
