# Formal model of the music platform's write path

TLA+ modules, TLC configurations and TLAPS proofs for the parts of this
repository that change something they cannot easily take back: the writes the
Core sends to Ableton Live, the production intents built from them, the capture
passes that reroute tracks to record them, the read caches those rely on, and
the generation jobs and the Live candidates of the Music Studio. Paths below are
relative to the repository root; `copilot/` stands for `src/copilot/`, and the
*Remote Script* is `vendor/abletonmcp_remote_script/AbletonMCP/__init__.py`.

## 1. The system

Python code (the **Core**) controls Live through a Remote Script that runs inside
Live and listens on a TCP socket. The Core reads snapshots of the Live set,
plans changes, writes them one command at a time, reads them back and keeps or
undoes them. A lost reply is the central difficulty: a command that was sent may
take effect after its caller has stopped waiting, so the code distinguishes
*refused*, *failed* and *in doubt*, and everything above the socket has to keep
that distinction.

| component (code) | state it keeps | operations | interacts with | what is hard | what makes it correct |
|---|---|---|---|---|---|
| Command link (`copilot/daw/ableton_tcp.py`, Remote Script) | socket and its unread bytes; handler threads; Live's main-thread task queue | connect, `_command`, `_recv_json`; `_handle_client`, `_process_command`, `main_thread_task` | all of the Core above it, Live below it | two independent timeouts (8 s client, 10 s bridge), neither of which cancels the task; late replies; one handler thread per connection | a result is the call's own; of a refused command nothing is pending (though it may have changed something); writes of one connection keep their order; each call returns |
| Mutation protocol (`copilot/daw/mutation_protocol.py`) | plan, step rows, flags, batch status | compile prepare/restore, execute compound or sequentially, classify | link; capture flow | compound reply lost; one step in doubt; candidates tried in turn; cancel | rows tell the truth about Live; nothing dependent is written on top of doubt |
| Safe write executor (`copilot/runtime/safe_write.py`) with agent transactions (`copilot/agent/transactions.py`, `journal.py`, `recovery.py`) | open transaction, recorded actions with fingerprints, fsynced journal | reconcile, prepare, execute, readback, reconcile, verify, keep, roll back; recovery classification | link; `daw/identities.py` | partial failure, cancel, crash, user edits, rollback in doubt | write-ahead journal; all-or-nothing keep; exact rollback; every transaction is closed |
| Music Studio (`copilot/studio/service.py`, `store.py`, `server.py`) | SQLite tables, `_cancelled_jobs` in memory, one thread per job and per request | submit, retry, cancel, run, select, version | providers, browser | unlocked read-modify-write of the jobs table; restart loses threads and flags | idempotent submission; finished jobs stay finished; cancel stops work |
| Music Studio variations (`copilot/studio/service.py`, `persistence.py`) | one JSON list of rows per project, `_variation_runtime` in memory, a connection and an executor per candidate, the set on disk | produce, keep, select, discard, reject all | the safe write executor and its rollback, the capture, Live's save | requests in parallel without a lock; a list written back whole; rollback by index; save in doubt; restart | what a row says is true of Live and of the saved set; no connection is left behind |
| Other agent writes (`copilot/agent/slices.py`, `tools.py`, `daw/lock.py`) | the same TransactionManager | conservative slices, `_execute_write` with reconcile and retry, `rollback_last` | link | a retry of a write that is still scheduled: the reconciling read follows the missed reply on the same connection, so the link never lets it return | no duplicate effect |
| Capture host flow (`copilot/audio/source_capture_batch_v1.py`, `arrangement_active_source_isolation.py`, `batch_capture.py`, `live_capture.py`, `capture_journal_recovery.py`, `tap_trust.py`) | host baselines, one capture journal per host, recordings on disk | prepare, record in one playback pass, restore, settle; clean up after Ctrl-C; recover | link; the user's transport | every call may fail or be in doubt; Ctrl-C and crash with hosts routed; a write carried out after its restore | a source is reported captured only if everything is back; every journal gets a verdict and keeps it; every host is told to go back |
| Runtime freshness and caches (`copilot/runtime/freshness.py`, `rpc.py`, `cache.py`, `evidence.py`, `graph.py`) | generations per project, track and domain; the read view; the adapter's last rows | bind, read a field or a bundle, bulk reads, apply a mutation | link, snapshots | commands that raise, unscoped commands, the user's own edits, another project | a caller reads its own writes, and never an older value than before |
| Identities and tokens (`copilot/daw/identities.py`, `plan_envelope.py`, `state_tokens.py`, `object_ref.py`) | stable ids, hashes | attach, resolve, check | every plan | look-alike objects | never the wrong target |
| Transport events, importing, analysis, reasoning, providers, producer, servers, browser UI | see `PROJECT.json` | | | | not modelled, with the reason for each |

`PROJECT.json` lists all components with their status, and under `hazards` each
line where one of these difficulties bites, with the property that would show it
going wrong.

## 2. Modules

```
LiveLink  (contract of the link)        StudioJobs   <- StudioJobsProofs
  ^ implemented by  CommandLink  <- CommandLinkProofs
                                        Freshness    <- MCFreshness, FreshnessProofs
  ^ extended by     MutationBatch  <- MCMutationBatch (with CompileHosts)
                                        CapturePass  <- CapturePassProofs
                                        StudioVariations <- MCStudioVariations, StudioVariationsProofs
  ^ extended by     SafeWrite      <- MCSafeWrite       (carries its own, coarser link)
  |                   implements AgentTransaction
  ^ proved in       LiveLinkProofs <- MutationBatchProofs, SafeWriteProofs
```

**LiveLink** is the abstract specification of the link: for each command its
`verdict` (what `_command` told its caller) and its `fate` in Live. `Issue`,
`Apply`, `Spoil`, `Discard`, the four `Return` actions and `Reconnect` say which
pairs may arise: a result only while the connection is in step and Live carried the
command out; a refusal only for a command Live is through with, whether it changed
nothing or, a handler having raised half way (`Spoil`), left a part of its effect;
`in_doubt` and `failed` at any time. Everything above the socket is built on this
module.

**CommandLink** is the detailed specification: one adapter, a handler thread per
connection and Live's main thread, with the byte streams as sequences of requests and
replies. `Send`, `Receive`, `Timeout` and `Disconnected` are the branches of
`_command`; `TakeWrite`, `TakeRead`, `ReplyDone`, `Abandon`, `RunTogether`, `Swallow`
and `EndHandler` those of `_handle_client` and `_process_command`; `MainThreadTask` is
`main_thread_task`, `LiveExits` its end. A handler in Live ends in one of three ways
(`End`): it returns, it raises having changed nothing, or it raises after a change,
and both raises are one error reply (Remote Script 1551-1554). `EndHandler` may also
end a handler whose command is over but whose reply could not be sent (246-268).
`RunTogether` is the handler's behaviour when two requests arrive in one read: the
JSON parser rejects the buffer and the handler waits for ever for the rest. The
refinement mapping (`FateOf`, `VerdictOf`) is at the end of the module.

**MutationBatch** is `execute_mutation_plan`. `SendCompound`, `CompoundReturns` and
`Classify` are the compound transport with `LiveRunsCompound` as its handler in the
Remote Script; `SkipStep`, `AttemptStep`, `PlainReturns`, `InputReturns`,
`OutputReturns`, `Record` and `Raised` are `run_ordered_steps` and
`_apply_sequential_step`, RPC by RPC. Argument values are left out: Live's answer to
each RPC is a choice of the link: carried out, refused, or raised with a part of it in
effect (`LiveRefuses`). **CompileHosts** has the two plan compilers, as functions from
a host inventory to a sequence of steps.

**SafeWrite** is `SafeWriteExecutor.run` with the `TransactionManager` it drives. `pc`
is the place in `_run`; a place in `StepCall` or `RunCall` is a call in progress.
`Begin`, `MarkPrepared`, `MarkSent`, `RecordStep`, `Commit`, `Abort`, `RolledBack`,
`ResolveConflicts`, `RollbackRaises` and `MarkInDoubt` each write the journal record
of the method they are named for (`last` is the latest; the append with its fsync is
one step). `StepFails` is the handler at lines 774-809, `CurrentRaises`,
`ReadbackRaises`, `SnapshotRaises` and `RestoredRaises` the one at 475-495. Live's
tracks are the sequence `live`, what a fingerprint shows of a track is `look[t]`, and
an inverse is addressed by the index that `_rollback_actions` resolved (`addr`), as
the code does. Live carries a command out (`LiveApplies`), raises with a part of it
done (`LiveSpoils`: a created track is there all the same) or refuses it
(`LiveRefuses`). `Recovery` is `classify_journal` on the last record.

**AgentTransaction** is the abstract specification of a production intent: what a
reader of the journal and of the answer may rely on, without commands, replies,
snapshots or records. `Write` and `Undo` are a step and its inverse taking effect
in Live, `Book` the recording of a step, `Close` the last journal record, `Answer`
what `run` returns; `MayClose` and `Answers` say what each way of closing means. The
refinement mapping is at the end of SafeWrite: `Written` says whether none,
some or all of a step's commands have taken effect in Live (one that raised after a
change counts as some), `Closed` reads the last journal record.

**StudioJobs** has one worker thread per job and one server thread per request.
`update_job` is two actions, `ReadRow` and `WriteRow`, between which other
threads run, and `CheckCancelled` and `AppendEvent` complete `_emit_status`; the
worker's own steps (`SelectProvider`, `CheckHealth`, `NextCandidate`, `Generate`,
`RegisterAsset`, `Progress`, `Finish`, `Raise`) each queue the updates they make.
`Restart` ends the process and keeps the tables.

**CapturePass** is `capture_sources_post_mixer_batch` (`mode = "batch"`) and
`capture_source_post_mixer` (`"single"`), with `capture_parallel_pass` inside both.
`pc` is the place; `todo` the writes left in the current stretch of calls, each with
the tracks it touches, so that `CallReturns` and `CallRaises` cover every RPC of
`PrepareWrites`, `PassBegins`, `RestoreWrites`, `Disarm` and `DisarmEach`; what raises
between two of the pass's writes is `PassBreaks`. The batch takes fresh baselines, the
single path whatever the adapter remembers (`AppendPrepared`). `Raise` is what an
exception does at each place: through the `finally` of the pass, into `except
Exception`, into the cleanup, or out. `JournalPrepared`, `VerifyRouting`,
`JournalFinalizing`, `CopyAssets`, `ReportRow`, `JournalFailed` and `CleanUp` each
write the journal record of their lines; `settled` is the flag the code's `finally`
looks at. `Interrupt` is a Ctrl-C between two calls or inside one, `Crash` the end of
the process and `Recover` `recover_stale_capture_journal`. `live` holds, for each host
and for Main, what is not in its idle position, and `late` the writes nobody has an
answer to: Live may carry them out in order (`LiveCatchesUp`) while the Core goes on.
The module carries this coarse link of its own, instead of extending LiveLink, because
what counts here is the *content* of the late writes.

**Freshness** is the `FreshnessClock` and the `ProjectReadView` with the wrappers
`install_read_view` puts around the adapter. Live's content is a version number per
track and field; `topoGen` and `trackGen` are the clock's counters, `topoRead` and
`readGen` the generations at which something was marked read, `tracks` the cached
rows, `infos` and `topology` the adapter's `last_track_infos` and `last_topology`.
`Mutate` is a wrapped command with `ApplyMutation` and `SyncAfterMutation`,
`MutateRaises` one that raised; `GetTrackInfo`, `GetTracksInfo`, `GetTrackMonitoring`,
`GetUnkept`, `GetTrackSends` are the wrapped readers, `Snapshot` and `SnapshotAndBind`
the three ways a snapshot is taken, `Serves` what a hit answers. `floor` is an
observer: the newest version of a field that the caller knows of, from a read or from
its own write.

**StudioVariations** is `produce_generate` with `_produce_one_real_variation`,
`variation_action` and `reject_all_variations`. Each request is a thread of the
ThreadingHTTPServer; `job[r]` is its place with its local variables: the candidate,
the row it is about to write, the list it read (`list`), the track index its rollback
resolved (`index`). A rollback finds its track by a fingerprint, which has no name:
`Found` is the tracks that answer it, `Own` the candidate's among them, and where its
own is edited or gone the only other candidate of the same `Shape` is taken for it
(`Resolve`). `Produce`, `SafeWrite`, `Captured`, `PreviewFails` and `Register` make a
candidate; `NothingToUndo`, `Resolve`, `Conflict`, `Strike` and `StrikeFails` are
`_rollback_applied`; `Keep` with `SaveVerified` and `SaveUnverified`, `Select`,
`Discard` with `DiscardNext` and `Readback` are the actions of a review; `ReadRows`
and `PutRows` the `get_state` and `set_state` around each change of the list. `Breaks`
is an exception of the next call anywhere, `Restart` the end of the server with its
memory. `link[v]` is the connection a candidate's executor uses (the candidates of one
request share it), `disk` what the saved set holds, `astray` an observer of deletions
that hit another track than theirs.

Definitions whose comment begins with `Mutant:` are not part of a specification:
each is a plausible wrong version of the definition after it, and `PROJECT.json`
pairs it with the property that detects it.

## 3. Runs

| run | bounds | result |
|---|---|---|
| `command_link` | two writes, one read, two connections | 166,027 states, all properties hold |
| `mutation_batch` | prepare of one host with a tap and a send, restore of two hosts with a routing and a value each, the empty batch | 13,264 states, all hold |
| `safe_write` | five intents of one to four steps over a session of three tracks, one user edit | 776,662 states, all hold |
| `studio_jobs` | two jobs, two requests, one idempotency key, two candidates, one restart | 272,826 states, all hold |
| `freshness` | two tracks (symmetric), two changes, one command of each kind of row in `MUTATION_DOMAINS` (one field, no track, restructuring), one field the user edits | 336,426 states, all hold |
| `capture_pass` | a batch of two hosts and the single path, one Ctrl-C, one crash, any call failing in any way | 1,584,889 states, all hold |
| `variations` | two requests at a time and four in all, two candidates (symmetric), one or two asked for, one edit of the user, any number of restarts | 2,834,433 states, all hold |
| `lost_ack`, `undo_target`, `cancel_terminal`, `discard_retry`, `lost_assets` | as above | the code does not do what a document, comment or test says (section 5) |

Why these bounds are enough for the questions asked: with two writes and a read
on one connection a late reply can be met by a write and by a read, and a second
connection lets the writes of two connections overtake each other. A prepare
plan has each of the four kinds of step; two restored hosts are needed for what
one host's failure does to the next. The SafeWrite plans have two steps on user
tracks (so a failure of the second rolls back the first), a parameter step (no
look after the write), a device step, a created track with everything that can
be put on it, and two created tracks inserted in front of each other; tracks `a`
and `b` look alike, `m` is the one with notes, and the user may edit `a`. In
StudioJobs two requests cover submit against submit, submit against retry and
submit against cancel; two cancels of one job after its submission need a third
request and are outside the bound (with one job and three requests the state
space is about 942,000 states and showed nothing new).
In CapturePass two hosts are needed for one host's failure to meet the other's
success, for a restore that stops half way through the hosts and for the journal
loops to be interrupted between two records; a third host repeats the second.
In StudioVariations two requests at a time are what a lost update and a deletion by
a stale index need, and two candidates what a list, a shared connection and
`reject_all` need; with four requests in all a candidate can be made, discarded in
conflict, discarded again and reviewed once more (`MaxServed`, `MaxTouches`).

What the properties say, beyond the type invariants:

* link: `ResultIsOwn` (a result belongs to the call, in spite of late replies),
  `ImplementsContract` (CommandLink refines LiveLink, so an error reply means that
  Live is through with the command: nothing of it comes later. It does not mean that
  nothing was changed, section 5), `EveryCallReturns`.
* batch: `AppliedRowsAreTrue`, `CompleteIsSettled` (no write of a COMPLETE batch
  is still to take effect), `NoDependentWriteAfterDoubt`,
  `FailedBeforeSentNothing`, `BatchEnds`.
* safe write: `WriteAhead` and `ClosedIsSettled` (what the last record on disk
  promises about Live wherever the Core crashes), `NothingOnTopOfDoubt`,
  `RolledBackUndoesRecorded`, `ToldAsJournaled` (result and journal agree),
  `ImplementsTransaction` (steps take effect in order and one at a time, they are
  undone in reverse, a kept intent is in Live as a whole, a transaction is closed once
  and as the journal says, and Live changes only while the run goes on or when it was
  left in doubt), `RunEnds`.
* studio: `SameKeySameJob`, `SucceededIsComplete`, `CancelStopsProvider`,
  `AnnouncedEndIsStored`, `FinishedStays`, `JobEnds`.
* freshness: `ReadNotAhead` (no read is marked with a generation the clock has
  not reached, though counters restart at 0), `SessionGuarantees` (read your
  writes and monotonic reads, but for the one case the code bypasses),
  `NoRevival` (of monitoring, routing, devices and their parameters, a copy the view
  had stopped serving does not come back: what it begins to serve is what Live shows at
  that step, but for the case the code bypasses). Sends and metadata are outside it,
  because they do come back (section 5), and so is a copy that was never withdrawn: the
  one a write in doubt leaves being served.
* capture: `SuccessIsClean` (a captured row means assets, journal, hosts, taps
  and transport are all as promised, with nothing on its way that could move
  them), `VerifiedIsBack` (the same of a VERIFIED journal wherever the Core
  ends), `SettledAtEnd`, `ToldToRestore` (once Live has carried out all it was
  sent, every host has its routing back and the pass is not playing),
  `VerdictStands`, `JournalCloses`.
* variations: `ToldGone` (a FAILED or DISCARDED row is true of Live, but for a
  conflict or a deletion that hit another candidate's track: one that was taken for it,
  or one that had moved to its index), `KeptIsOnDisk` (a KEPT candidate in Live
  is in the saved set, whatever other requests saved, removed or overwrote since),
  `ConnectionsOwned` (a failure leaves no connection open without an owner, and
  takes it from a registered candidate only if others of its request used it too).

**Deadlock** checking is off where a system may stop: calls, batches, runs and jobs
are finite, and a run that ended does nothing more. It is on in `variations`: a
server can always be started again.

**Fairness.** CommandLink: each call's `Receive`, `Timeout` or `Disconnected` is
weakly fair, because `_command` arms the socket timeout before each receive; no
fairness is assumed of the bridge or of Live. MutationBatch and SafeWrite: the
Core's own steps (a running thread) and the return of a call, which
`EveryCallReturns` justifies; nothing of Live. StudioJobs: each worker thread; a
provider call returns or raises. Requests and restarts are not fair. CapturePass:
the Core's steps, and `Recover` for each host, because the commands that capture
begin with `recover_all_unresolved`; Ctrl-C, crashes and Live's late writes are
not fair. Freshness and StudioVariations state no liveness: nothing in the first
waits, and in the second every call may raise and end its request.

## 4. Proofs

`LiveLinkProofs` proves `LinkCorrect`: `LinkSpec => []LinkInv`, for every set of
commands and number of connections, and the step lemmas on `Issue`, `Apply`,
`Spoil`, `Discard` and `Return` that other proofs cite. The one assumption is
`LinkAssumption`.

`CommandLinkProofs` proves, from `CommandAssumption`, for every set of commands
and every number of connections:

* `CommandTypeOK`, `CommandResultIsOwn`;
* `CommandRefusedIsOver`: nothing of a write that was answered by an error is still on
  its way, and it was not carried out as a whole unless the bridge has closed its
  connection;
* `CommandImplementsContract`: `Spec => ImplementsContract`, so what is proved
  over LiveLink holds of the adapter, the bridge and Live's main thread;
* `CommandFailureHasCause`: a write fails for want of a reply only over a connection
  the bridge has closed, and any call fails on a foreign id only after an earlier
  one on its connection missed its reply;
* `CommandLostAckInStep`: hence a write that Live carried out is told as a result or
  as in doubt, never as failed or refused, while its connection is open and every
  earlier call on it got its own reply. Section 5 shows a lost ack told as a failure;
  this theorem says when that cannot happen. Neither condition can be dropped: within
  the bounds of `command_link` TLC finds a counterexample to each half alone.

All rest on `CommandInv`. The difficulty is `ReturnResult`: the contract lets a
call return a result only while the connection has missed no reply, and nothing in
the adapter remembers that one was missed. What keeps the code right is order:
requests, handlers, tasks and replies hold commands in the order they were sent
(`Order`, `Stream`), so a reply that was missed is still to come and stands ahead
of the reply to any later call (`Behind`, `MissedIsAhead`); the later call reads
the old reply first and ends as a mismatch. That a refused command is over needs the other
half: an error reply to a call still waited for is written only after Live ended
the task (`Tells`), and the error without an id, which the adapter takes as its
own, is the last thing a handler sends (`Ended`), when neither a handler nor a
request nor a reply of the call is left (`Waiting`). In the refinement every step
that takes commands away from Live - a full or jammed buffer, a handler that ends,
Live's exit - is one `Discard` of all of them (`DiscardStep`), and a task that runs
is `Apply` or `Spoil` of the oldest write of its connection (`RunStep`), or its
`Discard` when it raises having changed nothing.

`MutationBatchProofs` proves, from `LinkAssumption` and `BatchAssumption` (the
shape of `Command`; plans are sequences of steps of at most `MaxSteps`), for
every set of plans:

* `BatchTypeOK`: `Spec => []TypeOK`;
* `BatchAppliedRowsAreTrue`: `Spec => []AppliedRowsAreTrue`;
* `BatchNoDependentWrite`: `Spec => []NoDependentWriteAfterDoubt`;
* `BatchCompleteIsSettled`: `Spec => []CompleteIsSettled`;
* `BatchFailedBeforeSentNothing`: `Spec => []FailedBeforeSentNothing`;

the first three from `BatchCorrect`, `Spec => []BatchInv`. None is inductive. A
row becomes APPLIED when the *last* RPC of a step returns a result, and an output
step may have sent a first candidate that timed out: that this candidate is not
pending any more follows from two facts about the connection, `OneConnection`
(everything was sent on the one in use, so in order) and `StepInStep` (a result
on a connection implies that it has missed no reply, hence every earlier RPC of
the step returned an answer of its own and is settled). The second property
needs to know that a row is written before the next step starts (`RowsBehind`,
`NotAhead`), which RPC may be out (`OneCall`, `RpcSent`) and that `stop` is down
exactly while every row so far is APPLIED or an independent step cleared it
(`GoesOn`). `BatchInv` is their conjunction with `TypeOK` and `LinkInv`; the
proof has one lemma per action of the Core and one for each kind of step of the
link.

What a whole batch reports is about both of its transports, and follows from
`BatchOutcome`, `Spec => []OutcomeInv`, proved on top of `BatchInv`: the steps
are sent only when the compound command was not, or was refused
(`OneTransport`), no RPC of a skipped step was sent (`SkippedUnsent`), and
nothing happens to a batch after it got its status (`StatusLast`).

`BatchUsesLink`, and `SafeWriteUsesLink` in `SafeWriteProofs`, prove
`Spec => LinkSpec`: whatever the callers do, their commands go through the link as
LiveLink allows. With `CommandImplementsContract` this closes the stack: the contract
that the batch and the run are proved over is the one the adapter is proved to keep.

`SafeWriteProofs` proves every safety property of SafeWrite but those the code
breaks, from `LinkAssumption` and `SafeWriteAssumption` (the shape of `Command`;
each plan has between one and `MaxSteps` steps; fingerprints show the features of
the session's own tracks), for every set of
plans, every session and every edit the user may make: `SafeWriteTyped`,
`WriteAheadHolds`,
`ClosedIsSettledHolds`, `NothingOnTopOfDoubtHolds`, `ConflictMutatesNothingHolds`,
`KeptIsWholeHolds`, `UndoneInReverseHolds`, `RolledBackUndoesRecordedHolds`,
`ClosedAtEndHolds` and `ToldAsJournaledHolds` (`ConflictMutatesNothing`,
`KeptIsWhole`, `UndoneInReverse` and `ClosedAtEnd` have no run of their own), the first
from its own invariant, in which every call that was sent belongs to a step of the plan (`SentInPlan`), the others from
`SafeWriteCorrect`, `Spec => []RunInv`. What they lack to be inductive is:

* `JournalPlace`: the last record and the in-memory status at each place of the
  run. It makes a crash at that place safe (`WriteAhead`) and decides what
  `StepFails` and `CurrentRaises` close the transaction as (`ToldAsJournaled`).
* `Clean` and `ResolveInStep`, with `OneConnection` from the link: before a
  rollback resolves its targets, and once it has, no earlier call is without an
  answer. Between the two, on the way into a rollback, there may be one; what
  rules out an inverse after it is that the rollback's own snapshot must return,
  and on a connection that missed a reply none does. `ClosedIsSettled` and
  `NothingOnTopOfDoubt` both rest on this.
* `WholeSoFar`: all writes of the steps before `cur` returned results; at the
  readback `cur` is past the plan, hence `KeptIsWhole`.
* `UndoneSoFar`: the recorded steps above `cur` are undone and those below were
  not sent. It needs that `LastOf` picks a greatest element, which `LastExists`
  derives from the well-foundedness of inclusion on finite sets, and that no
  rollback starts with nothing recorded.

The proof has one lemma for each group of conjuncts over all the actions between
two calls (`HandleClean`, `HandleJournal`, ...), and one for each other kind of
step (`SendKeeps`, `ReturnKeeps`, `SettleKeeps`, `CrashKeeps`, `StayInv`).

`SafeWriteImplementsTransaction`, `Spec => ImplementsTransaction`, needs one more
invariant, `OrderInv`: which steps are recorded at each place (`BookedSoFar`), that a
write is sent only of a step whose predecessors are recorded (`SentSoFar`), that a
recorded step was written as a whole (`BookedIsWhole`), that no write is pending once
an inverse is sent (`UndoIsBooked`), and that a run which answered without closing its
transaction has sent nothing (`AnsweredOpen`). A step of Live is a `Write`, an `Undo`
or a stutter of the transaction (`WriteMaps`, `UndoMaps`); a step of the run is a
`Book`, a `Close`, an `Answer` or a stutter (`RecordMaps`, `HandleEnds`).

That an inverse hits its track does not hold of the code (section 5), and two
conditions on the set and the plan make it hold: no track of the session looks like
another (`NoLookAlikes`), and an intent creates at most one track, appended behind
those of the session, and works on that one and on tracks of the session
(`AppendsAtMostOne`). Under them `RollbackIsExact` proves `ExactInv`, with
`UndoHitsItsTargetWhenAppended` (every inverse takes effect on the track of its step)
and `RollbackRestoresTracks` (a recorded creation that was rolled back leaves Live with the tracks it had
before, in their order) as its consequences. Its core is that a snapshot can then
resolve a recorded step to no track but its own (`ResolvedIsTarget`), that the index
stays right because the created track is last and the first to be undone
(`ResolveExact`, `UndoExact`), whatever the user edits. The conditions are enough; that
each is the weakest possible is not claimed.

`FreshnessProofs` proves all the properties of the `freshness` run, for every set of
tracks, every set of commands sent and any number of changes, from
`FreshnessAssumption`: `FreshnessTypeOK`, `FreshnessReadNotAhead`,
`FreshnessSessionGuarantees` and `FreshnessNoRevival`. The invariant `ViewInv` adds to
`TypeOK` and `ReadNotAhead` that what the caller knows is no newer than Live
(`FloorIsPast`) and that a row of a fresh domain is at least as new as what the caller
knows (`FreshIsKnown`). `FreshnessNoRevival` is about monitoring, routing, devices and
parameters, and needs that a row has its devices and their parameters together
(`Paired`), since parameters are served only with a fresh inventory and are taken in
the same reads. The step that could break the last is a mutation, and `TableCovers` is
the argument: whatever field a command changes, `MUTATION_DOMAINS` names it, or the
topology, or the command is unknown and forgets everything, so either the generation
moves, or the reads are forgotten, or the rows are dropped. A generation once passed
is never met again by an old read, although counters restart at 0, because
`ReadNotAhead` holds.

`CapturePassProofs` proves every safety property of the `capture_pass` run, for
every number of hosts, from `HostsAssumption`: `CaptureTypeOK`,
`CaptureSuccessIsClean`, `CaptureVerifiedIsBack`, `CaptureSettledAtEnd`,
`CaptureToldToRestore` and the action property `CaptureVerdictStands`, all from
`CaptureCorrect`, `Spec => []CaptureInv`. The invariant has two halves. One is
about the code: where each flag may be up (`Flags`), how far a loop is and which
hosts the `finally` block knows (`Loops`), what is left to write (`Writes`), which
journals may already have a verdict (`Verdicts`). The other is about Live, and
holds only while the connection has missed no reply: nothing is late
(`LiveShape`), the recorders are off from the moment the pass has stopped them and
the transport is as `CheckTransport` saw it (`InStep`). A row can be `ok` only if
the read of `VerifyRestore` returned, so the connection was in step there; `AllBack`
then derives that each host is where it was: its input and output because the
read compared them, its recorder from `InStep`, and its monitor, which the read
does not compare, because the batch asks for a parked host and the single path's
last write returned. `LiveCatchesUp` cannot disturb a promise that was made, since each
says that nothing is late. The proof has one lemma per action, and `RaiseKeeps`
for an exception at any place.

`CaptureToldToRestore` is about the opposite case, in which writes are late, and
needs an invariant of its own, `DueInv`, on top of `CaptureInv`. A switch *settles* at
a value when the last late write to it carries that value, or there is none and Live
shows it (`Settles`); it is *due* at the value when the last write still to be sent
does, or there is none and it settles there (`Due`). Sending a write turns due into
due whether the call returns or misses its reply (`SentDue`), and Live carrying one
out changes nothing, because it does so in the order they were sent
(`CatchUpSettles`): so a write in doubt cannot undo a restore sent after it. What is
left is that each host becomes due at its baseline with the first write of its
restore (`RestoreRow`, `RestoreHostRow`, `HostsDue`) and that from the start of the
playback a stop is always due (`StopDue`), through every exception (`RaiseDue`). A
write that was refused, or that the end of the connection dropped, is outside the
promise (`lost`).

`StudioJobsProofs` proves every safety property of the `studio_jobs` run, from
`StudioAssumption`, for every set of jobs, requests and keys, any
`candidate_count` and any number of restarts: `StudioTypeOK`,
`StudioSameKeySameJob`, `StudioSucceededIsComplete`, `StudioCancelStopsProvider`,
`StudioAnnouncedEndIsStored` and the action property `StudioFinishedStays`, all from
`StudioInvariant`, `Spec => []StudioInv`. `update_job` writes whole rows it read
some time before, so what has to be found is which old copies can still be written
and what they hold:

* `Shape` and `Orders` say which updates each thread may have in front of it: only
  a worker writes a final status, and only as the last of its updates; a request
  writes nothing but `CANCEL_REQUESTED` and `CANCELLED`, and only for a job it has
  already flagged (`Requests`).
* Hence a worker that passes its last look at the flag (`Finish`) meets no request
  holding a copy of its row; any copy read later has the final count (`Counts`),
  so writing it back over `SUCCEEDED` loses nothing but the status.
* `Rest`: a row in a final status has a worker with no write left, and nothing else
  writes a job nobody cancels, which gives `FinishedStays` and, with `Announced`,
  `AnnouncedEndIsStored`.
* `Owners` is the UNIQUE constraint with its consequences: one job per key, one
  request that starts its thread.

The proof has one lemma per action; `GoOnStep` collects what all steps of the
worker's own code have in common and `RequestMoves` what those of a request have.

`StudioVariationsProofs` proves all the properties of the `variations` run, for every
set of requests and candidates, any number of requests served, edits and restarts,
from `VariationsAssumption`: `VariationsTyped`, `ToldGoneIsTrue`, `KeptIsSaved` and
`NoConnectionLeaks`, all from `VariationsCorrect`, `Spec => []StudioInv`. Since a
thread may write back a list it read long ago, a property of the stored rows is not
inductive: the lists in hand have to be true as well, and stay true while others
change Live. The argument is `Stable`: once a candidate has a transaction, no step
brings a track of it to Live, takes a kept one from the saved set while it stays in
Live, or forgets a conflict; so what is true of a row (`TrueRow`) when it is read is
true when it is written. `Sound` says so of each request, `RowsTrue` of the store,
with the fact that a candidate has at most one track (`Unrepeated`), without which
deleting one would not make it gone. `Connections` adds who owns a connection: it is
named by its first candidate, a request that makes candidates works over one no
other such request uses, and on a candidate that is not registered yet. The proof
has one lemma per group of actions; `Going`, `Working` and `Failing` collect what
steps that only move a request on, change Live, or end with an error have in common.

**That nothing goes on for ever.** Liveness under fairness is out of the prover's
reach, but half of it is a safety property, and that half is proved for every value
of the constants: a number that each step of the code makes smaller and that nothing
else - Live, the link, the user, a cancel, another thread - makes larger.

* `BatchRunsDown`: `Remaining`, five for each step of the plan and three more: an
  attempt and at most four RPCs, which each kind of step sends in one order (`Stage`).
* `SafeWriteRunsDown`: `ToGo`, which counts the places of the run to come, the
  rollback's included, and the sending of the call at each: a run of `n` steps makes
  at most `14n + 21` of its own.
* `CaptureRunsDown`: `Phase` and, within one, `Left`. Exceptions lead forward only,
  through the handler, the `finally` of the pass and the cleanup; the one place where
  the work left can grow, a `Disarm` of all taps that fails and becomes one call per
  tap, happens once (`OnceAtOnce`).
* `StudioWorkerRunsDown`: `Effort`, places and store calls of one worker: `36n + 63`
  steps for `n` candidates, whatever other threads do to its row or its flag.

What is left to TLC is that the code is never stuck before its end: that a call
returns and a thread that can go on does, which the fairness says.

Only model-checked: liveness (`EveryCallReturns`, `BatchEnds`, `RunEnds`,
`JobEnds`, `JournalCloses`), and the disagreements of section 5. Every safety
property and the two refinements a passing run checks are proved.

## 5. Where the code and its documents disagree

1. `LostAckIsInDoubt` - a connection that ends before the reply makes a write
   Live carried out an ordinary failure (`ableton_tcp.py:1296`);
   `docs/SAFETY_INVARIANTS.md` says a lost ack is IN_DOUBT. The other way to the
   same end is a connection that has already missed a reply, on which every later
   call is a mismatch (`CommandLostAckInStep` excludes both). A write whose reply could
   not be sent, because `json.dumps` or `sendall` raised in the handler (Remote Script
   246-268), is answered by an error without `request_id` over a connection that then
   closes; the adapter reads it as a refusal.
2. `UndoHitsItsTarget` - the indexes of all inverses are resolved before the
   first one runs (`transactions.py:621`), and `delete_track` shifts them. TLC's
   counterexample: two new tracks, both inserted at index 0; the first inverse
   that deletes a track makes the next one delete the wrong one.
   With a user edit allowed there is a shorter one: the edited track no longer
   matches, its look-alike is the only match, and is taken
   (`identities.py:202`). In a set without look-alikes, and for an intent that appends
   at most one track, neither can happen (`RollbackIsExact`).
3. `CancelIsTerminal` - a worker overwrites CANCELLED (`store.py:221`).
4. `DiscardedIsGone` - a discard that found a conflict leaves the candidate READY and
   its transaction ROLLBACK_CONFLICT; sent again, `last_own()` finds nothing to undo,
   `_rollback_applied` returns "" (`safe_write.py:2506`) and the answer is DISCARDED
   with `rollback_verified`, while the track is in Live. An edit is not needed for the
   conflict: a snapshot that missed the notes of the track finds it too.
5. `AssetsAreInDoubt` - recovery looks for `<pass>_<slot>` in the names of the
   files (`capture_journal_recovery.py:36`), and a batch's files are
   `capture_<pass>_slot<slot>.wav` and `scb_v1_..._<pass>.wav`: a batch that died
   while finalizing is closed as RECOVERED, "no assets", with its recordings on
   disk.

Seen while modelling, each visible in an action's guard or comment, without a run
of its own:

* An error reply does not say that nothing was changed. `main_thread_task` answers
  whatever a handler raised (Remote Script 1551-1554), and some raise after a change of
  Live: `start_playback_at_qn` (858-897), `_create_midi_track` (2223-2227),
  `_set_track_input_routing` (4234-4243), a bulk `set_device_parameters`. The callers
  take such a write for one that did not happen: its step is FAILED and not recorded,
  so what it did is not rolled back, and a transaction ROLLED_BACK may leave it in Live
  (`Spoil`, `LiveSpoils`).
* A cancel seen after PREPARED calls `mark_cancelled`, which TransactionManager
  does not have (`safe_write.py:2733`); the run ends EXECUTION_FAILED
  (`CancelOpen`).
* An unknown outcome of a later step is rolled back like a failure and, because
  the link is out of step, the rollback ends FAILED (`StepRaises`,
  `RollbackRaises`); `SAFE_WRITE_FOUNDATION_V2.md` says "Never treat it as
  `FAILED`".
* Reconciling a write in doubt reads on the same connection, which has missed a
  reply: with the real adapter that read never succeeds. The test that shows the
  reconciliation working uses a mock whose link survives.
* A step that took effect and whose look failed is never recorded, so a complete
  rollback leaves it in Live and recovery classifies the transaction VERIFIED
  (`safe_write.py:778`, `StepFails`).
* With no fresh copy in the view the bulk readers (`get_tracks_monitoring`,
  `get_tracks_sends`, `get_devices_for_tracks`, `read_routing_bulk`) answer from
  `last_track_infos`, which no mutation drops (`rpc.py:316`): possibly older than the
  caller's own acknowledged write.
* A direct `abort` does not refresh fingerprints, so two actions on one track
  conflict with each other.
* The adapter has no `execute_mutation_batch` method, so only test doubles take
  the compound transport; both are modelled (`compound \in BOOLEAN`).
* One host's failed restore leaves later hosts restored in their first step only:
  `compile_restore_hosts` marks only that step independent
  (`mutation_protocol.py:379`), while `ABLETON_MUTATION_PROTOCOL_V1.md` says
  "restore host groups are independent of each other" (`SkipStep`).
* The candidate loop of an output routing catches WriteInDoubt as a DawError and
  goes on, so the batch ends PARTIAL_FAILURE (`mutation_protocol.py:487`); the
  same document says a timeout after dispatch is IN_DOUBT (`OutputReturns`).
* A routing type Live does not find changes nothing and is answered as a success
  (Remote Script 4233), so a restore of nothing else is COMPLETE.
* A write in doubt raises, so its copy in the view is not withdrawn and goes on being
  served (`rpc.py:548`, `MutateRaises`); no property asks otherwise, since its caller
  does not know of a change.
* Freshness: `get_track_sends` answers from `last_track_infos` and marks the sends
  read (`rpc.py:532`); `get_track_info` carries no sends or taps, yet the whole
  bundle is marked fresh (`rpc.py:69`); `set_device_parameters` has no
  `track_index`, so no track generation moves (`freshness.py:73`); a command that
  raises never reaches `apply_mutation` (`rpc.py:548`); `bind` may write a stale
  topology over fresh rows (`rpc.py:57`, the case `SessionGuarantees` excepts).
* Capture: HOST_NOT_READY returns from inside the `try` with `settled` false, so
  the cleanup meant for BaseException stops the user's playback
  (`ReadBaselines`). A Ctrl-C after `settled` is set, or between a PREPARED record
  and `prepared.append`, leaves journals open for the recovery to close, although
  the contract says cancellation settles them (`SettledAtEnd` states what does
  hold). The single path records VERIFIED before it restores the host, so a
  crash in between leaves VERIFIED with the host routed (`CopyAssets`;
  `VerifiedIsBack` is about batches). An error of its baseline read leaves the
  journal PREPARED (`AppendPrepared`). A Ctrl-C inside the pass's `finally` leaves
  taps recording. Recovery looks at taps, not at routing, and at neither when Live
  is out of reach (`Recover`).
* Variations: a fingerprint has no name (`identities.py:164`), so the candidates of
  one request look alike, and `resolve_by_fingerprint` takes the only look-alike where
  the own track was edited or is gone (`identities.py:192-203`), or where the snapshot
  missed its notes: with two candidates and an edit of the first, a discard of the
  first deletes the second's track and answers DISCARDED with `rollback_verified`
  while the first is in Live (`Found`, `Resolve`). A rollback also names its track by
  the index of a snapshot, so two discards at once, or a discard and the user, may
  delete another track (`Strike`). Both are what `astray` marks and `ToldGone`
  excepts; `reject_all_variations` says it "never deletes arbitrary Live material"
  (`service.py:1757`). A KEEP of a candidate whose discard was undone in Live but not
  stored (the readback failed) looks at the VERIFIED of the old result and answers
  KEPT of nothing. When a later variation of a request fails, the shared connection is
  closed under the READY ones, which can then be neither kept nor discarded, although
  `MULTI_VARIATION_V1.md` says KEEP and DISCARD remain per variation (the case
  `ConnectionsOwned` excepts). Rows written in between `get_state` and `set_state` are
  lost. An exception after SafeWrite and outside `fail_preview` leaves the track in
  Live without a row (`Breaks`). IN_SYNC after a discard compares the disk with what
  the row carries, which was taken after the capture.

## 6. What is abstracted, and what is left out

* Values (volumes, notes, names, routings) are left out; whether Live accepts a
  command is a choice. A fingerprint is a set of features; a track the Core
  created is assumed to be recognised by its own identity.
* In SafeWrite one read stands for the RPCs of a snapshot, and it may miss the
  notes of any clip (`Snapshots`: `get_clip_notes` failures are swallowed). The
  executor never reconnects, hence `MaxConn = 1`. Readback and verification may
  find a mismatch or not, whatever Live holds. Users edit tracks but do not
  insert, delete or move them. What a write that raised left in Live is a created
  track, or a change no fingerprint shows.
* Two paths of a SafeWrite step's recording are one `RecordStep`: SINGLE_AUDIO may raise
  after its record was made (`safe_write.py:1749`), and `_track_named_or_index` (1843)
  may record another track of that name.
* MutationBatch: `FailedBeforeSentNothing` is about the sequential path; what a lost
  compound command is classified as is modelled, and no property speaks of it.
* Not modelled of SafeWrite: registry supersession and `stop_at`, the controlled
  MIDI pattern with its replay and replace, sample and preset loading, the
  prestate file, `rollback_last`.
* CapturePass: routing, monitor, recorder and playback are each one switch per track;
  sends (silent when parked), session clips, song position, loop and Device On are
  left out. The single path's baseline may be a copy of any age, so that its host "is
  back" means as that baseline says, and what recovery sees of the taps is a free
  choice, since it too may be remembered. A recorder turned off at the start of a pass
  is one write for all taps or none (`PassBegins`), although `set_taps_recording`
  skips those the inventory shows off one by one. Not modelled: the compound
  transport, the checks before the `try` (inventory, slots, resolution), staging files
  and WAV contents, journal write errors, a second Ctrl-C and one inside the cleanup,
  `ensure_capture_pool` and parking. `lost` marks behaviours whose Live is no longer
  followed: a write was refused or dropped, or the Core crashed. Partial assets do not
  occur: `capture_parallel_pass` returns all of them or raises.
* Freshness: which fields a command changes is read off `MUTATION_DOMAINS` itself
  (`Changed`): that the table names all a command changes is assumed, and what is
  checked is that the view makes use of it. `structure`, what `project_token` tells a
  set by, moves with restructuring commands only, although `state_tokens.py:141-207`
  also covers routing, monitoring, tempo, devices and clips; no property depends on
  it. TRANSPORT_STATE, `snapshot_reusable`, the statistics and the RPC trace, the
  evidence store and the run graph are left out.
* The link's read-only commands that the handler answers itself are one kind of
  call; `protocol_hello` on connect is such a read.
* StudioVariations: a candidate is one track (the three of a multi-element candidate
  are made and undone together); other tracks stand before the candidates', nothing
  the Studio does moves them and none looks like a candidate (a duplicate the user
  made of one would be a further look-alike to delete); the user edits or deletes a
  candidate's track but does not rename or move it; the snapshot at commit shows a
  candidate with its notes (one that missed them would record the fingerprint of an
  empty track); a clip's id is that of its own track, although it holds the track's
  index (Remote Script 3384) and a deletion by a stale id deletes nothing and is
  answered as a success; a save that is acknowledged and whose readback verifies is
  taken to have written the file; the persistence fields of a row and
  `project_persistence` are left out, as are deletions Live carries out after their
  call has returned and the order of `reject_all`.
* Not modelled of the Studio's jobs: SQLite errors, selections, versions, stems and
  workspaces.
* The bulk readers of the read view.
* Numeric signal processing, language model prompting, operating system dialogs,
  data schemas and the browser UI have no protocol state to model.

## 7. Plan

Done: the link, the batch, the safe write with the transaction it implements, the
studio's jobs and variations, freshness and the capture pass; every safety property
of their runs, the two refinements, the composition over the link and the end of
batches, runs, passes and workers are proved. Left, in order, each with what it is for:

1. `AgentWrite`: the conservative slices and `rollback_last` on the same
   TransactionManager. `_execute_write` sends again only after a read that the link
   never lets return (section 5), so its retry needs no model of its own.
2. Parking (`ensure_capture_pool`) and `reconcile_stale_taps` in front of
   CapturePass; promise: a host left routed by a crash is never taken as parked.
3. `StudioSelection`: `keep_candidate`, versions and human selection under
   concurrent requests.
4. `Identities`: attach and resolve as operators on bounded sessions, checked
   against "the only track that can be meant".
