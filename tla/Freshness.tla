------------------------------ MODULE Freshness ------------------------------
(***************************************************************************)
(* The read view of a Producer run: FreshnessClock, ProjectReadView and    *)
(* the wrappers install_read_view puts around the adapter, with the rows   *)
(* the adapter itself remembers.                                           *)
(*                                                                         *)
(* A value is the number of changes Live had made to it when it was read,  *)
(* so that an old copy is a smaller number. TRANSPORT_STATE and the global *)
(* counters of the track domains are left out: only snapshot_reusable reads*)
(* them, which nothing under src/copilot calls. When a cached row is given *)
(* to last_track_infos the code shares the object; the copy kept here can  *)
(* only be older.                                                          *)
(***************************************************************************)
EXTENDS Integers

CONSTANTS
    Track,      \* the indexes the run reads
    MaxChanges, \* bound: commands of the Core, edits of the user
    Sent,       \* bound: the commands sent, one of each kind of row of MUTATION_DOMAINS
    Edited      \* bound: the fields the user edits

\* The track domains; "parameters" are inside the devices of the same row.
Field == {"metadata", "monitoring", "routing", "sends", "inventory", "parameters"}
Domain == Field \cup {"host"}   \* HOST_STATE_DOMAINS
None == -1

VARIABLES
    live,      \* Live: the changes made to each field of the track at an index
    structure, \* Live: the changes of the project's identity or project token
    changes,   \* counts towards MaxChanges
    topoGen, topoRead, topologyDirty, \* FreshnessClock: PROJECT_TOPOLOGY
    trackGen, readGen,                \* FreshnessClock: the track domains
    token,     \* FreshnessClock.project_identity and project_token
    tracks,    \* ProjectReadView.tracks
    infos,     \* the adapter's last_track_infos
    topology,  \* the adapter's last_topology
    floor,     \* observer: the newest version the caller knows of, by a read or its own write
    bypassed   \* observer: the last snapshot's rows are not what the view holds

liveVars == <<live, structure, changes>>
clockVars == <<topoGen, topoRead, topologyDirty, trackGen, readGen, token>>
cacheVars == <<tracks, infos, topology>>
vars == <<liveVars, clockVars, cacheVars, floor, bypassed>>

Version == Nat \cup {None}
Row == [Field -> Version]
NoRow == [f \in Field |-> None]
Absent == [t \in Track |-> NoRow]

TypeOK ==
    /\ live \in [Track -> [Field -> Nat]] /\ structure \in Nat /\ changes \in 0..MaxChanges
    /\ topoGen \in Nat /\ topoRead \in Version /\ topologyDirty \in BOOLEAN
    /\ trackGen \in [Track -> [Domain -> Nat]]
    /\ readGen \in [Track -> [Domain -> Version]]
    /\ token \in Version
    /\ tracks \in [Track -> Row] /\ infos \in [Track -> Row] /\ topology \in [Track -> Row]
    /\ floor \in [Track -> [Field -> Nat]] /\ bypassed \in BOOLEAN

Init ==
    /\ live = [t \in Track |-> [f \in Field |-> 0]] /\ structure = 0 /\ changes = 0
    /\ topoGen = 0 /\ topoRead = None /\ topologyDirty = TRUE
    /\ trackGen = [t \in Track |-> [d \in Domain |-> 0]]
    /\ readGen = [t \in Track |-> [d \in Domain |-> None]]
    /\ token = None
    /\ tracks = Absent /\ infos = Absent /\ topology = Absent
    /\ floor = live /\ bypassed = FALSE

-----------------------------------------------------------------------------
(* The view: what it serves without asking Live.                           *)

IsFresh(t, d) == readGen[t][d] # None /\ readGen[t][d] = trackGen[t][d]
AllFresh(t) == \A f \in Field : IsFresh(t, f)
Has(t, f) == tracks[t][f] # None

ServesInfo(t) == tracks[t] # NoRow /\ AllFresh(t)
ServesHostState(t) == ServesInfo(t) /\ IsFresh(t, "host")
ServesField(t, f) == Has(t, f) /\ IsFresh(t, f)
ServesParameters(t) == ServesField(t, "parameters") /\ ServesField(t, "inventory")

\* Some read of the view returns its copy of f. Metadata come with a whole row only.
Serves(t, f) ==
    /\ Has(t, f)
    /\ \/ ServesInfo(t)
       \/ f \in {"monitoring", "routing", "sends", "inventory"} /\ ServesField(t, f)
       \/ f = "parameters" /\ ServesParameters(t)

-----------------------------------------------------------------------------
(* What one mutation changes in Live, and what the clock makes of it.      *)

\* MUTATION_DOMAINS without the transport: the domains and whether they are the track's.
Scoped == [
    set_track_input_routing |-> {"routing", "host"},
    set_track_output_routing |-> {"routing", "host"},
    set_track_monitoring |-> {"monitoring", "host"},
    set_send_level |-> {"sends", "host"},
    set_device_parameter |-> {"parameters", "host"},
    set_device_parameters |-> {"parameters", "host"},
    set_track_mute |-> {"metadata"},
    set_track_name |-> {"metadata", "topology"},
    load_instrument_or_effect |-> {"inventory", "parameters", "topology"},
    delete_device |-> {"inventory", "parameters", "topology"},
    move_device |-> {"inventory", "topology"}]

Unscoped == [
    execute_mutation_batch |-> {"routing", "monitoring", "sends", "parameters", "host"},
    create_audio_track |-> {"topology", "metadata", "inventory", "routing"},
    create_midi_track |-> {"topology", "metadata", "inventory"},
    delete_track |-> {"topology", "metadata"},
    create_group_track |-> {"topology"},
    set_tempo |-> {"topology"}]

Restructures == {"create_audio_track", "create_midi_track", "delete_track", "create_group_track"}
\* A command the table does not name: it changes some field of its track.
Other == "set_track_panning"
Command == DOMAIN Scoped \cup DOMAIN Unscoped \cup {Other}

ASSUME FreshnessAssumption == MaxChanges \in Nat /\ Sent \subseteq Command /\ Edited \subseteq Field

\* What c, sent for track t, may have changed: a new or a deleted track moves the others.
Changed(c, t) ==
    IF c \in Restructures THEN Track \X Field
    ELSE IF c = "execute_mutation_batch" THEN Track \X (Unscoped[c] \cap Field)
    ELSE IF c = "set_tempo" THEN {}
    ELSE IF c = Other THEN {<<t, "metadata">>}
    ELSE {t} \X (Field \cap Scoped[c])

Bumped(S) == [t \in Track |-> [f \in Field |-> IF <<t, f>> \in S THEN live[t][f] + 1 ELSE live[t][f]]]

Domains(c) ==
    IF c \in DOMAIN Scoped THEN Scoped[c]
    ELSE IF c \in DOMAIN Unscoped THEN Unscoped[c] ELSE {"host"}

\* set_device_parameters names its tracks inside its items: params has no track_index.
HasTrackIndex(c) == c \notin DOMAIN Unscoped \cup {"set_device_parameters"}

\* Mutant: a counter that was dropped is missing instead of 0.
ApplyMutationNoDefault(c, t) ==
    /\ trackGen' = [u \in Track |-> [d \in Domain |-> IF d \in Domains(c) THEN None ELSE trackGen[u][d]]]
    /\ UNCHANGED <<readGen, topoGen, topoRead, topologyDirty, token>>

\* Mutant: the counters are dropped and what was read of them is kept.
ApplyMutationKeepsReads(c, t) ==
    /\ trackGen' = [u \in Track |-> [d \in Domain |->
                        IF d \notin Domains(c) THEN trackGen[u][d]
                        ELSE IF c \in DOMAIN Unscoped THEN 0
                        ELSE IF u = t THEN trackGen[u][d] + 1 ELSE trackGen[u][d]]]
    /\ topologyDirty' = (topologyDirty \/ "topology" \in Domains(c))
    /\ UNCHANGED <<readGen, topoGen, topoRead, token>>

\* FreshnessClock.apply_mutation.
ApplyMutation(c, t) ==
    LET names == "topology" \in Domains(c)
    IN  /\ trackGen' =
            IF c \in DOMAIN Unscoped
                THEN [u \in Track |-> [d \in Domain |-> IF d \in Domains(c) THEN 0 ELSE trackGen[u][d]]]
            ELSE IF HasTrackIndex(c)
                THEN [trackGen EXCEPT ![t] = [d \in Domain |->
                        IF d \in Domains(c) THEN trackGen[t][d] + 1 ELSE trackGen[t][d]]]
            ELSE trackGen
        /\ readGen' =
            IF c \in DOMAIN Unscoped
                THEN [u \in Track |-> [d \in Domain |-> IF d \in Domains(c) THEN None ELSE readGen[u][d]]]
            ELSE readGen
        /\ topoGen' = IF names THEN topoGen + 1 ELSE topoGen
        /\ topoRead' = IF names THEN None ELSE topoRead
        /\ topologyDirty' = (topologyDirty \/ names \/ c = Other)
        /\ UNCHANGED token

\* Mutant: the rows outlive a change of the topology.
SyncKeepsRows == tracks' = tracks

\* ProjectReadView.sync_after_mutation, after the clock's step.
SyncAfterMutation ==
    tracks' = IF topologyDirty' \/ topoRead' = None \/ topoRead' # topoGen' THEN Absent ELSE tracks

Counted == changes < MaxChanges /\ changes' = changes + 1

\* A side-effect command that returns: Live made the change, and the caller knows.
Mutate(c, t) ==
    /\ Counted
    /\ live' = Bumped(Changed(c, t))
    /\ structure' = IF c \in Restructures THEN structure + 1 ELSE structure
    /\ ApplyMutation(c, t) /\ SyncAfterMutation
    /\ floor' = [u \in Track |-> [f \in Field |->
                    IF <<u, f>> \in Changed(c, t) THEN live'[u][f] ELSE floor[u][f]]]
    /\ UNCHANGED <<infos, topology, bypassed>>

\* The command raises after Live made the change, as a write in doubt does: the wrapper
\* goes no further. One that raises and changed nothing is not a step.
MutateRaises(c, t) ==
    /\ Counted
    /\ live' = Bumped(Changed(c, t))
    /\ structure' = IF c \in Restructures THEN structure + 1 ELSE structure
    /\ UNCHANGED <<clockVars, cacheVars, floor, bypassed>>

\* The user changes a track, or opens another project.
UserEdits(t, f) ==
    /\ Counted
    /\ live' = Bumped({<<t, f>>})
    /\ UNCHANGED <<structure, clockVars, cacheVars, floor, bypassed>>

UserOpensProject ==
    /\ Counted
    /\ live' = Bumped(Track \X Field) /\ structure' = structure + 1
    /\ UNCHANGED <<clockVars, cacheVars, floor, bypassed>>

-----------------------------------------------------------------------------
(* The reads.                                                              *)

\* get_track_info has neither sends nor taps; get_tracks_info and the topology have.
InfoRow(t) == [live[t] EXCEPT !["sends"] = None]
Merged(old, new) == [f \in Field |-> IF new[f] # None THEN new[f] ELSE old[f]]

\* ingest_track: the copy is updated with the row, and the whole bundle is marked as read.
Ingest(T, row) ==
    /\ tracks' = [t \in Track |-> IF t \in T THEN Merged(tracks[t], row[t]) ELSE tracks[t]]
    /\ readGen' = [t \in Track |-> IF t \in T THEN trackGen[t] ELSE readGen[t]]
    /\ infos' = [t \in Track |-> IF t \in T THEN row[t] ELSE infos[t]]

\* The caller saw these values.
Saw(T, row) ==
    floor' = [t \in Track |-> [f \in Field |->
                IF t \in T /\ row[t][f] # None THEN row[t][f] ELSE floor[t][f]]]

GetTrackInfo(t) ==
    /\ IF ServesInfo(t)
           THEN infos' = [infos EXCEPT ![t] = tracks[t]] /\ UNCHANGED <<tracks, readGen, floor>>
           ELSE LET row == [u \in Track |-> InfoRow(u)] IN Ingest({t}, row) /\ Saw({t}, row)
    /\ UNCHANGED <<liveVars, topoGen, topoRead, topologyDirty, trackGen, token, topology, bypassed>>

\* get_tracks_info, and read_capture_hosts_state, which fetches through it: asked for a
\* fresh row, or with a track the view does not serve.
GetTracksInfo(T) ==
    /\ Ingest(T, live) /\ Saw(T, live)
    /\ UNCHANGED <<liveVars, topoGen, topoRead, topologyDirty, trackGen, token, topology, bypassed>>

MarkRead(t, d) == readGen' = [readGen EXCEPT ![t][d] = trackGen[t][d]]
\* Mutant: the domain is marked as read, and the row keeps the old value.
KeepOld(t, f, v) == tracks' = tracks
Keep(t, f, v) == tracks' = IF tracks[t] # NoRow THEN [tracks EXCEPT ![t][f] = v] ELSE tracks

GetTrackMonitoring(t) ==
    /\ ~ServesField(t, "monitoring")
    /\ MarkRead(t, "monitoring") /\ Keep(t, "monitoring", live[t]["monitoring"])
    /\ floor' = [floor EXCEPT ![t]["monitoring"] = live[t]["monitoring"]]
    /\ UNCHANGED <<liveVars, topoGen, topoRead, topologyDirty, trackGen, token, infos, topology, bypassed>>

\* get_track_input_routing, get_track_output_routing, get_device_parameters: asked
\* of Live when the view has no fresh copy, and not kept.
GetUnkept(t, f) ==
    /\ f \in {"routing", "parameters"} /\ ~Serves(t, f)
    /\ floor' = [floor EXCEPT ![t][f] = live[t][f]]
    /\ UNCHANGED <<liveVars, clockVars, cacheVars, bypassed>>

\* The adapter answers get_track_sends from last_track_infos when the row has sends.
AdapterSends(t) == IF infos[t]["sends"] # None THEN infos[t]["sends"] ELSE live[t]["sends"]

GetTrackSends(t) ==
    /\ ~ServesField(t, "sends")
    /\ MarkRead(t, "sends") /\ Keep(t, "sends", AdapterSends(t))
    /\ floor' = IF infos[t]["sends"] = None
                    THEN [floor EXCEPT ![t]["sends"] = live[t]["sends"]] ELSE floor
    /\ UNCHANGED <<liveVars, topoGen, topoRead, topologyDirty, trackGen, token, infos, topology, bypassed>>

-----------------------------------------------------------------------------
(* AbletonTcpAdapter.snapshot, alone or followed by ProjectReadView.bind.  *)

\* How the snapshot reads: get_capture_topology, else get_tracks_info, else a
\* get_track_info for each track, which the wrapper does not ingest.
Source == {"topology", "tracks_info", "serial"}

SnapshotRows(source) == IF source = "serial" THEN [t \in Track |-> InfoRow(t)] ELSE live

\* The clock after the snapshot's own reads: the counters do not change.
Snapshot(source) ==
    LET rows == SnapshotRows(source)
    IN  /\ infos' = rows /\ Saw(Track, rows)
        /\ topology' = IF source = "topology" THEN live ELSE topology
        /\ IF source = "serial" THEN UNCHANGED <<tracks, readGen>>
           ELSE /\ tracks' = [t \in Track |-> Merged(tracks[t], rows[t])]
                /\ readGen' = trackGen
        /\ IF source = "topology"
               THEN topoRead' = topoGen /\ topologyDirty' = FALSE
               ELSE UNCHANGED <<topoRead, topologyDirty>>
        /\ bypassed' = (source = "serial")
        /\ UNCHANGED <<liveVars, topoGen, trackGen, token>>

\* bind_project: another identity or token invalidates everything, then all is marked
\* as read. The rows are last_track_infos with last_topology written over them.
SnapshotAndBind(source) ==
    LET rows == SnapshotRows(source)
        mismatch == token # None /\ token # structure
    IN  /\ infos' = rows /\ Saw(Track, rows)
        /\ topology' = IF source = "topology" THEN live ELSE topology
        /\ tracks' = [t \in Track |-> IF topology'[t] # NoRow THEN topology'[t] ELSE rows[t]]
        /\ topoGen' = IF mismatch THEN topoGen + 1 ELSE topoGen
        /\ trackGen' = IF mismatch THEN [t \in Track |-> [d \in Domain |-> 0]] ELSE trackGen
        /\ topoRead' = topoGen' /\ readGen' = trackGen' /\ topologyDirty' = FALSE
        /\ token' = structure
        /\ bypassed' = (source # "topology" /\ topology # Absent)
        /\ UNCHANGED liveVars

Next ==
    \/ \E c \in Sent, t \in Track : Mutate(c, t) \/ MutateRaises(c, t)
    \/ \E t \in Track, f \in Edited : UserEdits(t, f)
    \/ \E t \in Track, f \in Field : GetUnkept(t, f)
    \/ UserOpensProject
    \/ \E t \in Track : GetTrackInfo(t) \/ GetTrackMonitoring(t) \/ GetTrackSends(t)
    \/ \E T \in SUBSET Track \ {{}} : GetTracksInfo(T)
    \/ \E source \in Source : Snapshot(source) \/ SnapshotAndBind(source)

Spec == Init /\ [][Next]_vars

-----------------------------------------------------------------------------
(* Properties.                                                             *)

Served(t, f) == IF Serves(t, f) THEN tracks[t][f] ELSE None

\* A generation that was read is never ahead of the current one, although a mutation
\* of no particular track and an invalidation start the track counters again at 0:
\* counting up again never makes an old read look fresh.
ReadNotAhead ==
    /\ topoRead <= topoGen
    /\ \A t \in Track, d \in Domain : readGen[t][d] <= trackGen[t][d]

\* Read your writes and monotonic reads: of the fields every reader of the Core
\* decides by, the view never serves a copy older than a value its caller already
\* saw or wrote itself, whichever mutations, other tracks' reads and failed commands
\* came between.
\* The exceptions are a snapshot taken track by track, which the view does not see, and
\* a view bound, after a snapshot without topology, to the topology of an earlier one.
SessionGuarantees ==
    \A t \in Track, f \in {"metadata", "monitoring", "routing", "inventory"} :
        Serves(t, f) => bypassed \/ tracks[t][f] >= floor[t][f]

\* Of these fields, a copy the view stopped serving does not come back: what it starts
\* to serve is what Live shows at that moment, unless the snapshot was taken past it.
\* Marking a domain as read without taking its value breaks it. Two fields do come back
\* in the code: sends, which are read again from the row the adapter remembers, and
\* metadata, withheld with the rest of a row and served again with it. A copy that never
\* stopped being served, as after a write in doubt, is not what this is about.
NoRevival ==
    [][\A t \in Track, f \in {"monitoring", "routing", "inventory", "parameters"} :
          bypassed' \/ Served(t, f)' \in {None, Served(t, f), live[t][f]}]_vars

=============================================================================
