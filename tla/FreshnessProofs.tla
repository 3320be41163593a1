-------------------------- MODULE FreshnessProofs --------------------------
(***************************************************************************)
(* What the read view promises its caller, for every set of tracks, every  *)
(* number of mutations and reads and every set of commands sent.           *)
(*                                                                         *)
(* The invariant says why: a row of a fresh domain is at least as new as   *)
(* what the caller knows, because each acknowledged mutation moves the     *)
(* generation of what it changed (TableCovers), or drops the rows, and a   *)
(* generation once passed is never met again (ReadNotAhead).               *)
(***************************************************************************)
EXTENDS Freshness, TLAPS

Known == {"metadata", "monitoring", "routing", "inventory"}

FloorIsPast == \A t \in Track, f \in Field : floor[t][f] <= live[t][f]

FreshIsKnown ==
    \A t \in Track, f \in Known :
        Has(t, f) /\ IsFresh(t, f) => bypassed \/ floor[t][f] <= tracks[t][f]

ViewInv == TypeOK /\ ReadNotAhead /\ FloorIsPast /\ FreshIsKnown

USE FreshnessAssumption

LEMMA KnownIsField == Known \subseteq Field /\ Field \subseteq Domain
  BY DEF Known, Field, Domain

\* A name is scoped, unscoped or neither.
LEMMA Names ==
    /\ DOMAIN Scoped \cap DOMAIN Unscoped = {}
    /\ Other \notin DOMAIN Scoped /\ Other \notin DOMAIN Unscoped
  BY DEF Scoped, Unscoped, Other

\* Whatever a mutation changes among the known fields, the clock counts up for its
\* track, forgets the reads of it, or the view drops its rows.
LEMMA TableCovers ==
    ASSUME NEW c \in Command, NEW t \in Track, NEW u \in Track, NEW f \in Known,
           <<u, f>> \in Changed(c, t)
    PROVE  \/ "topology" \in Domains(c) \/ c = Other
           \/ c \in DOMAIN Unscoped /\ f \in Domains(c)
           \/ c \notin DOMAIN Unscoped /\ HasTrackIndex(c) /\ u = t /\ f \in Domains(c)
<1>1. CASE c \in DOMAIN Unscoped
  <2>1. c \in {"execute_mutation_batch", "create_audio_track", "create_midi_track",
               "delete_track", "create_group_track", "set_tempo"}
    BY <1>1 DEF Unscoped
  <2>2. c \notin DOMAIN Scoped
    BY <1>1, Names
  <2>3. Domains(c) = Unscoped[c]
    BY <1>1, <2>2 DEF Domains
  <2>4. CASE c = "execute_mutation_batch"
    BY <1>1, <2>3, <2>4 DEF Changed, Restructures
  <2>5. CASE c # "execute_mutation_batch"
    BY <2>1, <2>3, <2>5 DEF Unscoped
  <2> QED BY <2>4, <2>5
<1>2. CASE c \in DOMAIN Scoped
  <2>1. c \notin DOMAIN Unscoped /\ c # Other
    BY <1>2, Names
  <2>2. c \notin Restructures /\ c # "execute_mutation_batch" /\ c # "set_tempo"
    BY <2>1 DEF Unscoped, Restructures
  <2>3. Domains(c) = Scoped[c] /\ u = t /\ f \in Scoped[c]
    BY <1>2, <2>1, <2>2 DEF Changed, Domains
  <2>4. c # "set_device_parameters"
    BY <2>3 DEF Scoped, Known
  <2> QED BY <2>1, <2>3, <2>4 DEF HasTrackIndex
<1>3. CASE c = Other
  BY <1>3
<1> QED BY <1>1, <1>2, <1>3 DEF Command

-----------------------------------------------------------------------------
(* Types.                                                                  *)

LEMMA BumpedType ==
    ASSUME live \in [Track -> [Field -> Nat]], NEW S
    PROVE  /\ Bumped(S) \in [Track -> [Field -> Nat]]
           /\ \A t \in Track, f \in Field : live[t][f] <= Bumped(S)[t][f]
           /\ \A t \in Track, f \in Field : <<t, f>> \notin S => Bumped(S)[t][f] = live[t][f]
  BY DEF Bumped

LEMMA LiveIsRow == ASSUME live \in [Track -> [Field -> Nat]] PROVE live \in [Track -> Row]
  BY DEF Row, Version

LEMMA NoRowIsRow == NoRow \in Row /\ Absent \in [Track -> Row]
  BY DEF NoRow, Absent, Row, Version

LEMMA InfoRowType ==
    ASSUME live \in [Track -> [Field -> Nat]], NEW t \in Track
    PROVE  /\ InfoRow(t) \in Row
           /\ \A f \in Field : InfoRow(t)[f] = None \/ InfoRow(t)[f] = live[t][f]
           /\ \A f \in Known : InfoRow(t)[f] = live[t][f]
  BY KnownIsField DEF InfoRow, Row, Version, Known

LEMMA MergedType == ASSUME NEW old \in Row, NEW new \in Row PROVE Merged(old, new) \in Row
  BY DEF Merged, Row

LEMMA SnapshotRowsType ==
    ASSUME live \in [Track -> [Field -> Nat]], NEW source
    PROVE  /\ SnapshotRows(source) \in [Track -> Row]
           /\ \A t \in Track, f \in Field :
                 SnapshotRows(source)[t][f] = None \/ SnapshotRows(source)[t][f] = live[t][f]
           /\ \A t \in Track, f \in Known : SnapshotRows(source)[t][f] = live[t][f]
  BY InfoRowType, LiveIsRow, KnownIsField DEF SnapshotRows

LEMMA SawType ==
    ASSUME TypeOK, NEW T, NEW row \in [Track -> Row], Saw(T, row)
    PROVE  floor' \in [Track -> [Field -> Nat]]
  BY DEF Saw, TypeOK, Row, Version

LEMMA IngestType ==
    ASSUME TypeOK, NEW T, NEW row \in [Track -> Row], Ingest(T, row)
    PROVE  /\ tracks' \in [Track -> Row] /\ infos' \in [Track -> Row]
           /\ readGen' \in [Track -> [Domain -> Version]]
  BY MergedType DEF Ingest, TypeOK, Version

LEMMA ApplyMutationType ==
    ASSUME TypeOK, NEW c, NEW t \in Track, ApplyMutation(c, t)
    PROVE  /\ topoGen' \in Nat /\ topoRead' \in Version /\ topologyDirty' \in BOOLEAN
           /\ trackGen' \in [Track -> [Domain -> Nat]]
           /\ readGen' \in [Track -> [Domain -> Version]]
           /\ token' \in Version
<1>1. topoGen' \in Nat /\ topoRead' \in Version /\ token' \in Version
  BY DEF TypeOK, ApplyMutation, Version
<1>2. topologyDirty' \in BOOLEAN
  BY Zenon DEF TypeOK, ApplyMutation
<1>3. readGen' \in [Track -> [Domain -> Version]]
  BY DEF TypeOK, ApplyMutation, Version
<1>4. trackGen' \in [Track -> [Domain -> Nat]]
  BY DEF TypeOK, ApplyMutation
<1> QED BY <1>1, <1>2, <1>3, <1>4

LEMMA TypeInit == Init => TypeOK
<1> SUFFICES ASSUME Init PROVE TypeOK
  OBVIOUS
<1>1. /\ live \in [Track -> [Field -> Nat]] /\ structure \in Nat /\ changes \in 0..MaxChanges
      /\ floor \in [Track -> [Field -> Nat]]
  BY FreshnessAssumption DEF Init
<1>2. /\ topoGen \in Nat /\ topoRead \in Version /\ token \in Version
      /\ topologyDirty \in BOOLEAN /\ bypassed \in BOOLEAN
  BY DEF Init, Version
<1>3. /\ trackGen \in [Track -> [Domain -> Nat]]
      /\ readGen \in [Track -> [Domain -> Version]]
  BY DEF Init, Version
<1>4. tracks \in [Track -> Row] /\ infos \in [Track -> Row] /\ topology \in [Track -> Row]
  BY NoRowIsRow DEF Init
<1> QED BY <1>1, <1>2, <1>3, <1>4 DEF TypeOK

LEMMA TypeStep == ASSUME TypeOK, [Next]_vars PROVE TypeOK'
<1>1. ASSUME NEW c \in Sent, NEW t \in Track, Mutate(c, t) PROVE TypeOK'
  <2>1. /\ live' \in [Track -> [Field -> Nat]] /\ structure' \in Nat
        /\ changes' \in 0..MaxChanges
    BY <1>1, BumpedType DEF Mutate, TypeOK, Counted
  <2>2. tracks' \in [Track -> Row]
    BY <1>1, NoRowIsRow DEF Mutate, SyncAfterMutation, TypeOK
  <2>3. floor' \in [Track -> [Field -> Nat]]
    BY <1>1, <2>1 DEF Mutate, TypeOK
  <2>4. ApplyMutation(c, t) /\ UNCHANGED <<infos, topology, bypassed>>
    BY <1>1 DEF Mutate
  <2> QED BY <2>1, <2>2, <2>3, <2>4, ApplyMutationType DEF TypeOK
<1>2. ASSUME NEW c \in Sent, NEW t \in Track, MutateRaises(c, t) PROVE TypeOK'
  BY <1>2, BumpedType DEF MutateRaises, TypeOK, Counted, clockVars, cacheVars
<1>3. ASSUME NEW t \in Track, NEW f \in Edited, UserEdits(t, f) PROVE TypeOK'
  BY <1>3, BumpedType DEF UserEdits, TypeOK, Counted, clockVars, cacheVars
<1>4. ASSUME NEW t \in Track, NEW f \in Field, GetUnkept(t, f) PROVE TypeOK'
  BY <1>4 DEF GetUnkept, TypeOK, liveVars, clockVars, cacheVars
<1>5. ASSUME UserOpensProject PROVE TypeOK'
  BY <1>5, BumpedType DEF UserOpensProject, TypeOK, Counted, clockVars, cacheVars
<1>6. ASSUME NEW t \in Track, GetTrackInfo(t) PROVE TypeOK'
  <2>1. CASE ServesInfo(t)
    BY <1>6, <2>1 DEF GetTrackInfo, TypeOK, liveVars
  <2>2. CASE ~ServesInfo(t)
    <3> DEFINE row == [u \in Track |-> InfoRow(u)]
    <3>1. row \in [Track -> Row]
      BY InfoRowType DEF TypeOK
    <3>2. Ingest({t}, row) /\ Saw({t}, row)
      BY <1>6, <2>2 DEF GetTrackInfo
    <3> HIDE DEF row
    <3>3. floor' \in [Track -> [Field -> Nat]]
      BY <3>1, <3>2, SawType
    <3>4. /\ tracks' \in [Track -> Row] /\ infos' \in [Track -> Row]
          /\ readGen' \in [Track -> [Domain -> Version]]
      BY <3>1, <3>2, IngestType
    <3> QED BY <1>6, <3>3, <3>4 DEF GetTrackInfo, TypeOK, liveVars
  <2> QED BY <2>1, <2>2
<1>7. ASSUME NEW T \in SUBSET Track, GetTracksInfo(T) PROVE TypeOK'
  <2>1. live \in [Track -> Row]
    BY LiveIsRow DEF TypeOK
  <2>2. Ingest(T, live) /\ Saw(T, live)
    BY <1>7 DEF GetTracksInfo
  <2>3. floor' \in [Track -> [Field -> Nat]]
    BY <2>1, <2>2, SawType
  <2>4. /\ tracks' \in [Track -> Row] /\ infos' \in [Track -> Row]
        /\ readGen' \in [Track -> [Domain -> Version]]
    BY <2>1, <2>2, IngestType
  <2> QED BY <1>7, <2>3, <2>4 DEF GetTracksInfo, TypeOK, liveVars
<1>8. ASSUME NEW t \in Track, GetTrackMonitoring(t) PROVE TypeOK'
  <2>1. readGen' \in [Track -> [Domain -> Version]]
    BY <1>8 DEF GetTrackMonitoring, MarkRead, TypeOK, Version, Domain, Field
  <2>2. tracks' \in [Track -> Row] /\ floor' \in [Track -> [Field -> Nat]]
    BY <1>8 DEF GetTrackMonitoring, Keep, TypeOK, Row, Version, Field
  <2> QED BY <1>8, <2>1, <2>2 DEF GetTrackMonitoring, TypeOK, liveVars
<1>9. ASSUME NEW t \in Track, GetTrackSends(t) PROVE TypeOK'
  <2>1. readGen' \in [Track -> [Domain -> Version]]
    BY <1>9 DEF GetTrackSends, MarkRead, TypeOK, Version, Domain, Field
  <2>2. tracks' \in [Track -> Row]
    BY <1>9 DEF GetTrackSends, Keep, AdapterSends, TypeOK, Row, Version, Field
  <2>3. floor' \in [Track -> [Field -> Nat]]
    BY <1>9 DEF GetTrackSends, TypeOK, Field
  <2> QED BY <1>9, <2>1, <2>2, <2>3 DEF GetTrackSends, TypeOK, liveVars
<1>10. ASSUME NEW source \in Source, Snapshot(source) PROVE TypeOK'
  <2>1. SnapshotRows(source) \in [Track -> Row] /\ live \in [Track -> Row]
    BY SnapshotRowsType, LiveIsRow DEF TypeOK
  <2>2. floor' \in [Track -> [Field -> Nat]]
    BY <1>10, <2>1, SawType DEF Snapshot
  <2>3. /\ tracks' \in [Track -> Row] /\ infos' \in [Track -> Row]
        /\ topology' \in [Track -> Row] /\ readGen' \in [Track -> [Domain -> Version]]
    BY <1>10, <2>1, MergedType DEF Snapshot, TypeOK, Version
  <2>4. topoRead' \in Version /\ topologyDirty' \in BOOLEAN /\ bypassed' \in BOOLEAN
    BY <1>10 DEF Snapshot, TypeOK, Version
  <2> QED BY <1>10, <2>2, <2>3, <2>4 DEF Snapshot, TypeOK, liveVars
<1>11. ASSUME NEW source \in Source, SnapshotAndBind(source) PROVE TypeOK'
  <2>1. SnapshotRows(source) \in [Track -> Row] /\ live \in [Track -> Row]
    BY SnapshotRowsType, LiveIsRow DEF TypeOK
  <2>2. floor' \in [Track -> [Field -> Nat]]
    BY <1>11, <2>1, SawType DEF SnapshotAndBind
  <2>3. infos' \in [Track -> Row] /\ topology' \in [Track -> Row]
    BY <1>11, <2>1 DEF SnapshotAndBind, TypeOK
  <2>4. tracks' \in [Track -> Row]
    BY <1>11, <2>1, <2>3 DEF SnapshotAndBind
  <2>5. /\ topoGen' \in Nat /\ topoRead' \in Version /\ token' \in Version
        /\ trackGen' \in [Track -> [Domain -> Nat]]
        /\ readGen' \in [Track -> [Domain -> Version]]
    BY <1>11 DEF SnapshotAndBind, TypeOK, Version
  <2>6. topologyDirty' \in BOOLEAN /\ bypassed' \in BOOLEAN
    BY <1>11 DEF SnapshotAndBind
  <2> QED BY <1>11, <2>2, <2>3, <2>4, <2>5, <2>6 DEF SnapshotAndBind, TypeOK, liveVars
<1>12. CASE UNCHANGED vars
  BY <1>12 DEF vars, TypeOK, liveVars, clockVars, cacheVars
<1> QED BY <1>1, <1>2, <1>3, <1>4, <1>5, <1>6, <1>7, <1>8, <1>9, <1>10, <1>11, <1>12 DEF Next

\* The clock, the rows and what is remembered keep their types whatever is sent and read.
THEOREM FreshnessTypeOK == Spec => []TypeOK
<1>1. Init => TypeOK BY TypeInit
<1>2. TypeOK /\ [Next]_vars => TypeOK' BY TypeStep
<1> QED BY <1>1, <1>2, PTL DEF Spec

-----------------------------------------------------------------------------
(* Generations.                                                            *)

LEMMA GenInit == Init => ReadNotAhead
  BY DEF Init, ReadNotAhead, None

LEMMA GenStep ==
    ASSUME TypeOK, ReadNotAhead, [Next]_vars
    PROVE  ReadNotAhead'
<1>1. ASSUME NEW c \in Sent, NEW t \in Track, Mutate(c, t) PROVE ReadNotAhead'
  <2>1. ApplyMutation(c, t)
    BY <1>1 DEF Mutate
  <2>2. topoRead' <= topoGen'
    BY <2>1 DEF ApplyMutation, ReadNotAhead, TypeOK, Version, None
  <2>3. ASSUME NEW u \in Track, NEW d \in Domain PROVE readGen'[u][d] <= trackGen'[u][d]
    <3>1. /\ trackGen[u][d] \in Nat /\ readGen[u][d] \in Nat \cup {-1}
          /\ readGen[u][d] <= trackGen[u][d]
      BY DEF TypeOK, ReadNotAhead, Version, None
    <3>2. \/ readGen'[u][d] = readGen[u][d] /\ trackGen'[u][d] \in {trackGen[u][d], trackGen[u][d] + 1}
          \/ readGen'[u][d] = -1 /\ trackGen'[u][d] = 0
      BY <2>1 DEF ApplyMutation, TypeOK, None
    <3> QED BY <3>1, <3>2
  <2> QED BY <2>2, <2>3 DEF ReadNotAhead
<1>2. ASSUME NEW c \in Sent, NEW t \in Track, MutateRaises(c, t) PROVE ReadNotAhead'
  BY <1>2 DEF MutateRaises, ReadNotAhead, clockVars
<1>3. ASSUME NEW t \in Track, NEW f \in Edited, UserEdits(t, f) PROVE ReadNotAhead'
  BY <1>3 DEF UserEdits, ReadNotAhead, clockVars
<1>4. ASSUME NEW t \in Track, NEW f \in Field, GetUnkept(t, f) PROVE ReadNotAhead'
  BY <1>4 DEF GetUnkept, ReadNotAhead, clockVars
<1>5. ASSUME UserOpensProject PROVE ReadNotAhead'
  BY <1>5 DEF UserOpensProject, ReadNotAhead, clockVars
<1>6. ASSUME NEW t \in Track, GetTrackInfo(t) PROVE ReadNotAhead'
  BY <1>6 DEF GetTrackInfo, Ingest, ReadNotAhead, TypeOK
<1>7. ASSUME NEW T \in SUBSET Track, GetTracksInfo(T) PROVE ReadNotAhead'
  BY <1>7 DEF GetTracksInfo, Ingest, ReadNotAhead, TypeOK
<1>8. ASSUME NEW t \in Track, GetTrackMonitoring(t) PROVE ReadNotAhead'
  BY <1>8 DEF GetTrackMonitoring, MarkRead, ReadNotAhead, TypeOK
<1>9. ASSUME NEW t \in Track, GetTrackSends(t) PROVE ReadNotAhead'
  BY <1>9 DEF GetTrackSends, MarkRead, ReadNotAhead, TypeOK
<1>10. ASSUME NEW source \in Source, Snapshot(source) PROVE ReadNotAhead'
  BY <1>10 DEF Snapshot, ReadNotAhead, TypeOK
<1>11. ASSUME NEW source \in Source, SnapshotAndBind(source) PROVE ReadNotAhead'
  BY <1>11 DEF SnapshotAndBind, ReadNotAhead, TypeOK
<1>12. CASE UNCHANGED vars
  BY <1>12 DEF vars, ReadNotAhead, clockVars
<1> QED BY <1>1, <1>2, <1>3, <1>4, <1>5, <1>6, <1>7, <1>8, <1>9, <1>10, <1>11, <1>12 DEF Next

\* No generation read is ever ahead of the current one, for any commands and tracks.
THEOREM FreshnessReadNotAhead == Spec => []ReadNotAhead
<1>1. Init => TypeOK /\ ReadNotAhead BY TypeInit, GenInit
<1>2. TypeOK /\ ReadNotAhead /\ [Next]_vars => (TypeOK /\ ReadNotAhead)' BY TypeStep, GenStep
<1> QED BY <1>1, <1>2, PTL DEF Spec

-----------------------------------------------------------------------------
(* What a step does to a row the view goes on or starts to serve.          *)

FreshRow(t, f) == Has(t, f) /\ IsFresh(t, f)

\* The row was read in this step, and its reader saw it.
TakenNow(t, f) ==
    tracks'[t][f] = live[t][f] /\ live'[t][f] = live[t][f] /\ floor'[t][f] = live[t][f]

\* The row was fresh before this step, and neither it nor what the caller knows changed.
KeptFresh(t, f) ==
    /\ FreshRow(t, f) /\ bypassed' = bypassed
    /\ tracks'[t][f] = tracks[t][f] /\ floor'[t][f] = floor[t][f]

LEMMA UnchangedKeeps ==
    ASSUME NEW u \in Track, NEW f \in Known, FreshRow(u, f)',
           UNCHANGED <<readGen, trackGen, tracks, bypassed>>, floor'[u][f] = floor[u][f]
    PROVE  KeptFresh(u, f)
  BY DEF KeptFresh, FreshRow, Has, IsFresh

LEMMA MutateKeeps ==
    ASSUME TypeOK, ReadNotAhead, NEW c \in Sent, NEW t \in Track, Mutate(c, t),
           NEW u \in Track, NEW f \in Known, FreshRow(u, f)'
    PROVE  KeptFresh(u, f)
<1> USE KnownIsField
<1>1. c \in Command
  BY FreshnessAssumption
<1>2. ApplyMutation(c, t) /\ SyncAfterMutation /\ bypassed' = bypassed
  BY DEF Mutate
<1>3. tracks' = tracks /\ ~topologyDirty'
  BY <1>2 DEF SyncAfterMutation, FreshRow, Has, Absent, NoRow
<1>4. "topology" \notin Domains(c) /\ c # Other
  BY <1>2, <1>3 DEF ApplyMutation
<1>5. /\ trackGen[u][f] \in Nat /\ readGen[u][f] \in Nat \cup {-1}
      /\ readGen[u][f] <= trackGen[u][f]
  BY DEF TypeOK, ReadNotAhead, Version, None
<1>6. readGen'[u][f] # -1 /\ readGen'[u][f] = trackGen'[u][f]
  BY DEF FreshRow, IsFresh, None
<1>7. ~(c \in DOMAIN Unscoped /\ f \in Domains(c))
  BY <1>2, <1>6 DEF ApplyMutation, None
<1>8. ~(c \notin DOMAIN Unscoped /\ HasTrackIndex(c) /\ u = t /\ f \in Domains(c))
  <2> SUFFICES ASSUME c \notin DOMAIN Unscoped, HasTrackIndex(c), u = t, f \in Domains(c)
               PROVE  FALSE
    OBVIOUS
  <2>1. trackGen'[u][f] = trackGen[u][f] + 1
    BY <1>2 DEF ApplyMutation, TypeOK
  <2>2. readGen'[u][f] = readGen[u][f]
    BY <1>2 DEF ApplyMutation
  <2> QED BY <2>1, <2>2, <1>5, <1>6
<1>9. <<u, f>> \notin Changed(c, t)
  BY <1>1, <1>4, <1>7, <1>8, TableCovers
<1>10. floor'[u][f] = floor[u][f]
  BY <1>9 DEF Mutate
<1>11. readGen'[u][f] = readGen[u][f] /\ trackGen'[u][f] = trackGen[u][f]
  BY <1>2, <1>7, <1>8 DEF ApplyMutation, TypeOK
<1> QED BY <1>2, <1>3, <1>6, <1>10, <1>11 DEF KeptFresh, FreshRow, Has, IsFresh, None

LEMMA IngestTakes ==
    ASSUME TypeOK, NEW T \in SUBSET Track, NEW row \in [Track -> Row],
           Ingest(T, row), Saw(T, row), live' = live, UNCHANGED <<trackGen, bypassed>>,
           \A t \in Track, f \in Known : row[t][f] = live[t][f],
           NEW u \in Track, NEW f \in Known, FreshRow(u, f)'
    PROVE  TakenNow(u, f) \/ KeptFresh(u, f)
<1> USE KnownIsField
<1>1. CASE u \in T
  <2>1. row[u][f] = live[u][f] /\ live[u][f] # None
    BY DEF TypeOK, None
  <2>2. tracks'[u][f] = live[u][f]
    BY <1>1, <2>1 DEF Ingest, Merged
  <2>3. floor'[u][f] = live[u][f]
    BY <1>1, <2>1 DEF Saw
  <2> QED BY <2>2, <2>3 DEF TakenNow
<1>2. CASE u \notin T
  BY <1>2 DEF Ingest, Saw, KeptFresh, FreshRow, Has, IsFresh
<1> QED BY <1>1, <1>2

LEMMA BindTakes ==
    ASSUME TypeOK, NEW source \in Source, SnapshotAndBind(source), ~bypassed',
           NEW u \in Track, NEW f \in Known
    PROVE  TakenNow(u, f)
<1> USE KnownIsField
<1>1. SnapshotRows(source)[u][f] = live[u][f] /\ live[u][f] # None
  BY SnapshotRowsType DEF TypeOK, None
<1>2. floor'[u][f] = live[u][f] /\ live' = live
  BY <1>1 DEF SnapshotAndBind, Saw, liveVars
<1>3. \/ topology'[u] = live[u]
      \/ topology'[u] = NoRow
  BY DEF SnapshotAndBind, Absent
<1>4. tracks'[u][f] = live[u][f]
  BY <1>1, <1>3 DEF SnapshotAndBind
<1> QED BY <1>2, <1>4 DEF TakenNow

\* Every row the view serves after a step was taken in it or was served before it.
LEMMA StepKeeps ==
    ASSUME TypeOK, ReadNotAhead, [Next]_vars, ~bypassed',
           NEW u \in Track, NEW f \in Known, FreshRow(u, f)'
    PROVE  TakenNow(u, f) \/ KeptFresh(u, f)
<1> USE KnownIsField
<1>1. ASSUME NEW c \in Sent, NEW t \in Track, Mutate(c, t) PROVE KeptFresh(u, f)
  BY <1>1, MutateKeeps
<1>2. ASSUME NEW c \in Sent, NEW t \in Track, MutateRaises(c, t) PROVE KeptFresh(u, f)
  BY <1>2, UnchangedKeeps DEF MutateRaises, clockVars, cacheVars
<1>3. ASSUME NEW t \in Track, NEW g \in Edited, UserEdits(t, g) PROVE KeptFresh(u, f)
  BY <1>3, UnchangedKeeps DEF UserEdits, clockVars, cacheVars
<1>4. ASSUME NEW t \in Track, NEW g \in Field, GetUnkept(t, g) PROVE KeptFresh(u, f)
  <2>1. UNCHANGED <<readGen, trackGen, tracks, bypassed>>
    BY <1>4 DEF GetUnkept, clockVars, cacheVars
  <2>2. g \in {"routing", "parameters"} /\ ~Serves(t, g)
    BY <1>4 DEF GetUnkept
  <2>3. FreshRow(u, f)
    BY <2>1 DEF FreshRow, Has, IsFresh
  <2>4. ~(t = u /\ g = f)
    BY <2>2, <2>3 DEF FreshRow, Serves, ServesField, Known
  <2>5. floor'[u][f] = floor[u][f]
    BY <1>4, <2>4 DEF GetUnkept, TypeOK
  <2> QED BY <2>1, <2>5, UnchangedKeeps
<1>5. ASSUME UserOpensProject PROVE KeptFresh(u, f)
  BY <1>5, UnchangedKeeps DEF UserOpensProject, clockVars, cacheVars
<1>6. ASSUME NEW t \in Track, GetTrackInfo(t) PROVE TakenNow(u, f) \/ KeptFresh(u, f)
  <2>1. UNCHANGED <<trackGen, bypassed>> /\ live' = live
    BY <1>6 DEF GetTrackInfo, liveVars
  <2>2. CASE ServesInfo(t)
    BY <1>6, <2>1, <2>2, UnchangedKeeps DEF GetTrackInfo
  <2>3. CASE ~ServesInfo(t)
    <3> DEFINE row == [v \in Track |-> InfoRow(v)]
    <3>1. row \in [Track -> Row] /\ \A v \in Track, g \in Known : row[v][g] = live[v][g]
      BY InfoRowType DEF TypeOK
    <3>2. Ingest({t}, row) /\ Saw({t}, row)
      BY <1>6, <2>3 DEF GetTrackInfo
    <3> HIDE DEF row
    <3> QED BY <2>1, <3>1, <3>2, IngestTakes
  <2> QED BY <2>2, <2>3
<1>7. ASSUME NEW T \in SUBSET Track, GetTracksInfo(T) PROVE TakenNow(u, f) \/ KeptFresh(u, f)
  <2>1. live \in [Track -> Row]
    BY LiveIsRow DEF TypeOK
  <2>2. UNCHANGED <<trackGen, bypassed>> /\ live' = live /\ Ingest(T, live) /\ Saw(T, live)
    BY <1>7 DEF GetTracksInfo, liveVars
  <2> QED BY <2>1, <2>2, IngestTakes
<1>8. ASSUME NEW t \in Track, GetTrackMonitoring(t) PROVE TakenNow(u, f) \/ KeptFresh(u, f)
  <2>1. CASE u = t /\ f = "monitoring"
    <3>1. tracks[t] # NoRow
      BY <1>8, <2>1 DEF GetTrackMonitoring, Keep, FreshRow, Has, NoRow
    <3> QED BY <1>8, <2>1, <3>1 DEF GetTrackMonitoring, Keep, TakenNow, TypeOK, Row, liveVars
  <2>2. CASE ~(u = t /\ f = "monitoring")
    <3>1. tracks'[u][f] = tracks[u][f] /\ floor'[u][f] = floor[u][f]
      BY <1>8, <2>2 DEF GetTrackMonitoring, Keep, TypeOK, Row
    <3>2. readGen'[u][f] = readGen[u][f] /\ UNCHANGED <<trackGen, bypassed>>
      BY <1>8, <2>2 DEF GetTrackMonitoring, MarkRead, TypeOK
    <3> QED BY <3>1, <3>2 DEF KeptFresh, FreshRow, Has, IsFresh
  <2> QED BY <2>1, <2>2
<1>9. ASSUME NEW t \in Track, GetTrackSends(t) PROVE KeptFresh(u, f)
  <2>1. f # "sends"
    BY DEF Known
  <2>2. tracks'[u][f] = tracks[u][f] /\ floor'[u][f] = floor[u][f]
    BY <1>9, <2>1 DEF GetTrackSends, Keep, TypeOK, Row
  <2>3. readGen'[u][f] = readGen[u][f] /\ UNCHANGED <<trackGen, bypassed>>
    BY <1>9, <2>1 DEF GetTrackSends, MarkRead, TypeOK
  <2> QED BY <2>2, <2>3 DEF KeptFresh, FreshRow, Has, IsFresh
<1>10. ASSUME NEW source \in Source, Snapshot(source) PROVE TakenNow(u, f)
  <2>1. SnapshotRows(source)[u][f] = live[u][f] /\ live[u][f] # None
    BY SnapshotRowsType DEF TypeOK, None
  <2>2. floor'[u][f] = live[u][f] /\ live' = live
    BY <1>10, <2>1 DEF Snapshot, Saw, liveVars
  <2>3. source # "serial"
    BY <1>10 DEF Snapshot
  <2>4. tracks'[u][f] = live[u][f]
    BY <1>10, <2>1, <2>3 DEF Snapshot, Merged
  <2> QED BY <2>2, <2>4 DEF TakenNow
<1>11. ASSUME NEW source \in Source, SnapshotAndBind(source) PROVE TakenNow(u, f)
  BY <1>11, BindTakes
<1>12. CASE UNCHANGED vars
  BY <1>12, UnchangedKeeps DEF vars, clockVars, cacheVars
<1> QED BY <1>1, <1>2, <1>3, <1>4, <1>5, <1>6, <1>7, <1>8, <1>9, <1>10, <1>11, <1>12 DEF Next

-----------------------------------------------------------------------------
(* What the caller knows.                                                  *)

\* Nothing is known that Live had not come to.
LEMMA FloorStep ==
    ASSUME TypeOK, FloorIsPast, [Next]_vars
    PROVE  FloorIsPast'
<1> SUFFICES ASSUME NEW u \in Track, NEW f \in Field PROVE floor'[u][f] <= live'[u][f]
  BY DEF FloorIsPast
<1>1. floor[u][f] <= live[u][f] /\ floor[u][f] \in Nat /\ live[u][f] \in Nat
  BY DEF FloorIsPast, TypeOK
<1>2. ASSUME NEW S, live' = Bumped(S), floor'[u][f] \in {floor[u][f], live'[u][f]}
      PROVE  floor'[u][f] <= live'[u][f]
  BY <1>1, <1>2, BumpedType DEF TypeOK
<1>3. ASSUME live' = live, floor'[u][f] \in {floor[u][f], live[u][f]}
      PROVE  floor'[u][f] <= live'[u][f]
  BY <1>1, <1>3
<1>4. ASSUME NEW c \in Sent, NEW t \in Track, Mutate(c, t) PROVE floor'[u][f] <= live'[u][f]
  BY <1>4, <1>2 DEF Mutate
<1>5. ASSUME NEW c \in Sent, NEW t \in Track, MutateRaises(c, t) PROVE floor'[u][f] <= live'[u][f]
  BY <1>5, <1>2 DEF MutateRaises
<1>6. ASSUME NEW t \in Track, NEW g \in Edited, UserEdits(t, g) PROVE floor'[u][f] <= live'[u][f]
  BY <1>6, <1>2 DEF UserEdits
<1>7. ASSUME UserOpensProject PROVE floor'[u][f] <= live'[u][f]
  BY <1>7, <1>2 DEF UserOpensProject
<1>8. ASSUME NEW t \in Track, NEW g \in Field, GetUnkept(t, g) PROVE floor'[u][f] <= live'[u][f]
  <2>1. floor'[u][f] \in {floor[u][f], live[u][f]}
    BY <1>8 DEF GetUnkept, TypeOK
  <2> QED BY <1>8, <2>1, <1>3 DEF GetUnkept, liveVars
<1>9. ASSUME NEW t \in Track, GetTrackInfo(t) PROVE floor'[u][f] <= live'[u][f]
  <2>1. floor' = floor \/ Saw({t}, [v \in Track |-> InfoRow(v)])
    BY <1>9 DEF GetTrackInfo
  <2>2. InfoRow(u)[f] \in {None, live[u][f]}
    BY InfoRowType DEF TypeOK
  <2>3. floor'[u][f] \in {floor[u][f], live[u][f]}
    BY <2>1, <2>2 DEF Saw
  <2> QED BY <1>9, <2>3, <1>3 DEF GetTrackInfo, liveVars
<1>10. ASSUME NEW T \in SUBSET Track, GetTracksInfo(T) PROVE floor'[u][f] <= live'[u][f]
  BY <1>10, <1>3 DEF GetTracksInfo, Saw, liveVars
<1>11. ASSUME NEW t \in Track, GetTrackMonitoring(t) PROVE floor'[u][f] <= live'[u][f]
  <2>1. floor'[u][f] \in {floor[u][f], live[u][f]}
    BY <1>11 DEF GetTrackMonitoring, TypeOK
  <2> QED BY <1>11, <2>1, <1>3 DEF GetTrackMonitoring, liveVars
<1>12. ASSUME NEW t \in Track, GetTrackSends(t) PROVE floor'[u][f] <= live'[u][f]
  <2>1. floor'[u][f] \in {floor[u][f], live[u][f]}
    BY <1>12 DEF GetTrackSends, TypeOK
  <2> QED BY <1>12, <2>1, <1>3 DEF GetTrackSends, liveVars
<1>13. ASSUME NEW source \in Source, Snapshot(source) \/ SnapshotAndBind(source)
       PROVE  floor'[u][f] <= live'[u][f]
  <2>1. Saw(Track, SnapshotRows(source)) /\ live' = live
    BY <1>13 DEF Snapshot, SnapshotAndBind, liveVars
  <2>2. floor'[u][f] \in {floor[u][f], live[u][f]}
    BY <2>1, SnapshotRowsType DEF Saw, TypeOK
  <2> QED BY <2>1, <2>2, <1>3
<1>14. CASE UNCHANGED vars
  BY <1>14, <1>3 DEF vars, liveVars
<1> QED BY <1>4, <1>5, <1>6, <1>7, <1>8, <1>9, <1>10, <1>11, <1>12, <1>13, <1>14 DEF Next

LEMMA ViewInit == Init => ViewInv
<1> SUFFICES ASSUME Init PROVE ViewInv
  OBVIOUS
<1>1. TypeOK /\ ReadNotAhead
  BY TypeInit, GenInit
<1>2. FloorIsPast
  BY DEF Init, FloorIsPast
<1>3. FreshIsKnown
  BY KnownIsField DEF Init, FreshIsKnown, Has, Absent, NoRow
<1> QED BY <1>1, <1>2, <1>3 DEF ViewInv

LEMMA ViewStep == ASSUME ViewInv, [Next]_vars PROVE ViewInv'
<1>1. TypeOK' /\ ReadNotAhead' /\ FloorIsPast'
  BY TypeStep, GenStep, FloorStep DEF ViewInv
<1>2. FreshIsKnown'
  <2> SUFFICES ASSUME NEW u \in Track, NEW f \in Known, FreshRow(u, f)', ~bypassed'
               PROVE  floor'[u][f] <= tracks'[u][f]
    BY DEF FreshIsKnown, FreshRow
  <2>1. CASE TakenNow(u, f)
    BY <2>1, KnownIsField DEF TakenNow, ViewInv, TypeOK
  <2>2. CASE KeptFresh(u, f)
    BY <2>2 DEF KeptFresh, FreshRow, ViewInv, FreshIsKnown
  <2> QED BY <2>1, <2>2, StepKeeps DEF ViewInv
<1> QED BY <1>1, <1>2 DEF ViewInv

LEMMA ServedIsFresh ==
    ASSUME NEW t \in Track, NEW f \in Known, Serves(t, f)
    PROVE  FreshRow(t, f)
  BY KnownIsField DEF Serves, ServesInfo, AllFresh, ServesField, FreshRow, Known

LEMMA ViewInvServes == ViewInv => SessionGuarantees
<1> SUFFICES ASSUME ViewInv, NEW t \in Track, NEW f \in Known, Serves(t, f), ~bypassed
             PROVE  tracks[t][f] >= floor[t][f]
  BY DEF SessionGuarantees, Known
<1>1. floor[t][f] <= tracks[t][f]
  BY ServedIsFresh DEF ViewInv, FreshIsKnown, FreshRow
<1>2. floor[t][f] \in Nat /\ tracks[t][f] \in Nat
  BY KnownIsField, ServedIsFresh DEF ViewInv, TypeOK, Row, Version, FreshRow, Has
<1> QED BY <1>1, <1>2

\* Read your writes and monotonic reads, for any tracks, commands and edits: the view
\* serves nothing older than what its caller knows.
THEOREM FreshnessSessionGuarantees == Spec => []SessionGuarantees
<1>1. Init => ViewInv BY ViewInit
<1>2. ViewInv /\ [Next]_vars => ViewInv' BY ViewStep
<1>3. ViewInv => SessionGuarantees BY ViewInvServes
<1> QED BY <1>1, <1>2, <1>3, PTL DEF Spec

\* What ServesParameters asks for: the devices and their parameters.
DeviceField == {"inventory", "parameters"}
KeptCopy(t, f) == FreshRow(t, f) /\ tracks'[t][f] = tracks[t][f]

LEMMA UnchangedCopies ==
    ASSUME NEW u \in Track, \A f \in DeviceField : FreshRow(u, f)',
           UNCHANGED <<readGen, trackGen, tracks>>
    PROVE  \A f \in DeviceField : KeptCopy(u, f)
  BY DEF KeptCopy, FreshRow, Has, IsFresh

LEMMA MutateKeepsCopies ==
    ASSUME TypeOK, ReadNotAhead, NEW c \in Sent, NEW t \in Track, Mutate(c, t),
           NEW u \in Track, NEW f \in DeviceField, FreshRow(u, f)'
    PROVE  KeptCopy(u, f)
<1> f \in Field
  BY DEF DeviceField, Field
<1> f \in Domain
  BY DEF Domain
<1>1. ApplyMutation(c, t) /\ SyncAfterMutation
  BY DEF Mutate
<1>2. tracks' = tracks
  BY <1>1 DEF SyncAfterMutation, FreshRow, Has, Absent, NoRow
<1>3. /\ trackGen[u][f] \in Nat /\ readGen[u][f] \in Nat \cup {-1}
      /\ readGen[u][f] <= trackGen[u][f]
  BY DEF TypeOK, ReadNotAhead, Version, None
<1>4. readGen'[u][f] # -1 /\ readGen'[u][f] = trackGen'[u][f]
  BY DEF FreshRow, IsFresh, None
<1>5. \/ readGen'[u][f] = readGen[u][f] /\ trackGen'[u][f] \in {trackGen[u][f], trackGen[u][f] + 1}
      \/ readGen'[u][f] = -1
  BY <1>1 DEF ApplyMutation, TypeOK, None
<1>6. readGen'[u][f] = readGen[u][f] /\ trackGen'[u][f] = trackGen[u][f]
  BY <1>3, <1>4, <1>5
<1> QED BY <1>2, <1>4, <1>6 DEF KeptCopy, FreshRow, Has, IsFresh, None

\* The devices and the parameters of a row are read together or kept together.
LEMMA CopiesStep ==
    ASSUME TypeOK, ReadNotAhead, [Next]_vars, ~bypassed',
           NEW u \in Track, \A f \in DeviceField : FreshRow(u, f)'
    PROVE  \/ \A f \in DeviceField : tracks'[u][f] = live[u][f]
           \/ \A f \in DeviceField : KeptCopy(u, f)
<1> DeviceField \subseteq Field /\ DeviceField \subseteq Domain /\ "sends" \notin DeviceField
    /\ "monitoring" \notin DeviceField
  BY DEF DeviceField, Field, Domain
<1>0. \A f \in DeviceField : live[u][f] # None
  BY DEF TypeOK, None
<1>1. ASSUME NEW c \in Sent, NEW t \in Track, Mutate(c, t)
      PROVE  \A f \in DeviceField : KeptCopy(u, f)
  BY <1>1, MutateKeepsCopies
<1>2. CASE UNCHANGED <<clockVars, tracks>>
  BY <1>2, UnchangedCopies DEF clockVars
<1>3. ASSUME NEW T \in SUBSET Track, NEW row, Ingest(T, row), UNCHANGED trackGen,
             \A f \in DeviceField : row[u][f] = live[u][f]
      PROVE  \/ \A f \in DeviceField : tracks'[u][f] = live[u][f]
             \/ \A f \in DeviceField : KeptCopy(u, f)
  <2>1. CASE u \in T
    BY <1>0, <1>3, <2>1 DEF Ingest, Merged
  <2>2. CASE u \notin T
    BY <1>3, <2>2 DEF Ingest, KeptCopy, FreshRow, Has, IsFresh
  <2> QED BY <2>1, <2>2
<1>4. ASSUME NEW t \in Track, GetTrackInfo(t)
      PROVE  \/ \A f \in DeviceField : tracks'[u][f] = live[u][f]
             \/ \A f \in DeviceField : KeptCopy(u, f)
  <2> DEFINE row == [v \in Track |-> InfoRow(v)]
  <2>1. \A f \in DeviceField : row[u][f] = live[u][f]
    BY DEF InfoRow, TypeOK
  <2> HIDE DEF row
  <2>2. CASE Ingest({t}, row)
    BY <1>3, <1>4, <2>1, <2>2 DEF GetTrackInfo
  <2>3. CASE UNCHANGED <<tracks, readGen>>
    BY <1>4, <2>3, UnchangedCopies DEF GetTrackInfo
  <2> QED BY <1>4, <2>2, <2>3 DEF GetTrackInfo, row
<1>5. ASSUME NEW T \in SUBSET Track, GetTracksInfo(T)
      PROVE  \/ \A f \in DeviceField : tracks'[u][f] = live[u][f]
             \/ \A f \in DeviceField : KeptCopy(u, f)
  BY <1>3, <1>5 DEF GetTracksInfo
<1>6. ASSUME NEW t \in Track, NEW g \in {"monitoring", "sends"}, NEW v,
             MarkRead(t, g), Keep(t, g, v), trackGen' = trackGen
      PROVE  \A f \in DeviceField : KeptCopy(u, f)
  <2>1. \A f \in DeviceField : tracks'[u][f] = tracks[u][f]
    BY <1>6 DEF Keep, TypeOK, Row
  <2>2. \A f \in DeviceField : readGen'[u][f] = readGen[u][f]
    BY <1>6 DEF MarkRead, TypeOK
  <2> QED BY <1>6, <2>1, <2>2 DEF KeptCopy, FreshRow, Has, IsFresh
<1>9. ASSUME NEW t \in Track, GetTrackMonitoring(t) \/ GetTrackSends(t)
      PROVE  \A f \in DeviceField : KeptCopy(u, f)
  BY <1>6, <1>9 DEF GetTrackMonitoring, GetTrackSends
<1>7. ASSUME NEW source \in Source, Snapshot(source)
      PROVE  \A f \in DeviceField : tracks'[u][f] = live[u][f]
  <2>1. SnapshotRows(source) = live /\ source # "serial"
    BY <1>7 DEF Snapshot, SnapshotRows
  <2> QED BY <1>0, <1>7, <2>1 DEF Snapshot, Merged
<1>8. ASSUME NEW source \in Source, SnapshotAndBind(source)
      PROVE  \A f \in DeviceField : tracks'[u][f] = live[u][f]
  <2>1. topology'[u] = live[u] \/ topology'[u] = NoRow
    BY <1>8 DEF SnapshotAndBind, Absent
  <2>2. \A f \in DeviceField : SnapshotRows(source)[u][f] = live[u][f]
    BY DEF SnapshotRows, InfoRow, TypeOK
  <2> QED BY <1>8, <2>1, <2>2 DEF SnapshotAndBind
<1> QED BY <1>1, <1>2, <1>4, <1>5, <1>7, <1>8, <1>9
        DEF Next, MutateRaises, UserEdits, UserOpensProject, GetUnkept, cacheVars, vars

\* A row has its devices with their parameters or has neither.
Paired ==
    \A t \in Track :
        /\ Has(t, "inventory") <=> Has(t, "parameters")
        /\ topology[t]["inventory"] = None <=> topology[t]["parameters"] = None

LEMMA PairedStep == ASSUME TypeOK, Paired, [Next]_vars PROVE Paired'
<1> SUFFICES ASSUME NEW u \in Track
             PROVE  /\ tracks'[u]["inventory"] = None <=> tracks'[u]["parameters"] = None
                    /\ topology'[u]["inventory"] = None <=> topology'[u]["parameters"] = None
  BY DEF Paired, Has
<1> DeviceField \subseteq Field /\ "sends" \notin DeviceField /\ "monitoring" \notin DeviceField
    /\ "inventory" \in DeviceField /\ "parameters" \in DeviceField
  BY DEF DeviceField, Field
<1>1. /\ tracks[u]["inventory"] = None <=> tracks[u]["parameters"] = None
      /\ topology[u]["inventory"] = None <=> topology[u]["parameters"] = None
  BY DEF Paired, Has
<1>2. \A f \in DeviceField : live[u][f] # None /\ Absent[u][f] = None
  BY DEF TypeOK, None, Absent, NoRow
<1>3. \A source : \A f \in DeviceField : SnapshotRows(source)[u][f] = live[u][f]
  BY DEF SnapshotRows, InfoRow, TypeOK
<1>4. topology' \in {topology, live}
  BY DEF Next, Mutate, MutateRaises, UserEdits, UserOpensProject, GetUnkept, GetTrackInfo,
     GetTracksInfo, GetTrackMonitoring, GetTrackSends, Snapshot, SnapshotAndBind, cacheVars, vars
<1>5. topology'[u]["inventory"] = None <=> topology'[u]["parameters"] = None
  BY <1>1, <1>2, <1>4
<1>6. CASE tracks' \in {tracks, Absent}
  BY <1>1, <1>2, <1>5, <1>6
<1>7. ASSUME NEW T, NEW row, Ingest(T, row), \A f \in DeviceField : row[u][f] = live[u][f]
      PROVE  tracks'[u]["inventory"] = None <=> tracks'[u]["parameters"] = None
  BY <1>1, <1>2, <1>7 DEF Ingest, Merged
<1>8. ASSUME NEW t \in Track, NEW g \in {"monitoring", "sends"}, NEW v, Keep(t, g, v)
      PROVE  tracks'[u]["inventory"] = None <=> tracks'[u]["parameters"] = None
  <2>1. \A f \in DeviceField : tracks'[u][f] = tracks[u][f]
    BY <1>8 DEF Keep, TypeOK, Row
  <2> QED BY <1>1, <2>1
<1>9. ASSUME NEW t \in Track, GetTrackInfo(t)
      PROVE  tracks'[u]["inventory"] = None <=> tracks'[u]["parameters"] = None
  <2> DEFINE row == [v \in Track |-> InfoRow(v)]
  <2>1. \A f \in DeviceField : row[u][f] = live[u][f]
    BY DEF InfoRow, TypeOK
  <2> HIDE DEF row
  <2> QED BY <1>1, <1>7, <1>9, <2>1 DEF GetTrackInfo, row
<1>10. ASSUME NEW T \in SUBSET Track, GetTracksInfo(T)
       PROVE  tracks'[u]["inventory"] = None <=> tracks'[u]["parameters"] = None
  BY <1>7, <1>10 DEF GetTracksInfo
<1>11. ASSUME NEW source \in Source, Snapshot(source)
       PROVE  tracks'[u]["inventory"] = None <=> tracks'[u]["parameters"] = None
  <2>1. tracks' = tracks \/ tracks'[u] = Merged(tracks[u], SnapshotRows(source)[u])
    BY <1>11 DEF Snapshot
  <2> QED BY <1>1, <1>2, <1>3, <2>1 DEF Merged
<1>12. ASSUME NEW source \in Source, SnapshotAndBind(source)
       PROVE  tracks'[u]["inventory"] = None <=> tracks'[u]["parameters"] = None
  <2>1. tracks'[u] \in {topology'[u], SnapshotRows(source)[u]}
    BY <1>12 DEF SnapshotAndBind
  <2> QED BY <1>2, <1>3, <1>5, <2>1
<1>13. ASSUME NEW t \in Track, GetTrackMonitoring(t) \/ GetTrackSends(t)
       PROVE  tracks'[u]["inventory"] = None <=> tracks'[u]["parameters"] = None
  BY <1>8, <1>13 DEF GetTrackMonitoring, GetTrackSends
<1> QED BY <1>5, <1>6, <1>9, <1>10, <1>11, <1>12, <1>13
        DEF Next, Mutate, SyncAfterMutation, MutateRaises, UserEdits, UserOpensProject, GetUnkept,
            cacheVars, vars

LEMMA ParametersStep ==
    ASSUME TypeOK, ReadNotAhead, Paired, [Next]_vars, ~bypassed', NEW t \in Track
    PROVE  Served(t, "parameters")' \in {None, Served(t, "parameters"), live[t]["parameters"]}
<1>1. CASE ~Serves(t, "parameters")'
  BY <1>1 DEF Served
<1>2. CASE Serves(t, "parameters")'
  <2>1. Served(t, "parameters")' = tracks'[t]["parameters"] /\ FreshRow(t, "parameters")'
    BY <1>2 DEF Served, Serves, ServesInfo, AllFresh, ServesParameters, ServesField, FreshRow,
       Field
  <2>2. FreshRow(t, "inventory")'
    <3>1. Has(t, "inventory")'
      BY <2>1, PairedStep DEF Paired, FreshRow
    <3> QED BY <1>2, <3>1 DEF Serves, ServesInfo, AllFresh, ServesParameters, ServesField, FreshRow,
               Field
  <2>3. Served(t, "parameters")' \in {Served(t, "parameters"), live[t]["parameters"]}
    <3>1. \A f \in DeviceField : FreshRow(t, f)'
      BY <2>1, <2>2 DEF DeviceField
    <3>2. KeptCopy(t, "parameters") /\ KeptCopy(t, "inventory") =>
             Serves(t, "parameters") /\ tracks'[t]["parameters"] = tracks[t]["parameters"]
      BY DEF KeptCopy, FreshRow, Serves, ServesParameters, ServesField
    <3> QED BY <2>1, <3>1, <3>2, CopiesStep DEF DeviceField, Served
  <2> QED BY <2>3
<1> QED BY <1>1, <1>2

LEMMA RevivalStep ==
    ASSUME TypeOK, ReadNotAhead, [Next]_vars, ~bypassed',
           NEW t \in Track, NEW f \in {"monitoring", "routing", "inventory"}
    PROVE  Served(t, f)' \in {None, Served(t, f), live[t][f]}
<1>1. CASE ~Serves(t, f)'
  BY <1>1 DEF Served
<1>2. CASE Serves(t, f)'
  <2> f \in Known
    BY DEF Known
  <2>1. Served(t, f)' = tracks'[t][f]
    BY <1>2 DEF Served
  <2>2. FreshRow(t, f)'
    BY <1>2, KnownIsField DEF Serves, ServesInfo, AllFresh, ServesField, FreshRow
  <2>3. CASE TakenNow(t, f)
    BY <2>1, <2>3 DEF TakenNow
  <2>4. CASE KeptFresh(t, f)
    <3>1. Serves(t, f)
      BY <2>4 DEF KeptFresh, FreshRow, Serves, ServesField
    <3> QED BY <2>1, <2>4, <3>1 DEF KeptFresh, Served
  <2> QED BY <2>2, <2>3, <2>4, StepKeeps
<1> QED BY <1>1, <1>2

\* A copy of a track's monitoring, routing, devices or parameters that the view stopped
\* serving never comes back: what starts to be served is what Live shows at that step.
\* The sends and the metadata do come back (get_track_sends, ProjectReadView.track_info).
THEOREM FreshnessNoRevival == Spec => NoRevival
<1>1. Init => TypeOK /\ ReadNotAhead /\ Paired
  BY TypeInit, GenInit DEF Init, Paired, Has, Absent, NoRow, Field
<1>2. TypeOK /\ ReadNotAhead /\ Paired /\ [Next]_vars => (TypeOK /\ ReadNotAhead /\ Paired)'
  BY TypeStep, GenStep, PairedStep
<1>3. TypeOK /\ ReadNotAhead /\ Paired /\ [Next]_vars =>
        \A t \in Track, f \in {"monitoring", "routing", "inventory", "parameters"} :
          bypassed' \/ Served(t, f)' \in {None, Served(t, f), live[t][f]}
  BY RevivalStep, ParametersStep
<1>4. TypeOK /\ ReadNotAhead /\ Paired /\ [Next]_vars =>
        [\A t \in Track, f \in {"monitoring", "routing", "inventory", "parameters"} :
          bypassed' \/ Served(t, f)' \in {None, Served(t, f), live[t][f]}]_vars
  BY <1>3
<1> QED BY <1>1, <1>2, <1>4, PTL DEF Spec, NoRevival

=============================================================================
