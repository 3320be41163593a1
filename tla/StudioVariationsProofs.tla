----------------------- MODULE StudioVariationsProofs -----------------------
(***************************************************************************)
(* What the rows of the Studio say of Live, for every set of requests and  *)
(* candidates: type correctness, what FAILED, DISCARDED and KEPT rows are  *)
(* true of, and who owns the connections.                                  *)
(***************************************************************************)
EXTENDS StudioVariations, TLAPS

-----------------------------------------------------------------------------
(* Sequences.                                                              *)

LEMMA ConcatFacts ==
    ASSUME NEW S, NEW a \in Seq(S), NEW b \in Seq(S), NEW k \in 1..(Len(a) + Len(b))
    PROVE  (a \o b)[k] = IF k <= Len(a) THEN a[k] ELSE b[k - Len(a)]
OBVIOUS

LEMMA RemoveAtFacts ==
    ASSUME NEW S, NEW s \in Seq(S), NEW i \in DOMAIN s
    PROVE  /\ RemoveAt(s, i) \in Seq(S)
           /\ Len(RemoveAt(s, i)) = Len(s) - 1
           /\ \A k \in DOMAIN RemoveAt(s, i) :
                 RemoveAt(s, i)[k] = IF k < i THEN s[k] ELSE s[k + 1]
<1>1. SubSeq(s, 1, i - 1) \in Seq(S) /\ SubSeq(s, i + 1, Len(s)) \in Seq(S)
  OBVIOUS
<1>2. Len(SubSeq(s, 1, i - 1)) = i - 1 /\ Len(SubSeq(s, i + 1, Len(s))) = Len(s) - i
  OBVIOUS
<1>3. \A k \in 1..(i - 1) : SubSeq(s, 1, i - 1)[k] = s[k]
  OBVIOUS
<1>4. \A k \in 1..(Len(s) - i) : SubSeq(s, i + 1, Len(s))[k] = s[i + k]
  OBVIOUS
<1>5. i \in 1..Len(s) /\ Len(s) \in Nat
  OBVIOUS
<1>6. Len(RemoveAt(s, i)) = Len(s) - 1 /\ RemoveAt(s, i) \in Seq(S)
  BY <1>1, <1>2, <1>5 DEF RemoveAt
<1>7. ASSUME NEW k \in DOMAIN RemoveAt(s, i)
      PROVE  RemoveAt(s, i)[k] = IF k < i THEN s[k] ELSE s[k + 1]
  <2>1. k \in 1..(Len(s) - 1)
    BY <1>6, <1>7, <1>5
  <2>4. RemoveAt(s, i)[k] = IF k <= i - 1 THEN SubSeq(s, 1, i - 1)[k]
                            ELSE SubSeq(s, i + 1, Len(s))[k - (i - 1)]
    <3>1. k \in 1..(Len(SubSeq(s, 1, i - 1)) + Len(SubSeq(s, i + 1, Len(s))))
      BY <1>2, <1>5, <2>1
    <3> QED
      BY <1>1, <1>2, <3>1, ConcatFacts, Zenon DEF RemoveAt
  <2>2. CASE k < i
    BY <1>3, <1>5, <2>1, <2>2, <2>4
  <2>3. CASE ~(k < i)
    <3>1. RemoveAt(s, i)[k] = SubSeq(s, i + 1, Len(s))[k - (i - 1)]
      BY <1>5, <2>1, <2>3, <2>4
    <3>2. k - (i - 1) \in 1..(Len(s) - i) /\ i + (k - (i - 1)) = k + 1
      BY <1>5, <2>1, <2>3
    <3> QED
      BY <1>4, <2>3, <3>1, <3>2
  <2> QED
    BY <2>2, <2>3
<1> QED
  BY <1>6, <1>7

Unrepeated(s) == \A i, j \in DOMAIN s : s[i] = s[j] => i = j

LEMMA RemoveAtKeeps ==
    ASSUME NEW S, NEW s \in Seq(S), NEW i \in DOMAIN s
    PROVE  ToSet(RemoveAt(s, i)) \subseteq ToSet(s)
<1> SUFFICES ASSUME NEW k \in DOMAIN RemoveAt(s, i)
             PROVE  \E j \in DOMAIN s : s[j] = RemoveAt(s, i)[k]
  BY DEF ToSet
<1>0. /\ Len(RemoveAt(s, i)) = Len(s) - 1 /\ RemoveAt(s, i) \in Seq(S)
      /\ RemoveAt(s, i)[k] = IF k < i THEN s[k] ELSE s[k + 1]
  BY RemoveAtFacts
<1>1. k \in 1..(Len(s) - 1) /\ i \in 1..Len(s) /\ Len(s) \in Nat
  BY <1>0
<1>2. CASE k < i
  BY <1>0, <1>1, <1>2
<1>3. CASE ~(k < i)
  <2>1. k + 1 \in DOMAIN s
    BY <1>1
  <2> QED
    BY <1>0, <1>3, <2>1
<1> QED
  BY <1>2, <1>3

LEMMA RemoveAtRemoves ==
    ASSUME NEW S, NEW s \in Seq(S), NEW i \in DOMAIN s, Unrepeated(s)
    PROVE  Unrepeated(RemoveAt(s, i)) /\ s[i] \notin ToSet(RemoveAt(s, i))
<1> DEFINE t == RemoveAt(s, i)
           at(k) == IF k < i THEN k ELSE k + 1
<1>0. Len(t) = Len(s) - 1 /\ t \in Seq(S) /\ Len(s) \in Nat /\ i \in 1..Len(s)
  BY RemoveAtFacts
<1>1. ASSUME NEW k \in DOMAIN t
      PROVE  at(k) \in DOMAIN s /\ at(k) # i /\ t[k] = s[at(k)] /\ k \in Nat
  <2>1. k \in 1..(Len(s) - 1)
    BY <1>0
  <2>2. t[k] = s[at(k)]
    BY RemoveAtFacts
  <2> QED
    BY <1>0, <2>1, <2>2
<1>2. \A k, l \in DOMAIN t : at(k) = at(l) => k = l
  BY <1>1
<1>3. Unrepeated(t)
  BY <1>1, <1>2 DEF Unrepeated
<1>4. s[i] \notin ToSet(t)
  BY <1>1 DEF ToSet, Unrepeated
<1> QED
  BY <1>3, <1>4

LEMMA AppendFacts ==
    ASSUME NEW S, NEW s \in Seq(S), NEW e \in S
    PROVE  /\ Append(s, e) \in Seq(S)
           /\ ToSet(Append(s, e)) = ToSet(s) \cup {e}
           /\ Unrepeated(s) /\ e \notin ToSet(s) => Unrepeated(Append(s, e))
<1>1. /\ Append(s, e) \in Seq(S) /\ DOMAIN Append(s, e) = 1..(Len(s) + 1)
      /\ \A k \in DOMAIN s : Append(s, e)[k] = s[k] /\ k # Len(s) + 1
      /\ Append(s, e)[Len(s) + 1] = e /\ DOMAIN s = 1..Len(s) /\ Len(s) \in Nat
  OBVIOUS
<1>2. ToSet(Append(s, e)) = ToSet(s) \cup {e}
  BY <1>1 DEF ToSet
<1>3. ASSUME Unrepeated(s), e \notin ToSet(s) PROVE Unrepeated(Append(s, e))
  <2>1. \A k \in DOMAIN Append(s, e) : k \in DOMAIN s \/ k = Len(s) + 1
    BY <1>1
  <2> QED
    BY <1>1, <1>3, <2>1 DEF ToSet, Unrepeated
<1> QED
  BY <1>1, <1>2, <1>3
-----------------------------------------------------------------------------
(* The inductive invariant.                                                *)

\* The places of each kind of request.
Fits(j) ==
    \/ j.pc = "idle"
    \/ j.op = "produce" /\ j.pc \in {"write", "preview", "read", "put", "project", "register"}
    \/ j.op = "fail" /\ j.pc \in {"undo", "strike", "read", "put"}
    \/ j.op = "keep" /\ j.pc \in {"save", "read", "put", "project"}
    \/ j.op = "select" /\ j.pc \in {"read", "put", "project"}
    \/ j.op = "discard" /\ j.pc \in {"discards", "undo", "strike", "readback", "read", "put",
                                     "project"}

\* What a row with status s says of candidate v. FAILED and DISCARDED say Gone.
Gone(v) == v \notin InLive \/ txn[v] = "ROLLBACK_CONFLICT" \/ v \in astray
TrueRow(v, s) ==
    s # "none" =>
        /\ txn[v] # "none"
        /\ s = "KEPT" /\ v \in InLive => v \in disk
        /\ s \in {"FAILED", "DISCARDED"} => Gone(v)

\* Only the candidate a request is about to write has no transaction; the rows a
\* request has in hand are true, also while others change the stored ones.
Sound(j) ==
    /\ Fits(j)
    /\ j.pc = "write" => txn[j.v] = "none"
    /\ j.pc \notin {"idle", "discards", "write"} => txn[j.v] # "none"
    /\ j.pc = "put" => \A v \in Variation : TrueRow(v, j.list[v].status)
    /\ j.pc \in {"save", "read", "put"} => TrueRow(j.v, j.row.status)
    /\ j.pc = "readback" => Gone(j.v)
JobsSound == \A r \in Request : Sound(job[r])

\* A candidate has at most one track, and a track, a row and a place in runtime
\* only with its transaction; what a transaction says it rolled back is Gone.
RowsTrue ==
    /\ \A v \in Variation : TrueRow(v, rows[v].status)
    /\ \A v \in Variation : txn[v] = "ROLLED_BACK" => Gone(v)
    /\ \A v \in runtime \cup InLive : txn[v] # "none"
    /\ Unrepeated(tracks)

\* An id that was not drawn yet has no transaction. A connection is named by the
\* first candidate that uses it.
LinksTrue ==
    \A v \in Variation :
        /\ link[v] = "none" => txn[v] = "none"
        /\ link[v] # "none" => link[link[v]] = link[v]

\* A request that makes candidates works on one that is not registered yet, over
\* an open connection no other such request uses.
Makes(r) == job[r].pc # "idle" /\ job[r].op \in Producing
OwnConnection ==
    \A r \in Request : Makes(r) =>
        /\ link[job[r].v] \in open
        /\ job[r].v \notin runtime
        /\ \A q \in Request : Makes(q) /\ link[job[q].v] = link[job[r].v] => q = r

Connections == LinksTrue /\ OwnConnection /\ ConnectionsOwned
StudioInv == TypeOK /\ JobsSound /\ RowsTrue /\ Connections

-----------------------------------------------------------------------------
(* What the steps have in common.                                          *)

\* The place of every request but r.
LEMMA GoesFacts ==
    ASSUME TypeOK, NEW r \in Request, NEW j \in Job, Goes(r, j),
           j.pc \notin {"idle", "discards"} => j.v \in Variation
    PROVE  /\ job' \in [Request -> Job] /\ job'[r] = j
           /\ \A q \in Request : q # r => job'[q] = job[q]
           /\ \A q \in Request : job'[q].pc # "idle" /\ job'[q].pc # "discards"
                                    => job'[q].v \in Variation
BY DEF TypeOK, Goes

\* Steps after which a true row is still true: no transaction is forgotten, no
\* track comes to Live but with its transaction, no kept one leaves the disk.
Stable ==
    \A v \in Variation :
        /\ txn[v] # "none" => txn'[v] # "none"
        /\ v \in InLive' => v \in InLive \/ txn[v] = "none"
        /\ v \in disk /\ v \in InLive' => v \in disk'
        /\ v \in astray => v \in astray'
        /\ txn[v] = "ROLLBACK_CONFLICT" =>
              txn'[v] = "ROLLBACK_CONFLICT" \/ v \notin InLive' \/ v \in astray'

LEMMA UnchangedIsStable ==
    ASSUME UNCHANGED <<txn, tracks, disk, astray>> PROVE Stable
BY DEF Stable, InLive

\* The other requests stay sound.
LEMMA OthersSound ==
    ASSUME StudioInv, Stable, NEW r \in Request, NEW q \in Request, job'[q] = job[q],
           job[q].pc = "write" => txn'[job[q].v] = "none"
    PROVE  Sound(job[q])'
<1>1. Sound(job[q]) /\ Fits(job'[q])
  BY DEF StudioInv, JobsSound, Sound
<1>2. job[q].pc \notin {"idle", "discards"} => job[q].v \in Variation
  BY DEF StudioInv, TypeOK
<1> QED
  BY <1>1, <1>2, Zenon DEF Sound, Stable, TrueRow, Gone, Fits

\* The links, when no id but a drawn one gets a transaction.
LEMMA LinksStay ==
    ASSUME StudioInv, UNCHANGED link,
           \A v \in Variation : txn[v] = "none" /\ link[v] = "none" => txn'[v] = "none"
    PROVE  LinksTrue'
BY DEF StudioInv, Connections, LinksTrue

\* Connections, when a request goes on with what it makes.
LEMMA ConnectionsStay ==
    ASSUME StudioInv, NEW r \in Request, NEW j \in Job, Goes(r, j),
           UNCHANGED <<runtime, open, link>>,
           j.pc # "idle" /\ j.op \in Producing <=> Makes(r),
           Makes(r) => j.v = job[r].v
    PROVE  OwnConnection' /\ ConnectionsOwned'
<1>1. /\ job'[r] = j /\ \A q \in Request : q # r => job'[q] = job[q]
      /\ \A q \in Request : Makes(q)' <=> Makes(q)
      /\ \A q \in Request : Makes(q) => job'[q].v = job[q].v
  <2>1. job'[r] = j /\ \A q \in Request : q # r => job'[q] = job[q]
    BY DEF Goes, StudioInv, TypeOK
  <2> QED
    BY <2>1 DEF Makes
<1>2. OwnConnection'
  BY <1>1, Zenon DEF StudioInv, Connections, OwnConnection
<1>3. ConnectionsOwned'
  <2>1. ASSUME NEW c \in open PROVE \/ \E v \in runtime : link[v] = c
                                    \/ \E q \in Request : Makes(q) /\ link[job[q].v] = c
    BY DEF StudioInv, Connections, ConnectionsOwned, Makes
  <2>2. ASSUME NEW c \in open PROVE \/ \E v \in runtime : link[v] = c
                                    \/ \E q \in Request : Makes(q)' /\ link[job'[q].v] = c
    BY <1>1, <2>1, <2>2, Zenon
  <2>3. \A v \in runtime : link[v] \in open \/ \E w \in Variation \ {v} : link[w] = link[v]
    BY DEF StudioInv, Connections, ConnectionsOwned
  <2> QED
    BY <2>2, <2>3 DEF ConnectionsOwned, Makes
<1> QED
  BY <1>2, <1>3

\* Connections, when a request fails: its own is closed, and nobody else makes
\* candidates over it.
LEMMA ConnectionsClose ==
    ASSUME StudioInv, NEW r \in Request, job[r].pc # "idle", Raises(r),
           UNCHANGED <<runtime, link>>
    PROVE  OwnConnection' /\ ConnectionsOwned'
<1>1. /\ job'[r] = Idle /\ \A q \in Request : q # r => job'[q] = job[q]
      /\ \A q \in Request : Makes(q)' <=> q # r /\ Makes(q)
  <2>1. job'[r] = Idle /\ \A q \in Request : q # r => job'[q] = job[q]
    BY DEF Raises, Goes, StudioInv, TypeOK
  <2>2. Idle.pc = "idle"
    BY DEF Idle
  <2> QED
    BY <2>1, <2>2 DEF Makes
<1>2. OwnConnection /\ ConnectionsOwned /\ TypeOK /\ LinksTrue
  BY DEF StudioInv, Connections
<1>3. CASE ~Makes(r)
  <2>1. open' = open
    BY <1>3 DEF Raises, Makes
  <2>2. \A q \in Request : Makes(q) <=> Makes(q)'
    BY <1>1, <1>3
  <2>3. \A q \in Request : Makes(q) => job'[q].v = job[q].v
    BY <1>1, <1>3
  <2>4. OwnConnection'
    BY <1>2, <2>1, <2>2, <2>3, Zenon DEF OwnConnection
  <2>5. ASSUME NEW c \in open'
        PROVE \/ \E v \in runtime' : link'[v] = c
              \/ \E q \in Request : Makes(q)' /\ link'[job'[q].v] = c
    <3>1. \/ \E v \in runtime : link[v] = c
          \/ \E q \in Request : Makes(q) /\ link[job[q].v] = c
      BY <1>2, <2>1, <2>5 DEF ConnectionsOwned, Makes
    <3> QED
      BY <2>2, <2>3, <3>1, Zenon
  <2>6. \A v \in runtime' : link'[v] \in open' \/ \E w \in Variation \ {v} : link'[w] = link'[v]
    BY <1>2, <2>1 DEF ConnectionsOwned
  <2> QED
    BY <2>4, <2>5, <2>6 DEF ConnectionsOwned, Makes
<1>4. CASE Makes(r)
  <2> DEFINE own == link[job[r].v]
  <2>1. open' = open \ {own}
    BY <1>4 DEF Raises, Makes
  <2>2. job[r].v \in Variation \ runtime
    <3>1. job[r].op # "discard" /\ (job[r].pc # "discards" => job[r].v \in Variation)
      BY <1>2, <1>4 DEF Makes, Producing, TypeOK
    <3>2. job[r].pc # "discards"
      BY <1>4, <3>1 DEF StudioInv, JobsSound, Sound, Fits, Makes, Producing
    <3> QED
      BY <1>2, <1>4, <3>1, <3>2 DEF OwnConnection
  <2>3. \A q \in Request : q # r /\ Makes(q) => link[job[q].v] # own
    BY <1>2, <1>4 DEF OwnConnection
  <2>4. OwnConnection'
    BY <1>1, <1>2, <2>1, <2>3, Zenon DEF OwnConnection
  <2>5. ASSUME NEW c \in open'
        PROVE \/ \E v \in runtime' : link'[v] = c
              \/ \E q \in Request : Makes(q)' /\ link'[job'[q].v] = c
    <3>1. c \in open /\ c # own
      BY <2>1, <2>5
    <3>2. \/ \E v \in runtime : link[v] = c
          \/ \E q \in Request : Makes(q) /\ link[job[q].v] = c
      BY <1>2, <3>1 DEF ConnectionsOwned, Makes
    <3>3. \A q \in Request : Makes(q) /\ link[job[q].v] = c =>
             Makes(q)' /\ link'[job'[q].v] = c
      BY <1>1, <3>1, Zenon
    <3> QED
      BY <3>2, <3>3, Zenon
  <2>6. ASSUME NEW v \in runtime'
        PROVE link'[v] \in open' \/ \E w \in Variation \ {v} : link'[w] = link'[v]
    <3>1. v \in runtime /\ UNCHANGED link
      BY <2>6
    <3>2. link[v] \in open \/ \E w \in Variation \ {v} : link[w] = link[v]
      BY <1>2, <3>1 DEF ConnectionsOwned
    <3>3. link[v] = own => \E w \in Variation \ {v} : link[w] = link[v]
      BY <2>2, <3>1
    <3> QED
      BY <2>1, <3>1, <3>2, <3>3
  <2> QED
    BY <2>4, <2>5, <2>6 DEF ConnectionsOwned, Makes
<1> QED
  BY <1>3, <1>4

\* The jobs, when request r goes on.
LEMMA JobsStay ==
    ASSUME StudioInv, Stable, NEW r \in Request, NEW j \in Job, Goes(r, j), Sound(job[r])',
           \A q \in Request \ {r} : job[q].pc = "write" => txn'[job[q].v] = "none"
    PROVE  JobsSound'
<1> SUFFICES ASSUME NEW q \in Request PROVE Sound(job[q])'
  BY DEF JobsSound
<1>1. CASE q = r
  BY <1>1
<1>2. CASE q # r
  <2>1. job'[q] = job[q]
    BY <1>2 DEF Goes, StudioInv, TypeOK
  <2> QED
    BY <1>2, <2>1, OthersSound
<1> QED
  BY <1>1, <1>2

\* The rows, when none is written.
LEMMA RowsStay ==
    ASSUME StudioInv, Stable, UNCHANGED <<rows, runtime>>, Unrepeated(tracks'),
           \A v \in Variation : txn'[v] = "ROLLED_BACK" => txn[v] = "ROLLED_BACK" \/ Gone(v)',
           \A v \in InLive' : txn'[v] # "none"
    PROVE  RowsTrue'
<1>1. RowsTrue /\ runtime \subseteq Variation
  BY DEF StudioInv, TypeOK
<1>2. \A v \in Variation : TrueRow(v, rows[v].status)'
  BY <1>1 DEF RowsTrue, Stable, TrueRow, Gone
<1>3. \A v \in Variation : Gone(v) /\ txn[v] # "none" => Gone(v)'
  BY DEF Stable, Gone
<1>4. \A v \in Variation : txn'[v] = "ROLLED_BACK" => Gone(v)'
  BY <1>1, <1>3 DEF RowsTrue
<1>5. \A v \in runtime \cup InLive' : txn'[v] # "none"
  BY <1>1 DEF RowsTrue, Stable
<1> QED
  BY <1>2, <1>4, <1>5 DEF RowsTrue

LEMMA IdleFacts == Idle \in Job /\ Idle.pc = "idle"
<1>1. NoRow \in Row
  BY DEF NoRow, Pending, Row
<1> QED
  BY <1>1 DEF Idle, Job, Producing

\* A step of request r that changes neither rows nor Live nor connections.
LEMMA Going ==
    ASSUME StudioInv, NEW r \in Request, NEW j \in Job, Goes(r, j), Sound(j),
           UNCHANGED <<rows, memory, live>>,
           touches' \in 0..MaxTouches, served' \in 0..MaxServed,
           j.pc \notin {"idle", "discards"} => j.v \in Variation,
           j.pc # "idle" /\ j.op \in Producing <=> Makes(r),
           Makes(r) => j.v = job[r].v
    PROVE  StudioInv'
<1> USE DEF memory, live
<1>1. TypeOK
  BY DEF StudioInv
<1>2. TypeOK'
  <2>1. job' \in [Request -> Job] /\ \A q \in Request :
            job'[q].pc # "idle" /\ job'[q].pc # "discards" => job'[q].v \in Variation
    BY <1>1, GoesFacts
  <2> QED
    BY <1>1, <2>1 DEF TypeOK
<1>3. Stable
  BY UnchangedIsStable
<1>4. JobsSound'
  <2>1. job'[r] = j
    BY <1>1, GoesFacts
  <2>2. Sound(job[r])'
    BY <2>1, Zenon DEF Sound, TrueRow, Gone, Fits, InLive
  <2>3. \A q \in Request \ {r} : job[q].pc = "write" => txn'[job[q].v] = "none"
    BY DEF StudioInv, JobsSound, Sound
  <2> QED
    BY <1>3, <2>2, <2>3, JobsStay
<1>5. RowsTrue'
  <2>1. RowsTrue
    BY DEF StudioInv
  <2> QED
    BY <2>1 DEF RowsTrue, TrueRow, Gone, InLive
<1>6. OwnConnection' /\ ConnectionsOwned'
  BY ConnectionsStay
<1>7. LinksTrue'
  BY LinksStay
<1> QED
  BY <1>2, <1>4, <1>5, <1>6, <1>7 DEF StudioInv, Connections

\* A step of r that fails, and changes no row.
LEMMA Failing ==
    ASSUME StudioInv, NEW r \in Request, job[r].pc # "idle", Raises(r), Stable,
           UNCHANGED <<rows, runtime, link, disk, bounds>>,
           txn' \in [Variation -> {"none", "VERIFIED", "ROLLED_BACK", "ROLLBACK_CONFLICT"}],
           \A v \in Variation : txn[v] = "none" => txn'[v] = "none",
           tracks' \in Seq(Variation), edited' \subseteq Variation, astray' \subseteq Variation,
           Unrepeated(tracks'),
           \A v \in Variation : txn'[v] = "ROLLED_BACK" => txn[v] = "ROLLED_BACK" \/ Gone(v)',
           \A v \in InLive' : txn'[v] # "none"
    PROVE  StudioInv'
<1> USE DEF bounds
<1>1. TypeOK
  BY DEF StudioInv
<1>2. Goes(r, Idle) /\ open' \subseteq open
  BY DEF Raises
<1>3. TypeOK'
  <2>1. job' \in [Request -> Job] /\ \A q \in Request :
            job'[q].pc # "idle" /\ job'[q].pc # "discards" => job'[q].v \in Variation
    BY <1>1, <1>2, GoesFacts, IdleFacts
  <2> QED
    BY <1>1, <1>2, <2>1 DEF TypeOK
<1>4. JobsSound'
  <2>1. Sound(job[r])'
    <3>1. job'[r] = Idle
      BY <1>1, <1>2, GoesFacts, IdleFacts
    <3> QED
      BY <3>1 DEF Idle, Sound, Fits
  <2>2. \A q \in Request \ {r} : job[q].pc = "write" => txn'[job[q].v] = "none"
    BY <1>1 DEF StudioInv, JobsSound, Sound, TypeOK
  <2> QED
    BY <1>2, <2>1, <2>2, JobsStay, IdleFacts
<1>5. RowsTrue'
  BY RowsStay
<1>6. OwnConnection' /\ ConnectionsOwned'
  BY ConnectionsClose
<1>7. LinksTrue'
  BY LinksStay
<1> QED
  BY <1>3, <1>4, <1>5, <1>6, <1>7 DEF StudioInv, Connections

-----------------------------------------------------------------------------
(* The steps that only move a request on.                                  *)

\* What a busy request works on.
LEMMA BusyFacts ==
    ASSUME StudioInv, NEW r \in Request
    PROVE  /\ job[r] \in Job /\ Sound(job[r]) /\ Fits(job[r])
           /\ job[r].pc \notin {"idle", "discards"} => job[r].v \in Variation
           /\ touches \in 0..MaxTouches /\ served \in 0..MaxServed
           /\ rows \in [Variation -> Row]
BY DEF StudioInv, TypeOK, JobsSound, Sound

LEMMA MovesOn ==
    ASSUME StudioInv, NEW r \in Request,
           Captured(r) \/ PreviewFails(r) \/ Readback(r) \/ ReadRows(r)
    PROVE  StudioInv'
<1> USE DEF bounds
<1>0. job[r] \in Job /\ Sound(job[r]) /\ Fits(job[r])
      /\ (job[r].pc \notin {"idle", "discards"} => job[r].v \in Variation)
      /\ touches \in 0..MaxTouches /\ served \in 0..MaxServed /\ rows \in [Variation -> Row]
  BY BusyFacts
<1>1. CASE Captured(r)
  <2> DEFINE j == [job[r] EXCEPT !.pc = "read", !.row = Pending("READY")]
  <2>1. j \in Job /\ j.pc = "read" /\ j.op = job[r].op /\ j.v = job[r].v /\ j.row.status = "READY"
        /\ Goes(r, j) /\ job[r].pc = "preview" /\ job[r].op = "produce"
        /\ UNCHANGED <<rows, memory, live, bounds>>
    BY <1>0, <1>1 DEF Captured, Job, Row, Pending, Producing, Fits
  <2>2. Sound(j)
    BY <1>0, <2>1 DEF Sound, Fits, TrueRow
  <2> QED
    BY <1>0, <2>1, <2>2, Going DEF Makes
<1>2. CASE PreviewFails(r)
  <2> DEFINE j == [job[r] EXCEPT !.pc = "undo", !.op = "fail"]
  <2>1. j \in Job /\ j.pc = "undo" /\ j.op = "fail" /\ j.v = job[r].v
        /\ Goes(r, j) /\ job[r].pc = "preview" /\ job[r].op = "produce"
        /\ UNCHANGED <<rows, memory, live, bounds>>
    BY <1>0, <1>2 DEF PreviewFails, Job, Producing, Fits
  <2>2. Sound(j)
    BY <1>0, <2>1 DEF Sound, Fits
  <2> QED
    BY <1>0, <2>1, <2>2, Going DEF Makes, Producing
<1>3. CASE Readback(r)
  <2> DEFINE j == [job[r] EXCEPT !.pc = "read", !.row = Decided("DISCARDED")]
  <2>1. j \in Job /\ j.pc = "read" /\ j.op = "discard" /\ j.v = job[r].v
        /\ j.row.status = "DISCARDED"
        /\ Goes(r, j) /\ job[r].pc = "readback" /\ job[r].op = "discard"
        /\ UNCHANGED <<rows, memory, live, bounds>>
    BY <1>0, <1>3 DEF Readback, Job, Row, Decided, Producing, Fits
  <2>2. Sound(j)
    BY <1>0, <2>1 DEF Sound, Fits, TrueRow
  <2> QED
    BY <1>0, <2>1, <2>2, Going DEF Makes, Producing
<1>4. CASE ReadRows(r)
  <2> DEFINE j == [job[r] EXCEPT !.pc = "put", !.list = rows]
  <2>1. j \in Job /\ j.pc = "put" /\ j.op = job[r].op /\ j.v = job[r].v /\ j.row = job[r].row
        /\ j.list = rows /\ Goes(r, j) /\ job[r].pc = "read"
        /\ UNCHANGED <<rows, memory, live, bounds>>
    BY <1>0, <1>4 DEF ReadRows, Job, Producing
  <2>2. Sound(j)
    <3>1. \A v \in Variation : TrueRow(v, j.list[v].status)
      BY <2>1 DEF StudioInv, RowsTrue
    <3> QED
      BY <1>0, <2>1, <3>1 DEF Sound, Fits
  <2> QED
    BY <1>0, <2>1, <2>2, Going DEF Makes
<1> QED
  BY <1>1, <1>2, <1>3, <1>4

\* Undone, after a rollback that left the candidate Gone.
LEMMA UndoneFacts ==
    ASSUME StudioInv, NEW r \in Request, job[r].pc \in {"undo", "strike"}, Undone(r)
    PROVE  \E j \in Job :
             /\ Goes(r, j)
             /\ j.v = job[r].v
             /\ \/ j.op = "fail" /\ job[r].op = "fail" /\ j.pc = "read" /\ j.row.status = "FAILED"
                \/ j.op = "discard" /\ job[r].op = "discard" /\ j.pc = "readback"
<1>0. job[r] \in Job /\ Fits(job[r])
  BY BusyFacts
<1>1. CASE job[r].op = "fail"
  <2> DEFINE j == [job[r] EXCEPT !.pc = "read", !.row = Pending("FAILED")]
  <2>1. j \in Job /\ j.v = job[r].v /\ j.op = "fail" /\ j.pc = "read" /\ j.row.status = "FAILED"
    BY <1>0, <1>1 DEF Job, Row, Pending, Producing
  <2>2. Goes(r, j)
    BY <1>1 DEF Undone
  <2> QED
    BY <1>1, <2>1, <2>2
<1>2. CASE job[r].op # "fail"
  <2> DEFINE j == [job[r] EXCEPT !.pc = "readback"]
  <2>1. j \in Job /\ j.v = job[r].v /\ j.op = "discard" /\ j.pc = "readback" /\ job[r].op = "discard"
    BY <1>0, <1>2 DEF Job, Producing, Fits
  <2>2. Goes(r, j)
    BY <1>2 DEF Undone
  <2> QED
    BY <2>1, <2>2
<1> QED
  BY <1>1, <1>2

LEMMA UndoStarts ==
    ASSUME StudioInv, NEW r \in Request, NothingToUndo(r) \/ Resolve(r)
    PROVE  StudioInv'
<1> USE DEF bounds
<1>0. job[r] \in Job /\ Sound(job[r]) /\ Fits(job[r])
      /\ (job[r].pc \notin {"idle", "discards"} => job[r].v \in Variation)
      /\ touches \in 0..MaxTouches /\ served \in 0..MaxServed
      /\ txn \in [Variation -> {"none", "VERIFIED", "ROLLED_BACK", "ROLLBACK_CONFLICT"}]
  BY BusyFacts DEF StudioInv, TypeOK
<1>1. CASE NothingToUndo(r)
  <2>1. job[r].pc = "undo" /\ txn[job[r].v] # "VERIFIED" /\ Undone(r)
        /\ UNCHANGED <<rows, memory, live, bounds>>
    BY <1>1 DEF NothingToUndo
  <2>2. PICK j \in Job :
             /\ Goes(r, j)
             /\ j.v = job[r].v
             /\ \/ j.op = "fail" /\ job[r].op = "fail" /\ j.pc = "read" /\ j.row.status = "FAILED"
                \/ j.op = "discard" /\ job[r].op = "discard" /\ j.pc = "readback"
    BY <2>1, UndoneFacts
  <2>3. txn[job[r].v] # "none" /\ Gone(job[r].v)
    <3>1. txn[job[r].v] \in {"ROLLED_BACK", "ROLLBACK_CONFLICT"}
      BY <1>0, <2>1 DEF Sound
    <3> QED
      BY <1>0, <2>1, <3>1 DEF StudioInv, RowsTrue, Gone
  <2>4. Sound(j)
    BY <2>2, <2>3 DEF Sound, Fits, TrueRow
  <2> QED
    BY <1>0, <2>1, <2>2, <2>4, Going DEF Makes, Producing
<1>2. CASE Resolve(r)
  <2>1. PICK i \in DOMAIN tracks : Goes(r, [job[r] EXCEPT !.pc = "strike", !.index = i])
    BY <1>2 DEF Resolve, Found, Own
  <2> DEFINE j == [job[r] EXCEPT !.pc = "strike", !.index = i]
  <2>2. i \in Nat
    BY DEF StudioInv, TypeOK
  <2>3. j \in Job /\ j.pc = "strike" /\ j.op = job[r].op /\ j.v = job[r].v /\ job[r].pc = "undo"
        /\ UNCHANGED <<rows, memory, live, bounds>>
    BY <1>0, <1>2, <2>2 DEF Resolve, Job, Producing
  <2>4. Sound(j)
    BY <1>0, <2>3 DEF Sound, Fits
  <2> QED
    BY <1>0, <2>1, <2>3, <2>4, Going DEF Makes
<1> QED
  BY <1>1, <1>2

LEMMA TakesFacts ==
    ASSUME StudioInv, NEW r \in Request, NEW j, Takes(r, j)
    PROVE  Goes(r, j) /\ job[r].pc = "idle" /\ served' \in 0..MaxServed
<1>1. served \in 0..MaxServed /\ MaxServed \in Nat
  BY VariationsAssumption DEF StudioInv, TypeOK
<1>2. served' = served + 1 /\ served < MaxServed
  BY DEF Takes
<1>3. served' \in 0..MaxServed
  BY <1>1, <1>2
<1> QED
  BY <1>3 DEF Takes

LEMMA Requested ==
    ASSUME StudioInv, NEW r \in Request,
           Discard(r) \/ \E v \in Variation : Keep(r, v) \/ Select(r, v)
    PROVE  StudioInv'
<1>0. /\ touches \in 0..MaxTouches
      /\ rows \in [Variation -> Row]
      /\ \A v \in Variation : TrueRow(v, rows[v].status)
  BY DEF StudioInv, TypeOK, RowsTrue
<1>1. ASSUME NEW v \in Variation, Keep(r, v) PROVE StudioInv'
  <2> DEFINE j == [Idle EXCEPT !.pc = "save", !.op = "keep", !.v = v, !.row = rows[v]]
  <2>1. /\ Goes(r, j) /\ job[r].pc = "idle" /\ served' \in 0..MaxServed /\ touches' = touches
        /\ UNCHANGED <<rows, memory, live>> /\ rows[v].status # "none"
    <3>1. Takes(r, j) /\ UNCHANGED <<rows, memory, live, touches>> /\ Reviewable(v)
      BY <1>1 DEF Keep
    <3> QED
      BY <3>1, TakesFacts DEF Reviewable
  <2>2. j \in Job /\ j.pc = "save" /\ j.op = "keep" /\ j.v = v /\ j.row = rows[v]
    BY <1>0, IdleFacts DEF Idle, Job
  <2>3. Sound(j)
    BY <1>0, <2>1, <2>2 DEF Sound, Fits, TrueRow
  <2> QED
    BY <1>0, <2>1, <2>2, <2>3, Going DEF Makes, Producing
<1>2. ASSUME NEW v \in Variation, Select(r, v) PROVE StudioInv'
  <2> DEFINE row == [rows[v] EXCEPT !.decision = "MUSICAL_ACCEPTED"]
             j == [Idle EXCEPT !.pc = "read", !.op = "select", !.v = v, !.row = row]
  <2>0. row \in Row /\ row.status = rows[v].status
    BY <1>0 DEF Row
  <2>1. /\ Goes(r, j) /\ job[r].pc = "idle" /\ served' \in 0..MaxServed /\ touches' = touches
        /\ UNCHANGED <<rows, memory, live>> /\ rows[v].status # "none"
    <3>1. Takes(r, j) /\ UNCHANGED <<rows, memory, live, touches>> /\ Reviewable(v)
      BY <1>2 DEF Select
    <3> QED
      BY <3>1, TakesFacts DEF Reviewable
  <2>2. j \in Job /\ j.pc = "read" /\ j.op = "select" /\ j.v = v /\ j.row = row
    BY <2>0, IdleFacts DEF Idle, Job
  <2>3. Sound(j)
    BY <1>0, <2>0, <2>1, <2>2 DEF Sound, Fits, TrueRow
  <2> QED
    BY <1>0, <2>1, <2>2, <2>3, Going DEF Makes, Producing
<1>3. CASE Discard(r)
  <2>1. PICK todo \in {{v} : v \in Variation} \cup {{v \in Variation : Reviewable(v)}} :
           Takes(r, [Idle EXCEPT !.pc = "discards", !.op = "discard", !.todo = todo])
    BY <1>3 DEF Discard
  <2> DEFINE j == [Idle EXCEPT !.pc = "discards", !.op = "discard", !.todo = todo]
  <2>2. todo \in SUBSET Variation
    OBVIOUS
  <2>3. /\ Goes(r, j) /\ job[r].pc = "idle" /\ served' \in 0..MaxServed /\ touches' = touches
        /\ UNCHANGED <<rows, memory, live>>
    <3>1. UNCHANGED <<rows, memory, live, touches>>
      BY <1>3 DEF Discard
    <3> QED
      BY <2>1, <3>1, TakesFacts
  <2>4. j \in Job /\ j.pc = "discards" /\ j.op = "discard"
    BY <2>2, IdleFacts DEF Idle, Job
  <2>5. Sound(j)
    BY <2>4 DEF Sound, Fits
  <2> QED
    BY <1>0, <2>3, <2>4, <2>5, Going DEF Makes, Producing
<1> QED
  BY <1>1, <1>2, <1>3

LEMMA Discards ==
    ASSUME StudioInv, NEW r \in Request, DiscardNext(r)
    PROVE  StudioInv'
<1> USE DEF bounds
<1>0. job[r] \in Job /\ Sound(job[r]) /\ Fits(job[r]) /\ job[r].pc = "discards"
      /\ job[r].op = "discard" /\ ~Makes(r)
      /\ touches \in 0..MaxTouches /\ served \in 0..MaxServed
      /\ UNCHANGED <<rows, memory, live, bounds>>
  BY BusyFacts DEF DiscardNext, Fits, Makes, Producing
<1>1. CASE Goes(r, Idle)
  <2>1. Sound(Idle)
    BY DEF Idle, Sound, Fits
  <2> QED
    BY <1>0, <1>1, <2>1, IdleFacts, Going
<1>2. CASE ~Goes(r, Idle)
  <2>1. PICK v \in job[r].todo :
            LET rest == job[r].todo \ {v} IN
            Goes(r, IF rows[v].status = "DISCARDED" THEN [job[r] EXCEPT !.todo = rest]
                    ELSE IF rows[v].status = "none" \/ v \notin runtime THEN Idle
                    ELSE [job[r] EXCEPT !.pc = "undo", !.v = v, !.todo = rest])
    BY <1>2 DEF DiscardNext
  <2> DEFINE rest == job[r].todo \ {v}
             next == [job[r] EXCEPT !.todo = rest]
             undo == [job[r] EXCEPT !.pc = "undo", !.v = v, !.todo = rest]
  <2>2. v \in Variation /\ rest \in SUBSET Variation
    BY <1>0 DEF Job
  <2>3. CASE rows[v].status = "DISCARDED"
    <3>1. Goes(r, next)
      BY <2>1, <2>3
    <3>2. next \in Job /\ next.pc = "discards" /\ next.op = "discard"
      BY <1>0, <2>2 DEF Job, Producing
    <3>3. Sound(next)
      BY <3>2 DEF Sound, Fits
    <3> QED
      BY <1>0, <3>1, <3>2, <3>3, Going DEF Producing
  <2>4. CASE rows[v].status # "DISCARDED"
    <3>1. Goes(r, undo) /\ v \in runtime
      BY <1>2, <2>1, <2>4
    <3>2. undo \in Job /\ undo.pc = "undo" /\ undo.op = "discard" /\ undo.v = v
      BY <1>0, <2>2 DEF Job, Producing
    <3>3. txn[v] # "none"
      BY <3>1 DEF StudioInv, RowsTrue
    <3>4. Sound(undo)
      BY <3>2, <3>3 DEF Sound, Fits
    <3> QED
      BY <1>0, <2>2, <3>1, <3>2, <3>4, Going DEF Producing
  <2> QED
    BY <2>3, <2>4
<1> QED
  BY <1>1, <1>2

LEMMA ProjectPut ==
    ASSUME StudioInv, NEW r \in Request, PutProject(r)
    PROVE  StudioInv'
<1> USE DEF bounds
<1>0. job[r] \in Job /\ Sound(job[r]) /\ Fits(job[r]) /\ job[r].pc = "project"
      /\ job[r].v \in Variation
      /\ touches \in 0..MaxTouches /\ served \in 0..MaxServed
      /\ UNCHANGED <<rows, memory, live, bounds>>
  BY BusyFacts DEF PutProject
<1>1. CASE job[r].op = "produce"
  <2> DEFINE j == [job[r] EXCEPT !.pc = "register"]
  <2>1. Goes(r, j)
    BY <1>1 DEF PutProject, To
  <2>2. j \in Job /\ j.pc = "register" /\ j.op = "produce" /\ j.v = job[r].v
    BY <1>0, <1>1 DEF Job, Producing
  <2>3. Sound(j)
    BY <1>0, <2>2 DEF Sound, Fits
  <2> QED
    BY <1>0, <1>1, <2>1, <2>2, <2>3, Going DEF Makes
<1>2. CASE job[r].op = "discard"
  <2> DEFINE j == [job[r] EXCEPT !.pc = "discards"]
  <2>1. Goes(r, j)
    BY <1>2 DEF PutProject, To
  <2>2. j \in Job /\ j.pc = "discards" /\ j.op = "discard"
    BY <1>0, <1>2 DEF Job, Producing
  <2>3. Sound(j)
    BY <2>2 DEF Sound, Fits
  <2> QED
    BY <1>0, <1>2, <2>1, <2>2, <2>3, Going DEF Makes, Producing
<1>3. CASE job[r].op \notin {"produce", "discard"}
  <2>1. Goes(r, Idle) /\ job[r].op \notin Producing
    BY <1>0, <1>3 DEF PutProject, Fits, Producing
  <2>2. Sound(Idle)
    BY DEF Idle, Sound, Fits
  <2> QED
    BY <1>0, <2>1, <2>2, IdleFacts, Going DEF Makes
<1> QED
  BY <1>1, <1>2, <1>3

-----------------------------------------------------------------------------
(* The steps that change Live.                                             *)

\* A step of request r that changes Live and no row or connection.
LEMMA Working ==
    ASSUME StudioInv, NEW r \in Request, NEW j \in Job, Goes(r, j), Stable, Sound(job[r])',
           UNCHANGED <<rows, runtime, open, link, bounds>>,
           j.pc \notin {"idle", "discards"} => j.v \in Variation,
           j.pc # "idle" /\ j.op \in Producing <=> Makes(r),
           Makes(r) => j.v = job[r].v,
           txn' \in [Variation -> {"none", "VERIFIED", "ROLLED_BACK", "ROLLBACK_CONFLICT"}],
           tracks' \in Seq(Variation), edited' \subseteq Variation, disk' \subseteq Variation,
           astray' \subseteq Variation,
           \A v \in Variation : txn[v] = "none" /\ link[v] = "none" => txn'[v] = "none",
           \A q \in Request \ {r} : job[q].pc = "write" => txn'[job[q].v] = "none",
           Unrepeated(tracks'),
           \A v \in Variation : txn'[v] = "ROLLED_BACK" => txn[v] = "ROLLED_BACK" \/ Gone(v)',
           \A v \in InLive' : txn'[v] # "none"
    PROVE  StudioInv'
<1> USE DEF bounds
<1>1. TypeOK
  BY DEF StudioInv
<1>2. TypeOK'
  <2>1. job' \in [Request -> Job] /\ \A q \in Request :
            job'[q].pc # "idle" /\ job'[q].pc # "discards" => job'[q].v \in Variation
    BY <1>1, GoesFacts
  <2> QED
    BY <1>1, <2>1 DEF TypeOK
<1>3. JobsSound'
  BY JobsStay
<1>4. RowsTrue'
  BY RowsStay
<1>5. OwnConnection' /\ ConnectionsOwned'
  BY ConnectionsStay
<1>6. LinksTrue'
  BY LinksStay
<1> QED
  BY <1>2, <1>3, <1>4, <1>5, <1>6 DEF StudioInv, Connections

LEMMA TrackFacts ==
    ASSUME StudioInv
    PROVE  /\ tracks \in Seq(Variation) /\ InLive \subseteq Variation
           /\ Unrepeated(tracks)
           /\ \A v \in InLive : txn[v] # "none"
           /\ \A i \in DOMAIN tracks : tracks[i] \in InLive
<1>1. tracks \in Seq(Variation)
  BY DEF StudioInv, TypeOK
<1> QED
  BY <1>1 DEF StudioInv, RowsTrue, InLive, ToSet

LEMMA Saved ==
    ASSUME StudioInv, NEW r \in Request, SaveVerified(r) \/ SaveUnverified(r)
    PROVE  StudioInv'
<1> USE DEF bounds, memory
<1>0. job[r] \in Job /\ Sound(job[r]) /\ Fits(job[r]) /\ job[r].pc = "save"
      /\ job[r].op = "keep" /\ job[r].v \in Variation /\ ~Makes(r) /\ TypeOK
  BY BusyFacts DEF SaveVerified, SaveUnverified, Fits, StudioInv, Makes, Producing
<1>1. /\ disk' \in {disk, InLive}
      /\ UNCHANGED <<rows, memory, tracks, edited, astray, bounds>>
  BY DEF SaveVerified, SaveUnverified
<1>2. Stable /\ disk' \subseteq Variation
  BY <1>0, <1>1, TrackFacts DEF Stable, InLive, TypeOK
<1>3. \A v \in InLive' : txn'[v] # "none"
  BY <1>1, TrackFacts DEF InLive
<1>4. \A q \in Request \ {r} : job[q].pc = "write" => txn'[job[q].v] = "none"
  BY <1>1 DEF StudioInv, JobsSound, Sound
<1>5. ASSUME NEW j \in Job, Goes(r, j), j.pc = "read", j.op = "keep", j.v = job[r].v,
             TrueRow(j.v, j.row.status)'
      PROVE  StudioInv'
  <2>1. job'[r] = j
    BY <1>0, <1>5 DEF Goes, TypeOK
  <2>2. txn[job[r].v] # "none"
    BY <1>0 DEF Sound
  <2>3. Sound(job[r])'
    BY <1>1, <1>5, <2>1, <2>2 DEF Sound, Fits
  <2> QED
    BY <1>0, <1>1, <1>2, <1>3, <1>4, <1>5, <2>3, TrackFacts, Working DEF Producing, TypeOK
<1>6. CASE SaveVerified(r)
  <2>1. [job[r] EXCEPT !.pc = "read", !.row = Decided("KEPT")] \in Job
    BY <1>0 DEF Job, Row, Decided, Producing
  <2>2. PICK j \in Job : j = [job[r] EXCEPT !.pc = "read", !.row = Decided("KEPT")]
    BY <2>1
  <2>3. Goes(r, j) /\ disk' = InLive
    BY <1>6, <2>2 DEF SaveVerified
  <2>4. j.pc = "read" /\ j.op = "keep" /\ j.v = job[r].v /\ j.row.status = "KEPT"
    BY <1>0, <2>2 DEF Job, Decided
  <2>5. TrueRow(j.v, "KEPT")'
    BY <1>0, <1>1, <2>3, <2>4 DEF TrueRow, Sound, InLive
  <2> QED
    BY <1>5, <2>3, <2>4, <2>5
<1>7. CASE SaveUnverified(r)
  <2>1. [job[r] EXCEPT !.pc = "read"] \in Job
    BY <1>0 DEF Job, Producing
  <2>2. PICK j \in Job : j = [job[r] EXCEPT !.pc = "read"]
    BY <2>1
  <2>3. Goes(r, j)
    BY <1>7, <2>2 DEF SaveUnverified, To
  <2>4. j.pc = "read" /\ j.op = "keep" /\ j.v = job[r].v /\ j.row = job[r].row
    BY <1>0, <2>2 DEF Job
  <2>5. TrueRow(j.v, j.row.status)
    BY <1>0, <2>4 DEF Sound
  <2>6. TrueRow(j.v, j.row.status)'
    BY <1>0, <1>1, <1>2, <2>4, <2>5 DEF TrueRow, Gone, Stable, InLive
  <2> QED
    BY <1>5, <2>3, <2>4, <2>6
<1> QED
  BY <1>6, <1>7

LEMMA Written ==
    ASSUME StudioInv, NEW r \in Request, SafeWrite(r)
    PROVE  StudioInv'
<1> USE DEF bounds
<1> DEFINE v0 == job[r].v
           j == [job[r] EXCEPT !.pc = "preview"]
<1>0. job[r] \in Job /\ Sound(job[r]) /\ Fits(job[r]) /\ job[r].pc = "write"
      /\ job[r].op = "produce" /\ v0 \in Variation /\ Makes(r) /\ TypeOK /\ txn[v0] = "none"
  BY BusyFacts DEF SafeWrite, Fits, StudioInv, Makes, Producing, Sound
<1>1. /\ Goes(r, j) /\ tracks' = Append(tracks, v0)
      /\ txn' = [txn EXCEPT ![v0] = "VERIFIED"] /\ link[v0] \in open
      /\ UNCHANGED <<rows, runtime, open, link, edited, disk, astray, bounds>>
  BY DEF SafeWrite, To, Connected
<1>2. j \in Job /\ j.pc = "preview" /\ j.op = "produce" /\ j.v = v0
  BY <1>0 DEF Job, Producing
<1>3. v0 \notin InLive
  BY <1>0, TrackFacts
<1>4. /\ tracks' \in Seq(Variation) /\ InLive' = InLive \cup {v0}
      /\ Unrepeated(tracks')
  BY <1>0, <1>1, <1>3, AppendFacts, TrackFacts DEF InLive
<1>5. /\ txn' \in [Variation -> {"none", "VERIFIED", "ROLLED_BACK", "ROLLBACK_CONFLICT"}]
      /\ txn'[v0] = "VERIFIED" /\ \A v \in Variation : v # v0 => txn'[v] = txn[v]
  BY <1>0, <1>1 DEF TypeOK
<1>6. Stable
  BY <1>0, <1>1, <1>4, <1>5 DEF Stable
<1>7. Sound(job[r])'
  <2>1. job'[r] = j
    BY <1>0, <1>1 DEF Goes, TypeOK
  <2> QED
    BY <1>2, <1>5, <2>1 DEF Sound, Fits
<1>8. \A v \in InLive' : txn'[v] # "none"
  BY <1>4, <1>5, TrackFacts
<1>9. ASSUME NEW q \in Request \ {r}, job[q].pc = "write" PROVE txn'[job[q].v] = "none"
  <2>1. Sound(job[q]) /\ job[q].v \in Variation /\ job[q].op \in Producing
    BY <1>0, <1>9, BusyFacts DEF Fits, Producing
  <2>2. job[q].v # v0
    BY <1>0, <1>9, <2>1 DEF StudioInv, Connections, OwnConnection, Makes
  <2> QED
    BY <1>5, <1>9, <2>1, <2>2 DEF Sound
<1>10. \A v \in Variation : txn[v] = "none" /\ link[v] = "none" => txn'[v] = "none"
  BY <1>0, <1>1, <1>5, VariationsAssumption DEF TypeOK
<1>11. edited' \subseteq Variation /\ disk' \subseteq Variation /\ astray' \subseteq Variation
  BY <1>0, <1>1 DEF TypeOK
<1>12. /\ j.pc # "idle" /\ j.op \in Producing <=> Makes(r)
       /\ j.pc \notin {"idle", "discards"} => j.v \in Variation
       /\ Makes(r) => j.v = job[r].v
  BY <1>0, <1>2 DEF Producing
<1>13. \A q \in Request \ {r} : job[q].pc = "write" => txn'[job[q].v] = "none"
  BY <1>9
<1>14. \A v \in Variation : txn'[v] = "ROLLED_BACK" => txn[v] = "ROLLED_BACK" \/ Gone(v)'
  BY <1>5
<1> HIDE DEF j
<1> QED
  BY <1>1, <1>2, <1>4, <1>5, <1>6, <1>7, <1>8, <1>10, <1>11, <1>12, <1>13, <1>14, Working

\* A track leaves Live.
LEMMA Removed ==
    ASSUME StudioInv, NEW i \in DOMAIN tracks, tracks' = RemoveAt(tracks, i)
    PROVE  /\ tracks' \in Seq(Variation) /\ Unrepeated(tracks')
           /\ InLive' \subseteq InLive /\ tracks[i] \notin InLive'
<1>1. tracks \in Seq(Variation) /\ Unrepeated(tracks)
  BY TrackFacts
<1>2. ToSet(RemoveAt(tracks, i)) \subseteq ToSet(tracks)
  BY <1>1, RemoveAtKeeps
<1>3. Unrepeated(RemoveAt(tracks, i)) /\ tracks[i] \notin ToSet(RemoveAt(tracks, i))
  BY <1>1, RemoveAtRemoves
<1>4. RemoveAt(tracks, i) \in Seq(Variation)
  BY <1>1, RemoveAtFacts
<1> QED
  BY <1>2, <1>3, <1>4 DEF InLive

LEMMA Struck ==
    ASSUME StudioInv, NEW r \in Request, Strike(r)
    PROVE  StudioInv'
<1> USE DEF bounds
<1> DEFINE i == job[r].index
<1>p. PICK v0 \in Variation : v0 = job[r].v
  BY BusyFacts DEF Strike
<1>0. v0 = job[r].v /\ job[r] \in Job /\ Sound(job[r]) /\ Fits(job[r]) /\ job[r].pc = "strike"
      /\ v0 \in Variation /\ TypeOK /\ txn[v0] # "none"
  BY <1>p, BusyFacts DEF Strike, StudioInv, Sound
<1>1. /\ i \in DOMAIN tracks /\ tracks' = RemoveAt(tracks, i)
      /\ astray' = IF tracks[i] = v0 THEN astray ELSE astray \cup {v0}
      /\ UNCHANGED <<rows, runtime, link, edited, disk, bounds>>
  BY <1>p DEF Strike
<1>2. /\ tracks' \in Seq(Variation) /\ Unrepeated(tracks')
      /\ InLive' \subseteq InLive /\ tracks[i] \notin InLive'
  BY <1>1, Removed
<1>3. v0 \notin InLive' \/ v0 \in astray'
  BY <1>1, <1>2
<1>4. astray \subseteq astray' /\ astray' \subseteq Variation
  BY <1>0, <1>1 DEF TypeOK
<1>5. CASE txn' = [txn EXCEPT ![v0] = "ROLLED_BACK"] /\ Undone(r) /\ UNCHANGED open
  <2>1. PICK j \in Job :
             /\ Goes(r, j)
             /\ j.v = job[r].v
             /\ \/ j.op = "fail" /\ job[r].op = "fail" /\ j.pc = "read" /\ j.row.status = "FAILED"
                \/ j.op = "discard" /\ job[r].op = "discard" /\ j.pc = "readback"
    BY <1>0, <1>5, UndoneFacts
  <2>2. /\ txn' \in [Variation -> {"none", "VERIFIED", "ROLLED_BACK", "ROLLBACK_CONFLICT"}]
        /\ txn'[v0] = "ROLLED_BACK" /\ \A v \in Variation : v # v0 => txn'[v] = txn[v]
    BY <1>0, <1>5 DEF TypeOK
  <2>3. Stable
    BY <1>0, <1>1, <1>2, <1>3, <1>4, <2>2 DEF Stable
  <2>4. Gone(v0)'
    BY <1>3 DEF Gone
  <2>5. Sound(job[r])'
    <3>1. job'[r] = j
      BY <1>0, <2>1 DEF Goes, TypeOK
    <3> QED
      BY <1>0, <2>1, <2>2, <2>4, <3>1 DEF Sound, Fits, TrueRow
  <2>6. \A v \in InLive' : txn'[v] # "none"
    BY <1>2, <2>2, TrackFacts
  <2>7. \A q \in Request \ {r} : job[q].pc = "write" => txn'[job[q].v] = "none"
    BY <1>0, <2>2, BusyFacts DEF Sound
  <2>8. \A v \in Variation : txn[v] = "none" => txn'[v] = "none"
    BY <1>0, <2>2
  <2>9. \A v \in Variation : txn'[v] = "ROLLED_BACK" => txn[v] = "ROLLED_BACK" \/ Gone(v)'
    BY <2>2, <2>4
  <2>10. /\ j.pc # "idle" /\ j.op \in Producing <=> Makes(r)
         /\ Makes(r) => j.v = job[r].v
    BY <1>0, <2>1 DEF Makes, Producing
  <2> QED
    BY <1>0, <1>1, <1>2, <1>4, <1>5, <2>1, <2>2, <2>3, <2>5, <2>6, <2>7, <2>8, <2>9, <2>10,
       Working DEF TypeOK
<1>6. CASE Raises(r) /\ UNCHANGED txn
  <2>1. Stable
    BY <1>1, <1>2, <1>4, <1>6 DEF Stable
  <2>2. \A v \in InLive' : txn'[v] # "none"
    BY <1>2, <1>6, TrackFacts
  <2> QED
    BY <1>0, <1>1, <1>2, <1>4, <1>6, <2>1, <2>2, Failing DEF TypeOK
<1> QED
  BY <1>5, <1>6, <1>p DEF Strike

\* The steps that fail and leave the tracks alone.
LEMMA Failed ==
    ASSUME StudioInv, NEW r \in Request, Conflict(r) \/ StrikeFails(r) \/ Breaks(r)
    PROVE  StudioInv'
<1> USE DEF bounds, live
<1>0. job[r].pc \notin {"idle", "discards"} /\ Raises(r) /\ TypeOK /\ Sound(job[r])
      /\ UNCHANGED <<rows, runtime, link, tracks, disk, astray, bounds>>
  BY BusyFacts DEF Conflict, StrikeFails, Breaks, StudioInv
<1>1. CASE Conflict(r)
  <2>1. job[r].v \in Variation /\ txn' = [txn EXCEPT ![job[r].v] = "ROLLBACK_CONFLICT"]
        /\ txn[job[r].v] = "VERIFIED" /\ edited' = edited
    BY <1>0, <1>1, BusyFacts DEF Conflict
  <2>2. /\ txn' \in [Variation -> {"none", "VERIFIED", "ROLLED_BACK", "ROLLBACK_CONFLICT"}]
        /\ txn'[job[r].v] = "ROLLBACK_CONFLICT"
        /\ \A v \in Variation : v # job[r].v => txn'[v] = txn[v]
    BY <1>0, <2>1 DEF TypeOK
  <2>3. Stable
    BY <1>0, <2>1, <2>2 DEF Stable, InLive
  <2>4. \A v \in InLive' : txn'[v] # "none"
    BY <1>0, <2>1, <2>2, TrackFacts DEF InLive
  <2>5. \A v \in Variation : txn'[v] = "ROLLED_BACK" => txn[v] = "ROLLED_BACK"
    BY <2>2
  <2>6. \A v \in Variation : txn[v] = "none" => txn'[v] = "none"
    BY <2>1, <2>2
  <2>7. edited' \subseteq Variation /\ astray' \subseteq Variation /\ tracks' \in Seq(Variation)
        /\ Unrepeated(tracks')
    BY <1>0, <2>1, TrackFacts DEF TypeOK
  <2> QED
    BY <1>0, <2>2, <2>3, <2>4, <2>5, <2>6, <2>7, Failing
<1>2. CASE StrikeFails(r) \/ Breaks(r)
  <2>1. txn' = txn
    BY <1>2 DEF StrikeFails, Breaks
  <2>2. edited' \subseteq Variation
    <3>1. \A i \in DOMAIN tracks : tracks[i] \in Variation
      BY TrackFacts
    <3> QED
      BY <1>0, <1>2, <3>1 DEF StrikeFails, Breaks, TypeOK
  <2>3. Stable
    BY <1>0, <2>1, UnchangedIsStable
  <2>4. \A v \in InLive' : txn'[v] # "none"
    BY <1>0, <2>1, TrackFacts DEF InLive
  <2>5. astray' \subseteq Variation /\ tracks' \in Seq(Variation) /\ Unrepeated(tracks')
        /\ txn' \in [Variation -> {"none", "VERIFIED", "ROLLED_BACK", "ROLLBACK_CONFLICT"}]
    BY <1>0, <2>1, TrackFacts DEF TypeOK
  <2> QED
    BY <1>0, <2>1, <2>2, <2>3, <2>4, <2>5, Failing
<1> QED
  BY <1>1, <1>2

\* The list that is written back is true: the rows read are, and so is the new one.
LEMMA ChangedIsTrue ==
    ASSUME StudioInv, NEW r \in Request, job[r].pc = "put"
    PROVE  /\ Changed(job[r]) \in [Variation -> Row]
           /\ \A v \in Variation : TrueRow(v, Changed(job[r])[v].status)
<1>1. job[r] \in Job /\ Sound(job[r]) /\ job[r].v \in Variation
  BY BusyFacts
<1>2. \A row \in Row : Demoted(row) \in Row /\ Demoted(row).status = row.status
  BY DEF Demoted, Row
<1>3. job[r].row \in Row /\ \A v \in Variation : job[r].list[v] \in Row
  BY <1>1 DEF Job
<1>4. \A v \in Variation : /\ Changed(job[r])[v] \in Row
                           /\ Changed(job[r])[v].status \in {job[r].list[v].status} \cup
                                 IF v = job[r].v THEN {job[r].row.status} ELSE {}
  BY <1>2, <1>3 DEF Changed
<1>5. TrueRow(job[r].v, job[r].row.status)
      /\ \A v \in Variation : TrueRow(v, job[r].list[v].status)
  BY <1>1 DEF Sound
<1>6. Changed(job[r]) \in [Variation -> Row]
  BY <1>4 DEF Changed
<1>7. ASSUME NEW v \in Variation PROVE TrueRow(v, Changed(job[r])[v].status)
  BY <1>4, <1>5, Zenon
<1> QED
  BY <1>6, <1>7

LEMMA Put ==
    ASSUME StudioInv, NEW r \in Request, PutRows(r)
    PROVE  StudioInv'
<1> USE DEF bounds, live
<1>0. job[r] \in Job /\ Sound(job[r]) /\ Fits(job[r]) /\ job[r].pc = "put"
      /\ job[r].v \in Variation /\ TypeOK /\ txn[job[r].v] # "none"
      /\ UNCHANGED <<runtime, link, txn, live, bounds>>
  BY BusyFacts DEF PutRows, StudioInv, Sound
<1>1. /\ rows' \in [Variation -> Row]
      /\ \A v \in Variation : TrueRow(v, rows'[v].status)
  BY <1>0, ChangedIsTrue DEF PutRows
<1>2. Stable
  BY <1>0, UnchangedIsStable
<1>3. RowsTrue'
  <2>1. RowsTrue
    BY DEF StudioInv
  <2> QED
    BY <1>0, <1>1, <2>1 DEF RowsTrue, TrueRow, Gone, InLive
<1>4. LinksTrue'
  BY <1>0, LinksStay
<1>5. \A q \in Request \ {r} : job[q].pc = "write" => txn'[job[q].v] = "none"
  BY <1>0, BusyFacts DEF Sound
<1>6. ASSUME NEW j \in Job, Goes(r, j), j.pc \notin {"idle", "discards"} => j.v \in Variation,
             Sound(j), open' \subseteq Variation, OwnConnection' /\ ConnectionsOwned'
      PROVE  StudioInv'
  <2>1. job' \in [Request -> Job] /\ job'[r] = j /\ \A q \in Request :
            job'[q].pc # "idle" /\ job'[q].pc # "discards" => job'[q].v \in Variation
    BY <1>0, <1>6, GoesFacts
  <2>2. TypeOK'
    BY <1>0, <1>1, <1>6, <2>1 DEF TypeOK
  <2>3. Sound(job[r])'
    BY <1>0, <1>6, <2>1, Zenon DEF Sound, TrueRow, Gone, Fits, InLive
  <2>4. JobsSound'
    BY <1>2, <1>5, <1>6, <2>3, JobsStay
  <2> QED
    BY <1>3, <1>4, <1>6, <2>2, <2>4 DEF StudioInv, Connections
<1>7. CASE job[r].op = "fail"
  <2>1. Raises(r)
    BY <1>7 DEF PutRows
  <2>2. OwnConnection' /\ ConnectionsOwned'
    BY <1>0, <2>1, ConnectionsClose
  <2>3. Goes(r, Idle) /\ open' \subseteq Variation
    BY <1>0, <2>1 DEF Raises, TypeOK
  <2>4. Sound(Idle)
    BY DEF Idle, Sound, Fits
  <2> QED
    BY <1>6, <2>2, <2>3, <2>4, IdleFacts
<1>8. CASE job[r].op # "fail"
  <2> DEFINE j == [job[r] EXCEPT !.pc = "project"]
  <2>1. Goes(r, j) /\ open' = open
    BY <1>8 DEF PutRows, To
  <2>2. j \in Job /\ j.pc = "project" /\ j.op = job[r].op /\ j.v = job[r].v
    BY <1>0 DEF Job, Producing
  <2>3. Sound(j)
    BY <1>0, <1>8, <2>2 DEF Sound, Fits
  <2>4. OwnConnection' /\ ConnectionsOwned'
    BY <1>0, <2>1, <2>2, ConnectionsStay DEF Makes
  <2>5. open' \subseteq Variation
    BY <1>0, <2>1 DEF TypeOK
  <2> HIDE DEF j
  <2> QED
    BY <1>0, <1>6, <2>1, <2>2, <2>3, <2>4, <2>5
<1> QED
  BY <1>7, <1>8

-----------------------------------------------------------------------------
(* The steps that draw an id or change the connections.                    *)

\* What is true of the candidates at work and of an id that was not drawn.
LEMMA MakerFacts ==
    ASSUME StudioInv
    PROVE  /\ \A q \in Request : Makes(q) => /\ job[q].v \in Variation \ runtime
                                             /\ link[job[q].v] \in open
                                             /\ link[job[q].v] \in Variation
           /\ \A v \in runtime : link[v] \in Variation
           /\ \A v \in Variation : link[v] = "none" =>
                /\ txn[v] = "none" /\ v \notin runtime
                /\ \A w \in Variation : link[w] # v
<1>1. TypeOK /\ LinksTrue /\ OwnConnection /\ RowsTrue /\ "none" \notin Variation
  BY VariationsAssumption DEF StudioInv, Connections
<1>2. ASSUME NEW q \in Request, Makes(q)
      PROVE  job[q].v \in Variation \ runtime /\ link[job[q].v] \in open
             /\ link[job[q].v] \in Variation
  <2>1. job[q].pc # "discards" /\ job[q].pc # "idle"
    BY <1>2, BusyFacts DEF Fits, Makes, Producing
  <2> QED
    BY <1>1, <1>2, <2>1 DEF OwnConnection, TypeOK
<1>3. \A v \in runtime : link[v] \in Variation
  BY <1>1 DEF TypeOK, RowsTrue, LinksTrue
<1>4. ASSUME NEW v \in Variation, link[v] = "none"
      PROVE  /\ txn[v] = "none" /\ v \notin runtime
             /\ \A w \in Variation : link[w] # v
  BY <1>1, <1>4 DEF RowsTrue, LinksTrue
<1> QED
  BY <1>2, <1>3, <1>4

\* The jobs and the rows, when a request goes on and Live is as it was.
LEMMA LiveStays ==
    ASSUME StudioInv, NEW r \in Request, NEW j \in Job, Goes(r, j), Sound(j),
           UNCHANGED <<rows, txn, live>>,
           runtime' \subseteq Variation, \A v \in runtime' : txn[v] # "none"
    PROVE  JobsSound' /\ RowsTrue'
<1> USE DEF live
<1>1. Stable /\ TypeOK
  BY UnchangedIsStable DEF StudioInv
<1>2. job'[r] = j
  BY <1>1 DEF Goes, TypeOK
<1>3. Sound(job[r])'
  BY <1>2, Zenon DEF Sound, TrueRow, Gone, Fits, InLive
<1>4. \A q \in Request \ {r} : job[q].pc = "write" => txn'[job[q].v] = "none"
  BY DEF StudioInv, JobsSound, Sound
<1>5. JobsSound'
  BY <1>1, <1>3, <1>4, JobsStay
<1>6. RowsTrue'
  <2>1. RowsTrue
    BY DEF StudioInv
  <2> QED
    BY <2>1 DEF RowsTrue, TrueRow, Gone, InLive
<1> QED
  BY <1>5, <1>6

LEMMA Produced ==
    ASSUME StudioInv, NEW r \in Request, NEW v \in Variation, NEW n \in Count, Produce(r, v, n)
    PROVE  StudioInv'
<1> DEFINE j == [Idle EXCEPT !.pc = "write", !.op = "produce", !.v = v, !.left = n - 1]
<1> USE DEF live
<1>0. TypeOK /\ Connections
  BY DEF StudioInv
<1>1. /\ link[v] = "none" /\ link' = [link EXCEPT ![v] = v] /\ open' = open \cup {v}
      /\ UNCHANGED <<rows, runtime, txn, live, touches>>
      /\ Goes(r, j) /\ job[r].pc = "idle" /\ served' \in 0..MaxServed
  BY TakesFacts DEF Produce
<1>2. j \in Job /\ j.pc = "write" /\ j.op = "produce" /\ j.v = v
  <2>1. n - 1 \in Nat
    BY VariationsAssumption
  <2> QED
    BY <2>1, IdleFacts DEF Idle, Job, Producing
<1> HIDE DEF j
<1>3. txn[v] = "none" /\ v \notin runtime /\ \A w \in Variation : link[w] # v
  BY <1>1, MakerFacts
<1>4. /\ link' \in [Variation -> Variation \cup {"none"}]
      /\ link'[v] = v /\ \A w \in Variation : w # v => link'[w] = link[w]
  BY <1>0, <1>1 DEF TypeOK
<1>5. /\ job' \in [Request -> Job] /\ job'[r] = j
      /\ \A q \in Request : q # r => job'[q] = job[q]
      /\ \A q \in Request : job'[q].pc # "idle" /\ job'[q].pc # "discards"
                               => job'[q].v \in Variation
  BY <1>0, <1>1, <1>2, GoesFacts
<1>6. TypeOK'
  BY <1>0, <1>1, <1>4, <1>5 DEF TypeOK
<1>7. JobsSound' /\ RowsTrue'
  <2>1. Sound(j)
    BY <1>2, <1>3 DEF Sound, Fits
  <2>2. \A w \in runtime' : txn[w] # "none"
    BY <1>1 DEF StudioInv, RowsTrue
  <2>3. runtime' \subseteq Variation
    BY <1>0, <1>1 DEF TypeOK
  <2> QED
    BY <1>1, <1>2, <2>1, <2>2, <2>3, LiveStays
<1>8. LinksTrue'
  BY <1>0, <1>1, <1>3, <1>4 DEF LinksTrue, Connections, TypeOK
<1>9. /\ ~Makes(r) /\ Makes(r)' /\ job'[r].v = v
      /\ \A q \in Request : q # r => (Makes(q)' <=> Makes(q)) /\ job'[q].v = job[q].v
  BY <1>1, <1>2, <1>5 DEF Makes, Producing
<1>10. \A q \in Request : q # r /\ Makes(q) =>
          /\ job[q].v # v /\ link'[job[q].v] = link[job[q].v] /\ link[job[q].v] # v
          /\ job[q].v \notin runtime /\ link[job[q].v] \in open
  BY <1>1, <1>3, <1>4, MakerFacts, VariationsAssumption
<1>11. OwnConnection'
  <2>1. ASSUME NEW q \in Request, Makes(q)'
        PROVE  /\ link'[job'[q].v] \in open'
               /\ job'[q].v \notin runtime'
               /\ \A p \in Request : Makes(p)' /\ link'[job'[p].v] = link'[job'[q].v] => p = q
    <3>1. CASE q = r
      BY <1>1, <1>3, <1>4, <1>9, <1>10, <3>1
    <3>2. CASE q # r
      <4>1. \A p \in Request : Makes(p) /\ link[job[p].v] = link[job[q].v] => p = q
        BY <1>0, <1>9, <2>1, <3>2 DEF Connections, OwnConnection
      <4> QED
        BY <1>1, <1>3, <1>4, <1>9, <1>10, <2>1, <3>2, <4>1
    <3> QED
      BY <3>1, <3>2
  <2> QED
    BY <2>1 DEF OwnConnection
<1>12. ConnectionsOwned'
  <2>1. ASSUME NEW c \in open'
        PROVE  \/ \E w \in runtime' : link'[w] = c
               \/ \E q \in Request : Makes(q)' /\ link'[job'[q].v] = c
    <3>1. CASE c = v
      BY <1>4, <1>9, <3>1
    <3>2. CASE c \in open
      <4>1. \/ \E w \in runtime : link[w] = c
            \/ \E q \in Request : Makes(q) /\ link[job[q].v] = c
        BY <1>0, <3>2 DEF Connections, ConnectionsOwned, Makes
      <4>2. \A w \in runtime : w \in runtime' /\ link'[w] = link[w]
        BY <1>0, <1>1, <1>3, <1>4 DEF TypeOK
      <4> QED
        BY <1>9, <1>10, <4>1, <4>2
    <3> QED
      BY <1>1, <3>1, <3>2
  <2>2. ASSUME NEW u \in runtime'
        PROVE  link'[u] \in open' \/ \E w \in Variation \ {u} : link'[w] = link'[u]
    <3>1. u \in runtime /\ u \in Variation /\ u # v /\ link'[u] = link[u] /\ link[u] # "none"
      BY <1>0, <1>1, <1>3, <1>4, <2>2, MakerFacts, VariationsAssumption DEF TypeOK
    <3>2. link[u] \in open \/ \E w \in Variation \ {u} : link[w] = link[u]
      BY <1>0, <3>1 DEF Connections, ConnectionsOwned
    <3>3. \A w \in Variation : link[w] = link[u] => link'[w] = link[w]
      BY <1>1, <1>4, <3>1
    <3> QED
      BY <1>1, <3>1, <3>2, <3>3
  <2> QED
    BY <2>1, <2>2 DEF ConnectionsOwned, Makes
<1> QED
  BY <1>6, <1>7, <1>8, <1>11, <1>12 DEF StudioInv, Connections

LEMMA RestartKeeps ==
    ASSUME StudioInv, Restart
    PROVE  StudioInv'
<1> USE DEF bounds, live
<1>1. /\ job' = [r \in Request |-> Idle] /\ runtime' = {} /\ open' = {}
      /\ UNCHANGED <<rows, link, txn, live, bounds>>
  BY DEF Restart
<1>2. \A r \in Request : job'[r] = Idle /\ job'[r].pc = "idle"
  BY <1>1, IdleFacts
<1>3. TypeOK'
  BY <1>1, <1>2, IdleFacts DEF StudioInv, TypeOK
<1>4. JobsSound'
  BY <1>2 DEF JobsSound, Sound, Fits
<1>5. RowsTrue'
  <2>1. RowsTrue
    BY DEF StudioInv
  <2> QED
    BY <1>1, <2>1 DEF RowsTrue, TrueRow, Gone, InLive
<1>6. LinksTrue'
  BY <1>1, LinksStay
<1>7. OwnConnection' /\ ConnectionsOwned'
  BY <1>1, <1>2 DEF OwnConnection, ConnectionsOwned, Makes
<1> QED
  BY <1>3, <1>4, <1>5, <1>6, <1>7 DEF StudioInv, Connections

LEMMA EditKeeps ==
    ASSUME StudioInv, UserEdits
    PROVE  StudioInv'
<1> USE DEF memory
<1>1. /\ touches < MaxTouches /\ touches' = touches + 1
      /\ UNCHANGED <<rows, job, memory, disk, astray, served>>
  BY DEF UserEdits
<1>2. PICK i \in DOMAIN tracks :
         \/ edited' = edited \cup {tracks[i]} /\ UNCHANGED tracks
         \/ tracks' = RemoveAt(tracks, i) /\ UNCHANGED edited
  BY DEF UserEdits
<1>3. tracks' \in Seq(Variation) /\ Unrepeated(tracks') /\ InLive' \subseteq InLive
      /\ edited' \subseteq Variation
  <2>1. CASE edited' = edited \cup {tracks[i]} /\ UNCHANGED tracks
    <3>1. edited \subseteq Variation /\ tracks[i] \in Variation
      BY TrackFacts DEF StudioInv, TypeOK
    <3> QED
      BY <2>1, <3>1, TrackFacts DEF InLive
  <2>2. CASE tracks' = RemoveAt(tracks, i) /\ UNCHANGED edited
    BY <2>2, Removed DEF StudioInv, TypeOK
  <2> QED
    BY <1>2, <2>1, <2>2
<1>4. Stable
  BY <1>1, <1>3 DEF Stable
<1>5. touches' \in 0..MaxTouches
  <2>1. touches \in 0..MaxTouches /\ MaxTouches \in Nat
    BY VariationsAssumption DEF StudioInv, TypeOK
  <2> QED
    BY <1>1, <2>1
<1>6. TypeOK'
  BY <1>1, <1>3, <1>5 DEF StudioInv, TypeOK
<1>7. JobsSound'
  <2>1. ASSUME NEW q \in Request PROVE Sound(job[q])'
    <3>1. Sound(job[q])
      BY BusyFacts
    <3> QED
      BY <1>1, <1>4, <3>1, OthersSound DEF Sound
  <2> QED
    BY <2>1 DEF JobsSound
<1>8. RowsTrue'
  <2>1. \A v \in InLive' : txn'[v] # "none"
    BY <1>1, <1>3, TrackFacts
  <2> QED
    BY <1>1, <1>3, <1>4, <2>1, RowsStay
<1>9. LinksTrue'
  BY <1>1, LinksStay
<1>10. OwnConnection' /\ ConnectionsOwned'
  BY <1>1 DEF StudioInv, Connections, OwnConnection, ConnectionsOwned, Makes
<1> QED
  BY <1>6, <1>7, <1>8, <1>9, <1>10 DEF StudioInv, Connections

LEMMA Registered ==
    ASSUME StudioInv, NEW r \in Request, Register(r)
    PROVE  StudioInv'
<1> USE DEF live, bounds
<1> DEFINE v0 == job[r].v
<1>0. TypeOK /\ Connections /\ job[r] \in Job /\ Sound(job[r]) /\ v0 \in Variation
      /\ job[r].pc = "register" /\ job[r].op = "produce" /\ Makes(r) /\ txn[v0] # "none"
      /\ UNCHANGED <<rows, open, txn, live, bounds>> /\ runtime' = runtime \cup {v0}
  BY BusyFacts DEF Register, StudioInv, Fits, Makes, Producing, Sound
<1>1. v0 \notin runtime /\ link[v0] \in open /\ link[v0] \in Variation
  BY <1>0, MakerFacts
<1>2. runtime' \subseteq Variation /\ \A w \in runtime' : txn[w] # "none"
  BY <1>0 DEF StudioInv, RowsTrue, TypeOK
<1>3. \A q \in Request : q # r /\ Makes(q) =>
         /\ job[q].v \in Variation \ (runtime \cup {v0}) /\ link[job[q].v] # link[v0]
         /\ link[job[q].v] \in open
  <2>1. \A q \in Request : q # r /\ Makes(q) => link[job[q].v] # link[v0]
    BY <1>0 DEF Connections, OwnConnection
  <2> QED
    BY <2>1, MakerFacts
<1>4. CASE Goes(r, Idle) /\ UNCHANGED link
  <2>1. /\ job' \in [Request -> Job] /\ job'[r] = Idle
        /\ \A q \in Request : q # r => job'[q] = job[q]
        /\ \A q \in Request : job'[q].pc # "idle" /\ job'[q].pc # "discards"
                                 => job'[q].v \in Variation
    BY <1>0, <1>4, IdleFacts, GoesFacts
  <2>2. TypeOK'
    BY <1>0, <1>2, <1>4, <2>1 DEF TypeOK
  <2>3. JobsSound' /\ RowsTrue'
    <3>1. Sound(Idle)
      BY DEF Idle, Sound, Fits
    <3> QED
      BY <1>0, <1>2, <1>4, <3>1, IdleFacts, LiveStays
  <2>4. LinksTrue'
    BY <1>0, <1>4, LinksStay
  <2>5. \A q \in Request : Makes(q)' <=> q # r /\ Makes(q)
    BY <2>1, IdleFacts DEF Makes
  <2>6. OwnConnection'
    <3>1. ASSUME NEW q \in Request, Makes(q)'
          PROVE  /\ link'[job'[q].v] \in open'
                 /\ job'[q].v \notin runtime'
                 /\ \A p \in Request : Makes(p)' /\ link'[job'[p].v] = link'[job'[q].v] => p = q
      <4>1. \A p \in Request : Makes(p) /\ link[job[p].v] = link[job[q].v] => p = q
        BY <1>0, <2>5, <3>1 DEF Connections, OwnConnection
      <4> QED
        BY <1>0, <1>3, <1>4, <2>1, <2>5, <3>1, <4>1
    <3> QED
      BY <3>1 DEF OwnConnection
  <2>7. ConnectionsOwned'
    <3>1. ASSUME NEW c \in open
          PROVE  \/ \E w \in runtime' : link'[w] = c
                 \/ \E q \in Request : Makes(q)' /\ link'[job'[q].v] = c
      <4>1. \/ \E w \in runtime : link[w] = c
            \/ \E q \in Request : Makes(q) /\ link[job[q].v] = c
        BY <1>0 DEF Connections, ConnectionsOwned, Makes
      <4> QED
        BY <1>0, <1>4, <2>1, <2>5, <4>1
    <3>2. \A u \in runtime' : link'[u] \in open' \/ \E w \in Variation \ {u} : link'[w] = link'[u]
      BY <1>0, <1>1, <1>4 DEF Connections, ConnectionsOwned
    <3> QED
      BY <1>0, <3>1, <3>2 DEF ConnectionsOwned, Makes
  <2> QED
    BY <2>2, <2>3, <2>4, <2>6, <2>7 DEF StudioInv, Connections
<1>5. ASSUME NEW v \in Variation, job[r].left > 0, link[v] = "none",
             Goes(r, [job[r] EXCEPT !.pc = "write", !.v = v, !.left = @ - 1]),
             link' = [link EXCEPT ![v] = link[v0]]
      PROVE  StudioInv'
  <2> DEFINE j == [job[r] EXCEPT !.pc = "write", !.v = v, !.left = @ - 1]
  <2>1. Goes(r, j) /\ j \in Job /\ j.pc = "write" /\ j.op = "produce" /\ j.v = v
    <3>1. job[r].left - 1 \in Nat
      BY <1>0, <1>5 DEF Job
    <3>2. j \in Job /\ j.pc = "write" /\ j.op = "produce" /\ j.v = v
      BY <1>0, <3>1 DEF Job, Producing
    <3> QED
      BY <1>5, <3>2
  <2> HIDE DEF j
  <2>2. txn[v] = "none" /\ v \notin runtime /\ v # v0 /\ \A w \in Variation : link[w] # v
    BY <1>0, <1>5, MakerFacts
  <2>3. /\ link' \in [Variation -> Variation \cup {"none"}]
        /\ link'[v] = link[v0] /\ \A w \in Variation : w # v => link'[w] = link[w]
    BY <1>0, <1>1, <1>5 DEF TypeOK
  <2>4. /\ job' \in [Request -> Job] /\ job'[r] = j
        /\ \A q \in Request : q # r => job'[q] = job[q]
        /\ \A q \in Request : job'[q].pc # "idle" /\ job'[q].pc # "discards"
                                 => job'[q].v \in Variation
    BY <1>0, <2>1, GoesFacts
  <2>5. TypeOK'
    BY <1>0, <1>2, <2>3, <2>4 DEF TypeOK
  <2>6. JobsSound' /\ RowsTrue'
    <3>1. Sound(j)
      BY <2>1, <2>2 DEF Sound, Fits
    <3> QED
      BY <1>0, <1>2, <2>1, <3>1, LiveStays
  <2>7. LinksTrue'
    <3>1. LinksTrue /\ link[link[v0]] = link[v0]
      BY <1>0, <1>1, VariationsAssumption DEF Connections, LinksTrue
    <3>2. ASSUME NEW w \in Variation
          PROVE  /\ link'[w] = "none" => txn'[w] = "none"
                 /\ link'[w] # "none" => link'[link'[w]] = link'[w]
      <4>1. CASE w = v
        BY <1>0, <1>1, <2>2, <2>3, <3>1, <4>1
      <4>2. CASE w # v
        <5>1. link[w] \in Variation \cup {"none"} /\ link[w] # v
          BY <1>0, <2>2 DEF TypeOK
        <5> QED
          BY <1>0, <2>3, <3>1, <4>2, <5>1 DEF LinksTrue
      <4> QED
        BY <4>1, <4>2
    <3> QED
      BY <3>2 DEF LinksTrue
  <2>8. /\ Makes(r)' /\ job'[r].v = v
        /\ \A q \in Request : q # r => (Makes(q)' <=> Makes(q)) /\ job'[q].v = job[q].v
    BY <2>1, <2>4 DEF Makes, Producing
  <2>9. \A q \in Request : q # r /\ Makes(q) =>
           /\ job[q].v # v /\ link'[job[q].v] = link[job[q].v]
    BY <1>3, <1>5, <2>3, MakerFacts, VariationsAssumption
  <2>10. OwnConnection'
    <3>1. ASSUME NEW q \in Request, Makes(q)'
          PROVE  /\ link'[job'[q].v] \in open'
                 /\ job'[q].v \notin runtime'
                 /\ \A p \in Request : Makes(p)' /\ link'[job'[p].v] = link'[job'[q].v] => p = q
      <4>1. CASE q = r
        BY <1>0, <1>1, <1>3, <2>2, <2>3, <2>8, <2>9, <4>1
      <4>2. CASE q # r
        <5>1. \A p \in Request : Makes(p) /\ link[job[p].v] = link[job[q].v] => p = q
          BY <1>0, <2>8, <3>1, <4>2 DEF Connections, OwnConnection
        <5> QED
          BY <1>0, <1>3, <2>3, <2>8, <2>9, <3>1, <4>2, <5>1
      <4> QED
        BY <4>1, <4>2
    <3> QED
      BY <3>1 DEF OwnConnection
  <2>11. ConnectionsOwned'
    <3>1. ASSUME NEW c \in open
          PROVE  \/ \E w \in runtime' : link'[w] = c
                 \/ \E q \in Request : Makes(q)' /\ link'[job'[q].v] = c
      <4>1. \/ \E w \in runtime : link[w] = c
            \/ \E q \in Request : Makes(q) /\ link[job[q].v] = c
        BY <1>0 DEF Connections, ConnectionsOwned, Makes
      <4>2. \A w \in runtime : w \in runtime' /\ link'[w] = link[w]
        BY <1>0, <2>2, <2>3 DEF TypeOK
      <4> QED
        BY <2>3, <2>8, <2>9, <4>1, <4>2
    <3>2. ASSUME NEW u \in runtime'
          PROVE  link'[u] \in open' \/ \E w \in Variation \ {u} : link'[w] = link'[u]
      <4>1. CASE u = v0
        BY <1>0, <1>1, <2>2, <2>3, <4>1
      <4>2. CASE u \in runtime
        <5>1. u \in Variation /\ u # v /\ link'[u] = link[u] /\ link[u] # "none"
          BY <1>0, <2>2, <2>3, <4>2, MakerFacts, VariationsAssumption DEF TypeOK
        <5>2. link[u] \in open \/ \E w \in Variation \ {u} : link[w] = link[u]
          BY <1>0, <4>2 DEF Connections, ConnectionsOwned
        <5>3. \A w \in Variation : link[w] = link[u] => link'[w] = link[w]
          BY <1>5, <2>3, <5>1
        <5> QED
          BY <1>0, <5>1, <5>2, <5>3
      <4> QED
        BY <1>0, <3>2, <4>1, <4>2
    <3> QED
      BY <1>0, <3>1, <3>2 DEF ConnectionsOwned, Makes
  <2> QED
    BY <2>5, <2>6, <2>7, <2>10, <2>11 DEF StudioInv, Connections
<1> QED
  BY <1>4, <1>5 DEF Register

-----------------------------------------------------------------------------
(* The theorems.                                                           *)

LEMMA StudioStart == Init => StudioInv
<1> SUFFICES ASSUME Init PROVE StudioInv
  OBVIOUS
<1> USE DEF Init
<1>1. TypeOK
  <2>1. NoRow \in Row
    BY DEF NoRow, Pending, Row
  <2>2. <<>> \in Seq(Variation)
    OBVIOUS
  <2>3. 0 \in 0..MaxTouches /\ 0 \in 0..MaxServed
    BY VariationsAssumption
  <2> QED
    BY <2>1, <2>2, <2>3, IdleFacts DEF TypeOK
<1>2. JobsSound
  BY IdleFacts DEF JobsSound, Sound, Fits
<1>3. RowsTrue
  BY DEF RowsTrue, TrueRow, NoRow, Pending, InLive, ToSet, Unrepeated
<1>4. Connections
  BY IdleFacts DEF Connections, LinksTrue, OwnConnection, ConnectionsOwned, Makes
<1> QED
  BY <1>1, <1>2, <1>3, <1>4 DEF StudioInv

LEMMA StudioStep == StudioInv /\ [Next]_vars => StudioInv'
<1> SUFFICES ASSUME StudioInv, [Next]_vars PROVE StudioInv'
  OBVIOUS
<1>1. CASE UNCHANGED vars
  BY <1>1 DEF vars, memory, live, bounds, StudioInv, TypeOK, JobsSound, Sound, RowsTrue, TrueRow,
     Gone, InLive, Connections, LinksTrue, OwnConnection, ConnectionsOwned, Makes
<1>2. ASSUME NEW r \in Request, Serve(r) PROVE StudioInv'
  BY <1>2, MovesOn, UndoStarts, Requested, Discards, ProjectPut, Saved, Written, Struck, Failed,
     Put, Produced, Registered DEF Serve
<1> QED
  BY <1>1, <1>2, RestartKeeps, EditKeeps DEF Next

\* Every reachable state of the Studio has the invariant: the rows stored, read or
\* in hand are true of Live, and every connection has its owner.
THEOREM VariationsCorrect == Spec => []StudioInv
BY StudioStart, StudioStep, PTL DEF Spec

\* Type correctness of service.py's rows, runtime and requests.
THEOREM VariationsTyped == Spec => []TypeOK
<1>1. StudioInv => TypeOK
  BY DEF StudioInv
<1> QED
  BY <1>1, VariationsCorrect, PTL

\* A candidate told as failed or discarded is gone, but for a conflict or a
\* deletion that went astray (fail_preview, variation_action).
THEOREM ToldGoneIsTrue == Spec => []ToldGone
<1>1. StudioInv => ToldGone
  BY DEF StudioInv, RowsTrue, TrueRow, Gone, ToldGone
<1> QED
  BY <1>1, VariationsCorrect, PTL

\* A candidate told as kept is in the saved set while it is in Live
\* (persist_working_copy, variation_action).
THEOREM KeptIsSaved == Spec => []KeptIsOnDisk
<1>1. StudioInv => KeptIsOnDisk
  BY DEF StudioInv, RowsTrue, TrueRow, KeptIsOnDisk
<1> QED
  BY <1>1, VariationsCorrect, PTL

\* No failure of produce_generate leaves a connection without an owner.
THEOREM NoConnectionLeaks == Spec => []ConnectionsOwned
<1>1. StudioInv => ConnectionsOwned
  BY DEF StudioInv, Connections
<1> QED
  BY <1>1, VariationsCorrect, PTL
=============================================================================
