-------------------------- MODULE CapturePassProofs --------------------------
(***************************************************************************)
(* What a capture pass promises, for every number of hosts: types, the     *)
(* verdicts of the journals, what a captured row means, and that the hosts *)
(* are told back whatever happens.                                         *)
(***************************************************************************)
EXTENDS CapturePass, SequenceTheorems, TLAPS

USE HostsAssumption

\* A write to a host's routing; the writes that reach hosts and those that reach
\* Main touch different places; a recorder switched off.
HostWrite == {w \in Write : w.at \subseteq Host /\ w.field \in Routing}
Proper == {w \in Write : /\ Main \in w.at => w.field \in {"rec", "playing"}
                         /\ w.at \cap Host # {} => w.field # "playing"}
RecOff == {w \in Write : w.field = "rec" /\ ~w.on}

-----------------------------------------------------------------------------
(* The writes.                                                             *)

LEMMA WidthIsHost == Width \in Nat /\ 1 <= Width /\ Width <= N /\ Hosts \subseteq Host
  BY DEF Width, Hosts, Host

LEMMA MainIsNoHost == Main \in Place /\ Main \notin Host /\ Host \subseteq Place
  BY DEF Main, Host, Place

LEMMA RestoreIndex ==
    ASSUME NEW k \in Nat, NEW i \in 1..(3 * k)
    PROVE  1 + ((i - 1) \div 3) \in 1..k /\ 1 + ((i - 1) % 3) \in 1..3
  OBVIOUS

LEMMA RestoreHostType ==
    ASSUME before \in [Host -> SUBSET Routing], NEW h \in Host
    PROVE  /\ RestoreHost(h) \in Seq(HostWrite)
           /\ \A k \in 1..3 : RestoreHost(h)[k] \in HostWrite
  BY MainIsNoHost DEF RestoreHost, HostWrite, Put, Write, Field, Routing

LEMMA RestoreWritesType ==
    ASSUME before \in [Host -> SUBSET Routing], prepared \in 0..N
    PROVE  RestoreWrites \in Seq(HostWrite)
<1>1. \A i \in 1..(3 * prepared) :
         RestoreHost(1 + ((i - 1) \div 3))[1 + ((i - 1) % 3)] \in HostWrite
  BY RestoreIndex, RestoreHostType DEF Host
<1>2. 3 * prepared \in Nat
  OBVIOUS
<1> QED BY <1>1, <1>2 DEF RestoreWrites

LEMMA SingleRestore ==
    ASSUME prepared = 1
    PROVE  RestoreWrites = RestoreHost(1)
  BY DEF RestoreWrites, RestoreHost

LEMMA HostWriteIsProper == HostWrite \subseteq Proper /\ Proper \subseteq Write
  BY MainIsNoHost DEF HostWrite, Proper, Routing

LEMMA SeqMonotone ==
    ASSUME NEW S, NEW T, S \subseteq T, NEW s \in Seq(S)
    PROVE  s \in Seq(T)
<1>1. Len(s) \in Nat /\ s \in [1..Len(s) -> S]
  OBVIOUS
<1>2. s \in [1..Len(s) -> T]
  BY <1>1
<1> QED BY <1>1, <1>2

LEMMA TailType ==
    ASSUME NEW S, NEW s \in Seq(S), s # <<>>
    PROVE  Head(s) \in S /\ Tail(s) \in Seq(S)
  OBVIOUS

LEMMA TwoInRow ==
    ASSUME NEW S, NEW a \in S, NEW b \in S
    PROVE  <<a>> \o <<b>> = <<a, b>> /\ <<a>> \o <<>> = <<a>>
<1>1. <<a>> \in Seq(S) /\ <<b>> \in Seq(S) /\ <<a, b>> \in Seq(S)
  OBVIOUS
<1>2. <<a>> \o <<b>> \in Seq(S) /\ Len(<<a>> \o <<b>>) = 2
  BY <1>1
<1>3. \A i \in 1..2 : (<<a>> \o <<b>>)[i] = <<a, b>>[i]
  BY <1>1
<1>4. \A s, t \in Seq(S) : Len(s) = Len(t) /\ (\A i \in 1..Len(s) : s[i] = t[i]) => s = t
  BY SeqEqual
<1>5. <<a>> \o <<b>> = <<a, b>>
  BY <1>1, <1>2, <1>3, <1>4
<1>6. <<a>> \o <<>> = <<a>>
  OBVIOUS
<1> QED BY <1>5, <1>6

LEMMA TransportProper ==
    /\ Stop \in Proper /\ Play \in Proper
    /\ Stop.at = {Main} /\ Stop.field = "playing" /\ Play.at = {Main} /\ Play.field = "playing"
  BY MainIsNoHost DEF Stop, Play, Put, Proper, Write, Field

LEMMA DisarmProper ==
    /\ Disarm \in Proper /\ Disarm \in RecOff /\ Disarm.at = Taps /\ Disarm.field = "rec"
    /\ Put(Taps, "rec", TRUE) \in Proper
    /\ Put(Taps, "rec", FALSE) = Disarm
  BY WidthIsHost, MainIsNoHost DEF Disarm, Put, Proper, RecOff, Write, Field, Taps

LEMMA DisarmEachType ==
    DisarmEach \in Seq(RecOff) /\ DisarmEach \in Seq(Proper)
<1>1. \A i \in 1..(Width + 1) : Put({i - 1}, "rec", FALSE) \in RecOff \cap Proper
  <2> TAKE i \in 1..(Width + 1)
  <2>1. i - 1 \in Place
    BY WidthIsHost DEF Place, Host, Main
  <2> QED BY <2>1 DEF Put, Proper, RecOff, Write, Field
<1>2. Width + 1 \in Nat
  BY WidthIsHost
<1>3. DisarmEach \in [1..(Width + 1) -> RecOff \cap Proper]
  BY <1>1 DEF DisarmEach
<1> QED BY <1>2, <1>3

LEMMA PassWritesProper == PassWrites \in Seq(Proper)
<1>1. \A a, b, c, d \in Proper : <<a, b, c, d>> \in Seq(Proper)
  OBVIOUS
<1>2. Put(Taps, "rec", FALSE) \in Proper
  BY DisarmProper
<1> QED BY <1>1, <1>2, TransportProper, DisarmProper DEF PassWrites

\* The two ways a pass may begin, with and without the recorders turned off first.
LEMMA PassBeginsRow ==
    /\ PassBegins = {PassWrites, <<Disarm, Put(Taps, "rec", TRUE), Play, Disarm, Stop>>}
    /\ PassBegins \subseteq Seq(Proper)
<1>1. ASSUME NEW a \in Proper, NEW b \in Proper, NEW c \in Proper, NEW d \in Proper
      PROVE  /\ <<a>> \o <<b, c, a, d>> = <<a, b, c, a, d>>
             /\ <<a, b, c, a, d>> \in Seq(Proper)
  <2> DEFINE s == <<b, c, a, d>>
             t == <<a, b, c, a, d>>
  <2>1. <<a>> \in Seq(Proper) /\ s \in Seq(Proper) /\ t \in Seq(Proper)
    OBVIOUS
  <2>2. Len(<<a>>) = 1 /\ Len(s) = 4 /\ Len(t) = 5
    OBVIOUS
  <2>3. <<a>> \o s \in Seq(Proper) /\ Len(<<a>> \o s) = 5
    BY <2>1, <2>2
  <2>4. ASSUME NEW i \in 1..5 PROVE (<<a>> \o s)[i] = t[i]
    <3>1. (<<a>> \o s)[i] = IF i <= 1 THEN <<a>>[i] ELSE s[i - 1]
      BY <2>1, <2>2
    <3>2. i \in {1, 2, 3, 4, 5}
      OBVIOUS
    <3> QED BY <3>1, <3>2
  <2>5. \A u, v \in Seq(Proper) : Len(u) = Len(v) /\ (\A i \in 1..Len(u) : u[i] = v[i]) => u = v
    BY SeqEqual
  <2> QED BY <2>1, <2>2, <2>3, <2>4, <2>5
<1>2. /\ Put(Taps, "rec", TRUE) \in Proper /\ Play \in Proper /\ Disarm \in Proper
      /\ Stop \in Proper
  BY DisarmProper, TransportProper
<1>3. /\ PassWrites = <<Put(Taps, "rec", TRUE), Play, Disarm, Stop>>
      /\ PassBegins = {PassWrites, <<Disarm>> \o PassWrites}
  BY DEF PassWrites, PassBegins, Disarm
<1>4. /\ <<Disarm>> \o PassWrites = <<Disarm, Put(Taps, "rec", TRUE), Play, Disarm, Stop>>
      /\ <<Disarm>> \o PassWrites \in Seq(Proper)
  <2> DEFINE b == Put(Taps, "rec", TRUE)
  <2> HIDE DEF b
  <2>1. b \in Proper /\ PassWrites = <<b, Play, Disarm, Stop>>
    BY <1>2, <1>3 DEF b
  <2>2. /\ <<Disarm>> \o <<b, Play, Disarm, Stop>> = <<Disarm, b, Play, Disarm, Stop>>
        /\ <<Disarm, b, Play, Disarm, Stop>> \in Seq(Proper)
    BY <1>1, <1>2, <2>1
  <2>3. <<Disarm>> \o PassWrites = <<Disarm, b, Play, Disarm, Stop>>
    BY <2>1, <2>2
  <2> QED BY <2>2, <2>3 DEF b
<1> QED BY <1>3, <1>4, PassWritesProper

LEMMA PassRow ==
    /\ \A s \in PassBegins :
          /\ Tail(s) \in {PassWrites, <<Play, Disarm, Stop>>}
          /\ s \notin {<<Stop>>, <<>>} /\ Head(s) # Stop
    /\ PassWrites \in PassBegins
    /\ Tail(<<Play, Disarm, Stop>>) = <<Disarm, Stop>> /\ Tail(<<Disarm, Stop>>) = <<Stop>>
    /\ Tail(<<Stop, Play>>) = <<Play>> /\ Tail(<<Stop>>) = <<>> /\ Tail(<<Play>>) = <<>>
    /\ <<Play, Disarm, Stop>> \notin {<<Stop>>, <<>>} /\ <<Disarm, Stop>> \notin {<<Stop>>, <<>>}
    /\ Head(<<Disarm, Stop>>) = Disarm /\ Head(<<Stop>>) = Stop
<1>1. ASSUME NEW a \in Proper, NEW b \in Proper, NEW c \in Proper, NEW d \in Proper
      PROVE  /\ Tail(<<a>>) = <<>> /\ Tail(<<a, b>>) = <<b>> /\ Tail(<<a, b, c>>) = <<b, c>>
             /\ Tail(<<a, b, c, d>>) = <<b, c, d>>
             /\ Head(<<a>>) = a /\ Head(<<a, b>>) = a
             /\ <<b, c>> # <<>> /\ <<b, c, d>> # <<>>
             /\ <<b, c, d>> # <<a>> /\ <<b, c>> # <<a>>
  OBVIOUS
<1>9. ASSUME NEW a \in Proper, NEW b \in Proper, NEW c \in Proper, NEW d \in Proper
      PROVE  Head(<<a, b, c, d>>) = a /\ <<a, b, c, d>> # <<>> /\ <<a, b, c, d>> # <<d>>
  OBVIOUS
<1>8. ASSUME NEW a \in Proper, NEW b \in Proper, NEW c \in Proper, NEW d \in Proper
      PROVE  /\ Tail(<<c, a, b, c, d>>) = <<a, b, c, d>> /\ Head(<<c, a, b, c, d>>) = c
             /\ <<c, a, b, c, d>> \notin {<<>>, <<d>>}
  <2> DEFINE s == <<c, a, b, c, d>>
             t == <<a, b, c, d>>
  <2>1. s \in Seq(Proper) /\ Len(s) = 5 /\ t \in Seq(Proper) /\ Len(t) = 4
    OBVIOUS
  <2>2. Head(s) = c /\ s # <<>> /\ s # <<d>>
    BY <2>1
  <2>3. Tail(s) \in Seq(Proper) /\ Len(Tail(s)) = 4
    BY <2>1
  <2>4. ASSUME NEW i \in 1..4 PROVE Tail(s)[i] = t[i]
    <3>1. Tail(s)[i] = s[i + 1]
      BY <2>1
    <3>2. i \in {1, 2, 3, 4}
      OBVIOUS
    <3> QED BY <3>1, <3>2
  <2>5. \A u, v \in Seq(Proper) : Len(u) = Len(v) /\ (\A i \in 1..Len(u) : u[i] = v[i]) => u = v
    BY SeqEqual
  <2> QED BY <2>1, <2>2, <2>3, <2>4, <2>5
<1>2. PassWrites = <<Put(Taps, "rec", TRUE), Play, Disarm, Stop>>
  BY DisarmProper DEF PassWrites
<1>3. /\ Put(Taps, "rec", TRUE) \in Proper /\ Play \in Proper /\ Disarm \in Proper
      /\ Stop \in Proper
  BY DisarmProper, TransportProper
<1>4. Put(Taps, "rec", TRUE) # Stop /\ Disarm # Stop
  BY DEF Put, Stop, Disarm
<1>5. /\ Tail(PassWrites) = <<Play, Disarm, Stop>> /\ PassWrites \notin {<<Stop>>, <<>>}
      /\ Head(PassWrites) # Stop
  <2> DEFINE a == Put(Taps, "rec", TRUE)
             s == <<a, Play, Disarm, Stop>>
  <2> HIDE DEF a
  <2>1. a \in Proper /\ a # Stop /\ PassWrites = s
    BY <1>2, <1>3, <1>4 DEF a
  <2>2. Tail(s) = <<Play, Disarm, Stop>> /\ s # <<>> /\ s # <<Stop>> /\ Head(s) = a
    BY <1>1, <1>3, <1>9, <2>1
  <2> QED BY <2>1, <2>2
<1>6. ASSUME NEW s \in PassBegins, s # PassWrites
      PROVE  Tail(s) = PassWrites /\ s \notin {<<Stop>>, <<>>} /\ Head(s) # Stop
  <2> DEFINE a == Put(Taps, "rec", TRUE)
             t == <<Disarm, a, Play, Disarm, Stop>>
  <2> HIDE DEF a
  <2>1. a \in Proper /\ PassWrites = <<a, Play, Disarm, Stop>> /\ s = t
    BY <1>2, <1>3, <1>6, PassBeginsRow DEF a
  <2>2. Tail(t) = <<a, Play, Disarm, Stop>> /\ Head(t) = Disarm /\ t # <<>> /\ t # <<Stop>>
    BY <1>3, <1>8, <2>1
  <2> QED BY <1>4, <2>1, <2>2
<1>7. PassWrites \in PassBegins
  BY PassBeginsRow
<1> QED BY <1>1, <1>3, <1>5, <1>6, <1>7

LEMMA PrepareWritesProper ==
    ASSUME NEW h \in Host
    PROVE  PrepareWrites(h) \in Seq(Proper)
  BY MainIsNoHost DEF PrepareWrites, Put, Proper, Write, Field, Routing

-----------------------------------------------------------------------------
(* The invariant.                                                          *)

\* Before any journal has a verdict; where no call is out; after the recorders
\* were switched off; after the transport was checked.
Early ==
    {"open", "record", "append", "prepare", "begin", "halt", "pass", "transport", "fallback",
     "passFinally", "finalizing", "copy"}
Quiet ==
    {"open", "record", "append", "begin", "finalizing", "copy", "results", "failing", "done",
     "crashed"}
Settling ==
    \/ pc \in {"finalizing", "copy"}
    \/ pc = "passFinally" /\ exc = "none"
    \/ pc = "restore" /\ ~handling
Recorded == Settling \/ pc \in {"transport", "fallback"}

\* Which flags are up where.
Flags ==
    /\ pc \in Quiet => todo = <<>>
    /\ handling => pc \in {"restore", "failing", "cleanup", "done"}
    /\ pc = "failing" => handling /\ (mode = "single" => prepared = 1 /\ ~settled)
    /\ settled => pc \in {"results", "failing", "done"}
    /\ pc = "results" \/ (mode = "batch" /\ pc = "failing") => settled

\* Where the loops are, and which hosts the finally block knows of.
Loops ==
    /\ prepared <= Width
    /\ pc \in Early \cup {"results", "failing"} => cur \in Hosts
    /\ pc = "open" => cur = 1
    /\ pc \in {"open", "record", "append"} => prepared = cur - 1
    /\ pc = "prepare" => prepared = cur
    /\ pc \in {"begin", "halt", "pass", "passFinally", "results"} \/ Recorded => prepared = Width
    /\ pc = "cleanup" => cur <= prepared

\* The shape of what is left to write.
Writes ==
    /\ todo \in Seq(Proper)
    /\ pc = "restore" => todo \in Seq(HostWrite)
    /\ pc = "restore" /\ mode = "single" =>
          todo \in {RestoreHost(1), Tail(RestoreHost(1)), Tail(Tail(RestoreHost(1))), <<>>}
    /\ pc = "pass" =>
          todo \in PassBegins \cup {<<Play, Disarm, Stop>>, <<Disarm, Stop>>, <<Stop>>, <<>>}
    /\ pc \in {"transport", "fallback"} => todo \in {<<Stop>>, <<Stop, Play>>, <<Play>>, <<>>}
    /\ pc = "passFinally" /\ exc = "none" => todo \in Seq(RecOff)

\* The verdicts given so far.
Verdicts ==
    /\ pc \in Early \/ (mode = "batch" /\ pc = "restore") =>
          \A h \in Host : journal[h] \notin Terminal
    /\ mode = "batch" /\ pc \in {"results", "failing", "cleanup"} =>
          \A h \in Host : h >= cur => journal[h] \notin Terminal
    /\ pc = "results" => \A h \in Host : h < cur => journal[h] \in {"VERIFIED", "FAILED"}
    /\ pc \in {"failing", "cleanup"} => \A h \in Host : h < cur => journal[h] = "FAILED"
    /\ mode = "single" /\ pc = "results" => journal[1] = "VERIFIED"
    /\ mode = "single" /\ pc = "restore" => journal[1] = IF handling THEN "FAILED" ELSE "VERIFIED"
    /\ pc \notin {"done", "crashed"} => \A h \in Host : journal[h] \notin {"IN_DOUBT", "RECOVERED"}

\* While the connection has missed no reply, Live is where the calls put it.
LiveShape ==
    ~behind =>
        /\ late = <<>>
        /\ live[Main] \subseteq {"rec", "playing"}
        /\ \A h \in Host : "playing" \notin live[h]

Tidy == \A p \in Taps : "rec" \notin live[p]

InStep ==
    ~behind =>
        /\ pc = "pass" /\ todo \in {<<Stop>>, <<>>} => Tidy
        /\ Recorded => Tidy
        /\ Settling => (was <=> "playing" \in live[Main])
        /\ pc = "restore" /\ ~handling /\ mode = "single" /\ 1 \notin failed /\ todo = <<>> =>
              ("monitor" \in live[1] <=> "monitor" \in before[1])

Kept ==
    /\ mode = "batch" => \A h \in Host : before[h] = {}
    /\ Recorded \/ pc = "results" => files

AsBefore ==
    /\ files /\ late = <<>>
    /\ \A g \in Hosts : Back(g)
    /\ live[Main] = IF was THEN {"playing"} ELSE {}

RowsTell ==
    /\ pc = "results" /\ failed = {} => AsBefore
    /\ pc \notin {"results", "done"} => \A h \in Host : rows[h] # "ok"
    /\ pc = "results" =>
          \A h \in Host : rows[h] = "ok" => failed = {} /\ h < cur /\ journal[h] = "VERIFIED"

ControlInv == TypeOK /\ Flags /\ Loops /\ Writes /\ Verdicts
WorldInv == LiveShape /\ InStep /\ Kept /\ RowsTell
Promises == VerifiedIsBack /\ SettledAtEnd /\ SuccessIsClean
CaptureInv == ControlInv /\ WorldInv /\ Promises

LEMMA InitInv == Init => CaptureInv
<1> SUFFICES ASSUME Init PROVE CaptureInv
  OBVIOUS
<1>1. TypeOK
  <2>1. /\ was \in BOOLEAN /\ mode \in {"batch", "single"}
        /\ pc = "open" /\ cur = 1 /\ todo = <<>>
        /\ prepared = 0 /\ before = [h \in Host |-> {}]
        /\ stopped = FALSE /\ failed = {} /\ handling = FALSE /\ settled = FALSE
        /\ exc = "none" /\ interrupted = FALSE
        /\ rows = [h \in Host |-> "none"]
        /\ journal = [h \in Host |-> "none"] /\ files = FALSE
        /\ live \in [Place -> SUBSET Field]
        /\ late = <<>> /\ behind = FALSE /\ lost = FALSE
    BY DEF Init
  <2>2. /\ mode \in {"batch", "single"} /\ pc = "open" /\ cur \in 0..N /\ prepared \in 0..N
        /\ todo \in Seq(Write) /\ late \in Seq(Write)
    BY <2>1
  <2>3. before \in [Host -> SUBSET Routing] /\ failed \subseteq Host
    BY <2>1
  <2>4. /\ rows \in [Host -> {"none", "ok", "failed"}]
        /\ journal \in [Host -> Open \cup Terminal \cup {"none"}]
    BY <2>1
  <2>5. /\ was \in BOOLEAN /\ stopped \in BOOLEAN /\ handling \in BOOLEAN /\ settled \in BOOLEAN
        /\ interrupted \in BOOLEAN /\ files \in BOOLEAN /\ behind \in BOOLEAN /\ lost \in BOOLEAN
    BY <2>1
  <2> QED BY <2>1, <2>2, <2>3, <2>4, <2>5 DEF TypeOK, InPass
<1>2. Flags
  BY DEF Init, Flags
<1>3. Loops
  BY WidthIsHost DEF Init, Loops, Early, Recorded, Settling, Hosts
<1>4. Writes
  BY DEF Init, Writes
<1>5. Verdicts
  BY DEF Init, Verdicts, Terminal
<1>6. LiveShape
  <2>1. \A h \in Host : live[h] \subseteq Routing \cup {"rec"}
    BY DEF Init
  <2> QED BY <2>1 DEF Init, LiveShape, Routing
<1>7. InStep /\ Kept /\ RowsTell
  BY DEF Init, InStep, Kept, RowsTell, Recorded, Settling
<1>8. VerifiedIsBack /\ SettledAtEnd /\ SuccessIsClean
  BY DEF Init, VerifiedIsBack, SettledAtEnd, SuccessIsClean
<1> QED BY <1>1, <1>2, <1>3, <1>4, <1>5, <1>6, <1>7, <1>8
    DEF CaptureInv, ControlInv, WorldInv, Promises

Types ==
    /\ mode \in {"batch", "single"}
    /\ pc \in InPass \cup {"open", "record", "append", "prepare", "begin", "halt",
                           "passFinally", "finalizing", "copy", "restore", "results", "failing",
                           "cleanup", "done", "crashed"}
    /\ cur \in 0..N /\ prepared \in 0..N
    /\ todo \in Seq(Write) /\ late \in Seq(Write)
    /\ before \in [Host -> SUBSET Routing]
    /\ failed \subseteq Host
    /\ exc \in {"none", "error", "cancel"}
    /\ rows \in [Host -> {"none", "ok", "failed"}]
    /\ journal \in [Host -> Open \cup Terminal \cup {"none"}]
    /\ live \in [Place -> SUBSET Field]

Bools ==
    /\ was \in BOOLEAN /\ stopped \in BOOLEAN /\ handling \in BOOLEAN /\ settled \in BOOLEAN
    /\ interrupted \in BOOLEAN /\ files \in BOOLEAN /\ behind \in BOOLEAN /\ lost \in BOOLEAN

LEMMA TypesAndBools == TypeOK <=> Types /\ Bools
  BY DEF TypeOK, Types, Bools

LEMMA TypesAndBoolsNext == TypeOK' <=> Types' /\ Bools'
  BY DEF TypeOK, Types, Bools

\* Where a batch may have a VERIFIED journal.
LEMMA VerifiedPlace ==
    ASSUME CaptureInv, mode = "batch", NEW h \in Host, journal[h] = "VERIFIED"
    PROVE  pc \in {"results", "done", "crashed"}
<1>1. Types /\ Verdicts
  BY TypesAndBools DEF CaptureInv, ControlInv
<1>2. h >= cur \/ h < cur
  BY <1>1 DEF Types, Host
<1> QED BY <1>1, <1>2 DEF Types, Verdicts, Early, InPass, Terminal

\* Any exception, from any place that may raise it.
LEMMA RaiseKeeps ==
    ASSUME CaptureInv, NEW e \in {"error", "cancel"}, Raise(e),
           pc \notin {"cleanup", "done", "crashed"},
           e = "error" => pc \in Early \/ (pc = "restore" /\ mode = "single"),
           UNCHANGED journal, files' \in {files, TRUE},
           live' \in [Place -> SUBSET Field], late' \in Seq(Write),
           behind' \in BOOLEAN, lost' \in BOOLEAN,
           LiveShape', todo = <<>> => UNCHANGED <<live, late>>
    PROVE  CaptureInv'
<1> USE DEF CaptureInv, ControlInv, WorldInv, Promises
<1>0. Types /\ Bools /\ Flags /\ Loops /\ Writes /\ Verdicts /\ Kept
  BY TypesAndBools
<1>m. mode' = mode /\ prepared' = prepared /\ before' = before /\ was' = was /\ settled' = settled
      /\ exc' = e /\ failed' = {} /\ rows' = [h \in Host |-> "none"]
  BY DEF Raise
<1>w. Width' = Width /\ Hosts' = Hosts
  BY <1>m DEF Hosts, Width
<1>a. \/ pc \in InPass /\ pc' = "passFinally" /\ handling' = handling /\ cur' = cur
      \/ /\ pc \notin InPass /\ e = "error" /\ handling' = TRUE /\ cur' = 1
         /\ mode = "batch" /\ pc' = "restore" /\ todo' = RestoreWrites
      \/ /\ pc \notin InPass /\ e = "error" /\ handling' = TRUE /\ cur' = 1
         /\ mode = "single" /\ prepared > 0 /\ pc' = "failing" /\ todo' = <<>>
      \/ /\ pc \notin InPass /\ ~settled /\ pc' = "cleanup" /\ todo' = <<Stop>> /\ cur' = 0
         /\ handling' = handling
      \/ /\ pc \notin InPass /\ (settled \/ prepared = 0)
         /\ pc' = "done" /\ todo' = <<>> /\ handling' = handling /\ cur' = cur
  <2>1. mode # "batch" => mode = "single"
    BY <1>0 DEF Types
  <2> QED BY <2>1 DEF Raise
<1>b. pc' = "passFinally" =>
        todo' \in Seq(Proper)
  <2>1. <<Disarm>> \in Seq(Proper) /\ <<Stop>> \in Seq(Proper) /\ <<>> \in Seq(Proper)
    BY DisarmProper, TransportProper
  <2>2. \A s, t \in Seq(Proper) : s \o t \in Seq(Proper)
    OBVIOUS
  <2> QED BY <1>a, <2>1, <2>2 DEF Raise
<1>c. pc' = "restore" => todo' \in Seq(HostWrite)
  BY <1>0, <1>a, RestoreWritesType DEF Types
<1>d. todo' \in Seq(Proper)
  <2>1. todo' \in Seq(HostWrite) => todo' \in Seq(Proper)
    BY HostWriteIsProper, SeqMonotone
  <2>2. <<Stop>> \in Seq(Proper) /\ <<>> \in Seq(Proper)
    BY TransportProper
  <2> QED BY <1>a, <1>b, <1>c, <2>1, <2>2
<1>1. Types'
  <2>1. todo' \in Seq(Write)
    BY <1>d, HostWriteIsProper, SeqMonotone
  <2>2. cur' \in 0..N
    BY <1>0, <1>a DEF Types
  <2>3. rows' \in [Host -> {"none", "ok", "failed"}] /\ failed' \subseteq Host
    BY <1>m
  <2>4. pc' \in {"passFinally", "restore", "failing", "cleanup", "done"}
    BY <1>a
  <2> QED BY <1>0, <1>m, <2>1, <2>2, <2>3, <2>4 DEF Types, InPass
<1>2. Bools'
  <2>1. handling' \in BOOLEAN /\ files' \in BOOLEAN
    BY <1>0, <1>a DEF Bools
  <2>2. stopped' \in BOOLEAN /\ interrupted' \in BOOLEAN
    BY <1>0 DEF Raise, Bools
  <2> QED BY <1>0, <1>m, <2>1, <2>2 DEF Bools
<1>3. Flags'
  BY <1>0, <1>a, <1>m DEF Flags, Quiet, InPass, Early, Types, Loops, Width
<1>4. Loops'
  BY <1>0, <1>a, <1>m, <1>w, WidthIsHost DEF Loops, Early, Recorded, Settling, InPass, Hosts, Types
<1>5. Writes'
  BY <1>a, <1>c, <1>d, <1>m DEF Writes
<1>6. Verdicts'
  BY <1>0, <1>a, <1>m DEF Verdicts, Early, InPass, Types, Flags, Host
<1>7. InStep' /\ Kept' /\ RowsTell'
  BY <1>0, <1>a, <1>m DEF InStep, Kept, RowsTell, Recorded, Settling
<1>8. VerifiedIsBack'
  <2> SUFFICES ASSUME mode' = "batch", NEW h \in Host, journal'[h] = "VERIFIED"
               PROVE  files' /\ late' = <<>> /\ \A g \in Host : Back(g)'
    BY DEF VerifiedIsBack
  <2>1. pc = "results"
    BY <1>m, VerifiedPlace
  <2>2. todo = <<>>
    BY <1>0, <2>1 DEF Flags, Quiet
  <2>3. files /\ late = <<>> /\ \A g \in Host : live[g] = before[g]
    BY <1>m DEF VerifiedIsBack, Back
  <2>4. files'
    BY <2>3
  <2>5. late' = <<>> /\ \A g \in Host : live'[g] = before'[g]
    BY <1>m, <2>2, <2>3
  <2> QED BY <2>4, <2>5 DEF Back
<1>9. SettledAtEnd' /\ SuccessIsClean'
  BY <1>0, <1>a, <1>m, <1>w, WidthIsHost DEF SettledAtEnd, SuccessIsClean, Types
<1> QED BY <1>1, <1>2, <1>3, <1>4, <1>5, <1>6, <1>7, <1>8, <1>9, TypesAndBoolsNext

-----------------------------------------------------------------------------
(* The link, and what all actions share.                                   *)

LEMMA CarryType ==
    ASSUME Types, NEW w \in Write, NEW at \in SUBSET Place
    PROVE  Carry(w, at) \in [Place -> SUBSET Field]
  BY DEF Types, Carry, Write

\* A call keeps the types and, while no reply was missed, the shape of Live.
LEMMA CallKeepsLink ==
    ASSUME Types, Bools, LiveShape, NEW w \in Proper, Returns(w) \/ Raises(w)
    PROVE  /\ live' \in [Place -> SUBSET Field] /\ late' \in Seq(Write)
           /\ behind' \in BOOLEAN /\ lost' \in BOOLEAN
           /\ LiveShape'
<1>0. w \in Write /\ w.at \in SUBSET Place
  BY DEF Proper, Write
<1>1. ASSUME NEW at \in SUBSET w.at, ~behind, live' = Carry(w, at), UNCHANGED <<late, behind>>,
             lost' \in BOOLEAN
      PROVE  /\ live' \in [Place -> SUBSET Field] /\ late' \in Seq(Write)
             /\ behind' \in BOOLEAN /\ lost' \in BOOLEAN
             /\ LiveShape'
  <2>1. at \in SUBSET Place
    BY <1>0, <1>1
  <2>2. live' \in [Place -> SUBSET Field]
    BY <1>0, <1>1, <2>1, CarryType
  <2>3. live'[Main] \subseteq {"rec", "playing"}
    BY <1>0, <1>1, MainIsNoHost DEF Carry, LiveShape, Proper
  <2>4. \A h \in Host : "playing" \notin live'[h]
    BY <1>0, <1>1, MainIsNoHost DEF Carry, LiveShape, Proper
  <2> QED BY <1>1, <2>2, <2>3, <2>4 DEF LiveShape, Types, Bools
<1>2. CASE Returns(w)
  <2>1. w.at \in SUBSET w.at /\ lost' \in BOOLEAN
    BY <1>2 DEF Returns, Bools
  <2> QED BY <1>1, <1>2, <2>1 DEF Returns
<1>3. CASE Refused(w)
  <2>1. lost' \in BOOLEAN
    BY <1>3 DEF Refused
  <2> QED BY <1>1, <1>3, <2>1 DEF Refused
<1>4. CASE Missed(w)
  BY <1>0, <1>4 DEF Missed, Types, Bools, LiveShape
<1> QED BY <1>2, <1>3, <1>4 DEF Raises

LEMMA ReadKeepsLink ==
    ASSUME Types, Bools, LiveShape, ReadReturns \/ ReadRaises \/ UNCHANGED linkVars
    PROVE  /\ live' \in [Place -> SUBSET Field] /\ late' \in Seq(Write)
           /\ behind' \in BOOLEAN /\ lost' \in BOOLEAN
           /\ LiveShape'
           /\ UNCHANGED <<live, late>> /\ (~behind' => ~behind)
  BY DEF Types, Bools, LiveShape, ReadReturns, ReadRaises, linkVars

LEMMA Parts ==
    ASSUME CaptureInv
    PROVE  /\ Types /\ Bools /\ Flags /\ Loops /\ Writes /\ Verdicts
           /\ LiveShape /\ InStep /\ Kept /\ RowsTell
           /\ VerifiedIsBack /\ SettledAtEnd /\ SuccessIsClean
  BY TypesAndBools DEF CaptureInv, ControlInv, WorldInv, Promises

LEMMA Whole ==
    ASSUME Types', Bools', Flags', Loops', Writes', Verdicts',
           LiveShape', InStep', Kept', RowsTell', Promises'
    PROVE  CaptureInv'
  BY TypesAndBoolsNext DEF CaptureInv, ControlInv, WorldInv

\* Away from the rows and the end the promises have nothing to say.
LEMMA PromisesElsewhere ==
    ASSUME Types', Verdicts', pc' \notin {"results", "done", "crashed"}
    PROVE  Promises'
<1>1. ASSUME NEW h \in Host, mode' = "batch" PROVE journal'[h] # "VERIFIED"
  <2>1. h >= cur' \/ h < cur'
    BY DEF Types, Host
  <2> QED BY <1>1, <2>1 DEF Types, Verdicts, Early, InPass, Terminal
<1> QED BY <1>1 DEF Promises, VerifiedIsBack, SettledAtEnd, SuccessIsClean

\* A read that fails, or an error that no call is part of.
LEMMA RaiseWithoutCall ==
    ASSUME CaptureInv, NEW e \in {"error", "cancel"}, Raise(e),
           pc \notin {"cleanup", "done", "crashed"},
           e = "error" => pc \in Early \/ (pc = "restore" /\ mode = "single"),
           UNCHANGED journal, files' \in {files, TRUE},
           ReadReturns \/ ReadRaises \/ UNCHANGED linkVars
    PROVE  CaptureInv'
  BY Parts, ReadKeepsLink, RaiseKeeps

\* The writes depend on the entry point and on what the hosts were.
LEMMA SameWrites ==
    ASSUME mode' = mode, before' = before
    PROVE  /\ Width' = Width /\ Hosts' = Hosts /\ Taps' = Taps
           /\ PassWrites' = PassWrites /\ PassBegins' = PassBegins /\ Disarm' = Disarm
           /\ RestoreHost(1)' = RestoreHost(1)
<1>1. Width' = Width
  BY DEF Width
<1>2. Hosts' = Hosts
  BY <1>1 DEF Hosts
<1>3. Taps' = Taps
  BY <1>2 DEF Taps
<1> QED BY <1>1, <1>2, <1>3 DEF PassWrites, PassBegins, Disarm, RestoreHost, Put, Stop, Play

-----------------------------------------------------------------------------
(* Each action of the Core.                                                *)

LEMMA HaltedKeeps ==
    ASSUME CaptureInv, Halted
    PROVE  CaptureInv'
<1>0. Types /\ Bools /\ Flags /\ Loops /\ Writes /\ Verdicts /\ LiveShape /\ Kept /\ RowsTell
  BY Parts
<1>m. pc = "halt" /\ pc' = "pass" /\ todo' \in PassBegins
      /\ UNCHANGED <<passVars, endVars, diskVars, linkVars>>
  BY DEF Halted, Goto
<1>1. Types' /\ Bools'
  <2>1. todo' \in Seq(Write)
    BY <1>m, PassBeginsRow, HostWriteIsProper, SeqMonotone
  <2> QED BY <1>0, <1>m, <2>1 DEF Types, Bools, InPass, passVars, endVars, diskVars, linkVars
<1>2. Flags' /\ Loops'
  BY <1>0, <1>m DEF Flags, Loops, Quiet, Early, Recorded, Settling, Width, Hosts, passVars, endVars
<1>3. Writes'
  <2>1. PassBegins' = PassBegins /\ PassBegins \subseteq Seq(Proper)
    BY <1>m, SameWrites, PassBeginsRow DEF passVars
  <2>2. todo' \in Seq(Proper) /\ todo' \in PassBegins'
    BY <1>m, <2>1
  <2> QED BY <1>m, <2>2 DEF Writes
<1>4. Verdicts'
  BY <1>0, <1>m DEF Verdicts, Early, diskVars, passVars
<1>5. LiveShape' /\ Kept'
  BY <1>0, <1>m DEF LiveShape, Kept, Recorded, Settling, linkVars, diskVars, passVars
<1>6. InStep' /\ RowsTell'
  <2>1. todo' \notin {<<Stop>>, <<>>}
    BY <1>m, PassRow
  <2> QED BY <1>0, <1>m, <2>1 DEF InStep, RowsTell, Recorded, Settling, endVars
<1> QED BY <1>1, <1>2, <1>3, <1>4, <1>5, <1>6, <1>m, PromisesElsewhere, Whole

LEMMA PassBreaksKeeps ==
    ASSUME CaptureInv, PassBreaks
    PROVE  CaptureInv'
  BY RaiseWithoutCall DEF PassBreaks, Early, diskVars

LEMMA BeginPassKeeps ==
    ASSUME CaptureInv, BeginPass
    PROVE  CaptureInv'
<1>0. Types /\ Bools /\ Flags /\ Loops /\ Writes /\ Verdicts /\ LiveShape /\ Kept /\ RowsTell
  BY Parts
<1>1. CASE Raise("error") /\ ReadRaises
  BY <1>1, RaiseWithoutCall DEF BeginPass, Early, diskVars
<1>2. CASE ~(Raise("error") /\ ReadRaises)
  <2>m. /\ pc = "begin" /\ pc' = "halt" /\ todo' = <<Stop>> /\ ReadReturns
        /\ UNCHANGED <<passVars, endVars, diskVars>>
    BY <1>2 DEF BeginPass, Goto
  <2>r. live' = live /\ late' = late /\ behind' = behind /\ lost' = lost
    BY <2>m DEF ReadReturns, linkVars
  <2>w. <<Stop>> \in Seq(Proper) /\ Width' = Width /\ Hosts' = Hosts
    BY <2>m, TransportProper, SameWrites DEF passVars
  <2>1. Types' /\ Bools'
    <3>1. todo' \in Seq(Write)
      BY <2>m, <2>w, HostWriteIsProper, SeqMonotone
    <3> QED BY <1>0, <2>m, <2>r, <3>1 DEF Types, Bools, passVars, endVars, diskVars
  <2>2. Flags' /\ Loops'
    BY <1>0, <2>m, <2>w DEF Flags, Loops, Quiet, Early, Recorded, Settling, passVars, endVars
  <2>3. Writes'
    BY <2>m, <2>w DEF Writes
  <2>4. Verdicts'
    BY <1>0, <2>m DEF Verdicts, Early, diskVars, passVars
  <2>5. LiveShape' /\ Kept' /\ InStep' /\ RowsTell'
    BY <1>0, <2>m, <2>r
    DEF LiveShape, Kept, InStep, RowsTell, Recorded, Settling, diskVars, passVars, endVars
  <2> QED BY <2>1, <2>2, <2>3, <2>4, <2>5, <2>m, PromisesElsewhere, Whole
<1> QED BY <1>1, <1>2

LEMMA ReadBaselinesKeeps ==
    ASSUME CaptureInv, ReadBaselines
    PROVE  CaptureInv'
<1>0. Types /\ Bools /\ Flags /\ Loops /\ Writes /\ Verdicts /\ LiveShape /\ Kept /\ RowsTell
  BY Parts
<1>1. CASE Raise("error") /\ ReadRaises
  BY <1>1, RaiseWithoutCall DEF ReadBaselines, Early, diskVars
<1>2. CASE ~(Raise("error") /\ ReadRaises)
  <2>m. /\ pc = "open" /\ mode = "batch" /\ ReadReturns
        /\ UNCHANGED <<mode, prepared, before, was, stopped, failed, handling, settled>>
        /\ UNCHANGED <<exc, interrupted, diskVars>>
        /\ \/ pc' = "record" /\ todo' = <<>> /\ cur' = cur /\ rows' = rows
           \/ /\ pc' = "cleanup" /\ todo' = <<Stop>> /\ cur' = 0
              /\ rows' = [h \in Host |-> "failed"]
    BY <1>2 DEF ReadBaselines, Goto, endVars
  <2>r. live' = live /\ late' = late /\ behind' = behind /\ lost' = lost
    BY <2>m DEF ReadReturns, linkVars
  <2>w. <<Stop>> \in Seq(Proper) /\ <<>> \in Seq(Proper) /\ Width' = Width /\ Hosts' = Hosts
    BY <2>m, TransportProper, SameWrites
  <2>t. todo' \in Seq(Proper)
    BY <2>m, <2>w
  <2>1. Types' /\ Bools'
    <3>1. todo' \in Seq(Write)
      BY <2>t, HostWriteIsProper, SeqMonotone
    <3>2. rows' \in [Host -> {"none", "ok", "failed"}] /\ cur' \in 0..N
      BY <1>0, <2>m DEF Types
    <3> QED BY <1>0, <2>m, <2>r, <3>1, <3>2 DEF Types, Bools, diskVars
  <2>2. Flags' /\ Loops'
    BY <1>0, <2>m, <2>w DEF Flags, Loops, Quiet, Early, Recorded, Settling, Types
  <2>3. Writes'
    BY <2>m, <2>t DEF Writes
  <2>4. Verdicts'
    BY <1>0, <2>m DEF Verdicts, Early, diskVars, Host, Terminal, Types
  <2>5. LiveShape' /\ Kept' /\ InStep' /\ RowsTell'
    BY <1>0, <2>m, <2>r
    DEF LiveShape, Kept, InStep, RowsTell, Recorded, Settling, diskVars
  <2> QED BY <2>1, <2>2, <2>3, <2>4, <2>5, <2>m, PromisesElsewhere, Whole
<1> QED BY <1>1, <1>2

LEMMA JournalPreparedKeeps ==
    ASSUME CaptureInv, JournalPrepared
    PROVE  CaptureInv'
<1>0. Types /\ Bools /\ Flags /\ Loops /\ Writes /\ Verdicts /\ LiveShape /\ Kept /\ RowsTell
  BY Parts
<1>m. /\ pc \in {"open", "record"} /\ pc' = "append" /\ todo' = <<>>
      /\ journal' = [journal EXCEPT ![cur] = "PREPARED"]
      /\ UNCHANGED <<passVars, endVars, files, linkVars>>
  BY DEF JournalPrepared, Goto
<1>w. Width' = Width /\ Hosts' = Hosts
  BY <1>m, SameWrites DEF passVars
<1>1. Types' /\ Bools'
  <2>1. journal' \in [Host -> Open \cup Terminal \cup {"none"}]
    BY <1>0, <1>m DEF Types, Open
  <2> QED BY <1>0, <1>m, <2>1 DEF Types, Bools, passVars, endVars, linkVars
<1>2. Flags' /\ Loops'
  BY <1>0, <1>m, <1>w DEF Flags, Loops, Quiet, Early, Recorded, Settling, passVars, endVars
<1>3. Writes'
  BY <1>m DEF Writes
<1>4. Verdicts'
  BY <1>0, <1>m DEF Verdicts, Early, passVars, Terminal, Types
<1>5. LiveShape' /\ Kept' /\ InStep' /\ RowsTell'
  BY <1>0, <1>m
  DEF LiveShape, Kept, InStep, RowsTell, Recorded, Settling, passVars, endVars, linkVars
<1> QED BY <1>1, <1>2, <1>3, <1>4, <1>5, <1>m, PromisesElsewhere, Whole

LEMMA AppendPreparedKeeps ==
    ASSUME CaptureInv, AppendPrepared
    PROVE  CaptureInv'
<1>0. Types /\ Bools /\ Flags /\ Loops /\ Writes /\ Verdicts /\ LiveShape /\ Kept /\ RowsTell
  BY Parts
<1>1. CASE Raise("error") /\ ReadRaises
  BY <1>1, RaiseWithoutCall DEF AppendPrepared, Early, diskVars
<1>2. CASE ~(Raise("error") /\ ReadRaises)
  <2>m. /\ pc = "append" /\ pc' = "prepare" /\ todo' = PrepareWrites(cur)
        /\ prepared' = cur
        /\ \E row \in SUBSET Routing :
              (mode = "batch" => row = {}) /\ before' = [before EXCEPT ![cur] = row]
        /\ UNCHANGED <<mode, cur, was, stopped, failed, handling, settled, endVars, diskVars>>
    BY <1>2 DEF AppendPrepared, Goto
  <2>r. live' = live /\ late' = late /\ behind' = behind /\ lost' = lost
    BY <1>2 DEF AppendPrepared, ReadReturns, linkVars
  <2>c. cur \in Hosts /\ cur \in Host
    BY <1>0, <2>m, WidthIsHost DEF Loops, Early
  <2>w. Width' = Width /\ Hosts' = Hosts
    BY <2>m DEF Width, Hosts
  <2>t. todo' \in Seq(Proper)
    BY <2>m, <2>c, PrepareWritesProper
  <2>1. Types' /\ Bools'
    <3>1. todo' \in Seq(Write)
      BY <2>t, HostWriteIsProper, SeqMonotone
    <3>2. before' \in [Host -> SUBSET Routing]
      BY <1>0, <2>m DEF Types
    <3> QED BY <1>0, <2>m, <2>r, <3>1, <3>2 DEF Types, Bools, diskVars, endVars
  <2>2. Flags' /\ Loops'
    BY <1>0, <2>m, <2>w, <2>c
    DEF Flags, Loops, Quiet, Early, Recorded, Settling, Types, endVars, Hosts
  <2>3. Writes'
    BY <2>m, <2>t DEF Writes
  <2>4. Verdicts'
    BY <1>0, <2>m DEF Verdicts, Early, diskVars
  <2>5. LiveShape' /\ Kept' /\ InStep' /\ RowsTell'
    BY <1>0, <2>m, <2>r
    DEF LiveShape, Kept, InStep, RowsTell, Recorded, Settling, diskVars, endVars, Types
  <2> QED BY <2>1, <2>2, <2>3, <2>4, <2>5, <2>m, PromisesElsewhere, Whole
<1> QED BY <1>1, <1>2

LEMMA VerifyRoutingKeeps ==
    ASSUME CaptureInv, VerifyRouting
    PROVE  CaptureInv'
<1>0. Types /\ Bools /\ Flags /\ Loops /\ Writes /\ Verdicts /\ LiveShape /\ Kept /\ RowsTell
  BY Parts
<1>1. CASE Raise("error") /\ UNCHANGED journal /\ (ReadReturns \/ ReadRaises)
  BY <1>1, RaiseWithoutCall DEF VerifyRouting, Early
<1>2. CASE ~(Raise("error") /\ UNCHANGED journal /\ (ReadReturns \/ ReadRaises))
  <2>m. /\ pc = "prepare" /\ ReadReturns
        /\ journal' = [journal EXCEPT ![cur] = "RECORDING"]
        /\ \/ cur + 1 \in Hosts /\ cur' = cur + 1 /\ pc' = "record" /\ todo' = <<>>
           \/ cur + 1 \notin Hosts /\ cur' = 1 /\ pc' = "begin" /\ todo' = <<>>
        /\ UNCHANGED <<mode, prepared, before, was, stopped, failed, handling, settled, endVars>>
        /\ UNCHANGED files
    BY <1>2 DEF VerifyRouting, Goto, More
  <2>r. live' = live /\ late' = late /\ behind' = behind /\ lost' = lost
    BY <2>m DEF ReadReturns, linkVars
  <2>w. Width' = Width /\ Hosts' = Hosts
    BY <2>m, SameWrites
  <2>c. cur \in Hosts /\ cur \in Host /\ prepared = cur
    BY <1>0, <2>m, WidthIsHost DEF Loops, Early
  <2>t. pc' \in {"record", "begin"} /\ todo' = <<>>
    BY <2>m
  <2>1. Types' /\ Bools'
    <3>1. journal' \in [Host -> Open \cup Terminal \cup {"none"}]
      BY <1>0, <2>m DEF Types, Open
    <3>2. cur' \in 0..N
      BY <2>m, <2>c, WidthIsHost DEF Hosts
    <3> QED BY <1>0, <2>m, <2>t, <2>r, <3>1, <3>2 DEF Types, Bools, endVars
  <2>2. Flags'
    BY <1>0, <2>m DEF Flags, Quiet, endVars
  <2>3. Loops'
    BY <1>0, <2>m, <2>w, <2>c, WidthIsHost DEF Loops, Early, Recorded, Settling, Hosts
  <2>4. Writes'
    BY <2>t DEF Writes
  <2>5. Verdicts'
    BY <1>0, <2>m DEF Verdicts, Early, Terminal, Types
  <2>6. LiveShape' /\ Kept' /\ InStep' /\ RowsTell'
    BY <1>0, <2>m, <2>r
    DEF LiveShape, Kept, InStep, RowsTell, Recorded, Settling, endVars
  <2> QED BY <2>1, <2>2, <2>3, <2>4, <2>5, <2>6, <2>m, PromisesElsewhere, Whole
<1> QED BY <1>1, <1>2

LEMMA FinalizeKeeps ==
    ASSUME CaptureInv, Finalize
    PROVE  CaptureInv'
<1>0. Types /\ Bools /\ Flags /\ Loops /\ Writes /\ Verdicts /\ LiveShape /\ InStep /\ Kept
      /\ RowsTell
  BY Parts
<1>1. CASE Raise("error") /\ files' \in {files, TRUE}
  BY <1>1, RaiseWithoutCall DEF Finalize, Early
<1>2. CASE ~(Raise("error") /\ files' \in {files, TRUE})
  <2>m. /\ pc = "pass" /\ todo = <<>> /\ files' = TRUE
        /\ pc' = "transport" /\ todo' = <<Stop>> \o (IF was THEN <<Play>> ELSE <<>>)
        /\ UNCHANGED <<passVars, endVars, journal, linkVars>>
    BY <1>2 DEF Finalize, Goto
  <2>w. Width' = Width /\ Hosts' = Hosts /\ Taps' = Taps
    BY <2>m, SameWrites DEF passVars
  <2>t. todo' \in {<<Stop>>, <<Stop, Play>>} /\ todo' \in Seq(Proper)
    <3>1. \A a, b \in Write : <<a>> \o <<b>> = <<a, b>> /\ <<a>> \o <<>> = <<a>>
      BY TwoInRow
    <3>2. todo' \in {<<Stop>>, <<Stop, Play>>}
      BY <2>m, <3>1, TransportProper, HostWriteIsProper
    <3>3. <<Stop>> \in Seq(Proper) /\ <<Stop, Play>> \in Seq(Proper)
      BY TransportProper
    <3> QED BY <3>2, <3>3
  <2>1. Types' /\ Bools'
    <3>1. todo' \in Seq(Write)
      BY <2>t, HostWriteIsProper, SeqMonotone
    <3>2. files' \in BOOLEAN
      BY <2>m
    <3> QED BY <1>0, <2>m, <3>1, <3>2 DEF Types, Bools, InPass, passVars, endVars, linkVars
  <2>2. Flags' /\ Loops'
    BY <1>0, <2>m, <2>w DEF Flags, Loops, Quiet, Early, Recorded, Settling, passVars, endVars
  <2>3. Writes'
    <3>1. Stop' = Stop /\ Play' = Play
      BY DEF Stop, Play, Put
    <3> QED BY <2>m, <2>t, <3>1 DEF Writes
  <2>4. Verdicts'
    BY <1>0, <2>m DEF Verdicts, Early, passVars
  <2>5. Tidy' \/ behind'
    BY <1>0, <2>m, <2>w DEF InStep, Tidy, linkVars
  <2>6. LiveShape' /\ InStep' /\ RowsTell'
    BY <1>0, <2>m, <2>5
    DEF LiveShape, InStep, RowsTell, Recorded, Settling, passVars, endVars, linkVars
  <2>7. Kept'
    BY <1>0, <2>m DEF Kept, passVars
  <2> QED BY <2>1, <2>2, <2>3, <2>4, <2>6, <2>7, <2>m, PromisesElsewhere, Whole
<1> QED BY <1>1, <1>2

LEMMA CheckTransportKeeps ==
    ASSUME CaptureInv, CheckTransport
    PROVE  CaptureInv'
<1>0. Types /\ Bools /\ Flags /\ Loops /\ Writes /\ Verdicts /\ LiveShape /\ InStep /\ Kept
      /\ RowsTell
  BY Parts
<1>1. CASE Raise("error") /\ (ReadReturns \/ ReadRaises)
  BY <1>1, RaiseWithoutCall DEF CheckTransport, Early, diskVars
<1>2. CASE ~(Raise("error") /\ (ReadReturns \/ ReadRaises))
  <2>m. /\ pc \in {"transport", "fallback"} /\ pc' = "passFinally" /\ todo' = <<Disarm>>
        /\ ReadReturns /\ ("playing" \in live[Main]) = was
        /\ UNCHANGED <<passVars, endVars, diskVars>>
    BY <1>2 DEF CheckTransport, Goto
  <2>r. live' = live /\ late' = late /\ behind' = behind /\ lost' = lost
    BY <2>m DEF ReadReturns, linkVars
  <2>p. was <=> "playing" \in live[Main]
    BY <2>m
  <2>w. Width' = Width /\ Hosts' = Hosts /\ Taps' = Taps
    BY <2>m, SameWrites DEF passVars
  <2>t. todo' \in Seq(Proper) /\ todo' \in Seq(RecOff)
    BY <2>m, DisarmProper
  <2>1. Types' /\ Bools'
    <3>1. todo' \in Seq(Write)
      BY <2>t, HostWriteIsProper, SeqMonotone
    <3> QED BY <1>0, <2>m, <2>r, <3>1 DEF Types, Bools, passVars, endVars, diskVars
  <2>2. Flags' /\ Loops'
    BY <1>0, <2>m, <2>w DEF Flags, Loops, Quiet, Early, Recorded, Settling, passVars, endVars
  <2>3. Writes'
    BY <2>m, <2>t DEF Writes
  <2>4. Verdicts'
    BY <1>0, <2>m DEF Verdicts, Early, passVars, diskVars
  <2>5. InStep'
    <3>1. ~behind => Tidy'
      BY <1>0, <2>m, <2>r, <2>w DEF InStep, Tidy, Recorded
    <3>2. was' <=> "playing" \in live'[Main]
      BY <2>m, <2>p, <2>r DEF passVars
    <3> QED BY <2>m, <2>r, <3>1, <3>2 DEF InStep
  <2>6. LiveShape' /\ Kept' /\ RowsTell'
    BY <1>0, <2>m, <2>r
    DEF LiveShape, Kept, RowsTell, Recorded, Settling, passVars, endVars, diskVars
  <2> QED BY <2>1, <2>2, <2>3, <2>4, <2>5, <2>6, <2>m, PromisesElsewhere, Whole
<1> QED BY <1>1, <1>2

LEMMA EndPassKeeps ==
    ASSUME CaptureInv, EndPass
    PROVE  CaptureInv'
<1>0. Types /\ Bools /\ Flags /\ Loops /\ Writes /\ Verdicts /\ LiveShape /\ InStep /\ Kept
      /\ RowsTell
  BY Parts
<1>1. CASE exc # "none"
  <2>1. Raise("error") \/ Raise("cancel")
    <3>1. exc = "error" \/ exc = "cancel"
      BY <1>0, <1>1 DEF Types
    <3>2. CASE exc = "error"
      BY <1>1, <3>2 DEF EndPass
    <3>3. CASE exc = "cancel"
      BY <1>1, <3>3 DEF EndPass
    <3> QED BY <3>1, <3>2, <3>3
  <2>2. pc = "passFinally" /\ UNCHANGED <<diskVars, linkVars>>
    BY DEF EndPass
  <2> QED BY <2>1, <2>2, RaiseWithoutCall DEF Early, diskVars
<1>2. CASE exc = "none"
  <2>m. /\ pc = "passFinally" /\ pc' = "finalizing" /\ todo' = <<>> /\ cur' = 1
        /\ UNCHANGED <<mode, prepared, before, was, stopped, failed, handling, settled, endVars>>
        /\ UNCHANGED <<diskVars, linkVars>>
    BY <1>2 DEF EndPass, Goto
  <2>w. Width' = Width /\ Hosts' = Hosts /\ Taps' = Taps
    BY <2>m, SameWrites
  <2>s. Settling /\ Recorded
    BY <1>2, <2>m DEF Settling, Recorded
  <2>1. Types' /\ Bools'
    BY <1>0, <2>m DEF Types, Bools, endVars, diskVars, linkVars
  <2>2. Flags'
    BY <1>0, <2>m DEF Flags, Quiet
  <2>3. Loops'
    BY <1>0, <2>m, <2>w, WidthIsHost DEF Loops, Hosts
  <2>4. Writes'
    BY <2>m DEF Writes
  <2>5. Verdicts'
    BY <1>0, <2>m DEF Verdicts, Early, diskVars
  <2>6. InStep'
    <3>1. ~behind => Tidy'
      BY <1>0, <2>m, <2>s, <2>w DEF InStep, Tidy, linkVars
    <3>2. ~behind => (was' <=> "playing" \in live'[Main])
      BY <1>0, <2>m, <2>s DEF InStep, linkVars
    <3> QED BY <2>m, <3>1, <3>2 DEF InStep, linkVars
  <2>7. LiveShape' /\ Kept' /\ RowsTell'
    BY <1>0, <2>m, <2>s DEF LiveShape, Kept, RowsTell, endVars, diskVars, linkVars
  <2> QED BY <2>1, <2>2, <2>3, <2>4, <2>5, <2>6, <2>7, <2>m, PromisesElsewhere, Whole
<1> QED BY <1>1, <1>2

LEMMA JournalFinalizingKeeps ==
    ASSUME CaptureInv, JournalFinalizing
    PROVE  CaptureInv'
<1>0. Types /\ Bools /\ Flags /\ Loops /\ Writes /\ Verdicts /\ LiveShape /\ InStep /\ Kept
      /\ RowsTell
  BY Parts
<1>m. /\ pc = "finalizing"
      /\ journal' = [journal EXCEPT ![cur] = "FINALIZING"]
      /\ UNCHANGED <<mode, prepared, before, was, stopped, failed, handling, settled,
                     endVars, files, linkVars>>
  BY DEF JournalFinalizing
<1>p. pc' \in {"finalizing", "copy"} /\ todo' = <<>> /\ (cur' = cur + 1 \/ cur' = 1)
      /\ cur' \in Hosts
  <2>1. todo = <<>>
    BY <1>0, <1>m DEF Flags, Quiet
  <2> QED BY <1>m, <2>1, WidthIsHost DEF JournalFinalizing, More, Goto, Hosts
<1>w. Width' = Width /\ Hosts' = Hosts /\ Taps' = Taps
  BY <1>m, SameWrites
<1>s. Settling /\ Recorded
  BY <1>m DEF Settling, Recorded
<1>1. Types' /\ Bools'
  <2>1. journal' \in [Host -> Open \cup Terminal \cup {"none"}]
    BY <1>0, <1>m DEF Types, Open
  <2>2. cur' \in 0..N
    BY <1>p, WidthIsHost DEF Hosts
  <2> QED BY <1>0, <1>m, <1>p, <2>1, <2>2 DEF Types, Bools, endVars, linkVars
<1>2. Flags'
  BY <1>0, <1>m, <1>p DEF Flags, Quiet
<1>3. Loops'
  BY <1>0, <1>m, <1>p, <1>w, <1>s DEF Loops
<1>4. Writes'
  BY <1>p DEF Writes
<1>5. Verdicts'
  BY <1>0, <1>m, <1>p DEF Verdicts, Early, Terminal, Types
<1>6. InStep'
  <2>1. ~behind => Tidy'
    BY <1>0, <1>m, <1>s, <1>w DEF InStep, Tidy, linkVars
  <2>2. ~behind => (was' <=> "playing" \in live'[Main])
    BY <1>0, <1>m, <1>s DEF InStep, linkVars
  <2> QED BY <1>m, <1>p, <2>1, <2>2 DEF InStep, linkVars
<1>7. LiveShape' /\ Kept' /\ RowsTell'
  BY <1>0, <1>m, <1>p, <1>s DEF LiveShape, Kept, RowsTell, endVars, linkVars
<1> QED BY <1>1, <1>2, <1>3, <1>4, <1>5, <1>6, <1>7, <1>p, PromisesElsewhere, Whole

LEMMA CopyAssetsKeeps ==
    ASSUME CaptureInv, CopyAssets
    PROVE  CaptureInv'
<1>0. Types /\ Bools /\ Flags /\ Loops /\ Writes /\ Verdicts /\ LiveShape /\ InStep /\ Kept
      /\ RowsTell
  BY Parts
<1>1. CASE Raise("error") /\ UNCHANGED journal
  BY <1>1, RaiseWithoutCall DEF CopyAssets, Early
<1>2. CASE ~(Raise("error") /\ UNCHANGED journal)
  <2>m. /\ pc = "copy" /\ pc' = "restore" /\ todo' = RestoreWrites /\ failed' = {}
        /\ journal' = VerifiedBeforeRestore
        /\ UNCHANGED <<mode, cur, prepared, before, was, stopped, handling, settled, endVars>>
        /\ UNCHANGED <<files, linkVars>>
    BY <1>2 DEF CopyAssets, Goto
  <2>w. Width' = Width /\ Hosts' = Hosts /\ Taps' = Taps /\ RestoreHost(1)' = RestoreHost(1)
    BY <2>m, SameWrites
  <2>s. Settling /\ Recorded
    BY <2>m DEF Settling, Recorded
  <2>h. handling = FALSE
    BY <1>0, <2>m DEF Flags, Bools
  <2>t. todo' \in Seq(HostWrite) /\ todo' \in Seq(Proper)
    <3>1. todo' \in Seq(HostWrite)
      BY <1>0, <2>m, RestoreWritesType DEF Types
    <3> QED BY <3>1, HostWriteIsProper, SeqMonotone
  <2>o. mode = "single" => todo' = RestoreHost(1) /\ todo' # <<>>
    <3>1. ASSUME mode = "single" PROVE prepared = 1
      BY <1>0, <2>s, <3>1 DEF Loops, Width
    <3>2. RestoreHost(1) # <<>>
      BY DEF RestoreHost
    <3> QED BY <2>m, <3>1, <3>2, SingleRestore
  <2>j. /\ mode = "batch" => journal' = journal
        /\ mode = "single" => journal' = [journal EXCEPT ![1] = "VERIFIED"]
    BY <2>m DEF VerifiedBeforeRestore
  <2>1. Types' /\ Bools'
    <3>1. journal' \in [Host -> Open \cup Terminal \cup {"none"}]
      BY <1>0, <2>j DEF Types, Terminal
    <3>2. todo' \in Seq(Write)
      BY <2>t, HostWriteIsProper, SeqMonotone
    <3>3. failed' \subseteq Host
      BY <2>m
    <3> QED BY <1>0, <2>m, <3>1, <3>2, <3>3 DEF Types, Bools, endVars, linkVars
  <2>2. Flags'
    BY <1>0, <2>m DEF Flags, Quiet
  <2>3. Loops'
    BY <1>0, <2>m, <2>w, <2>s DEF Loops, Early
  <2>4. Writes'
    BY <2>m, <2>t, <2>o, <2>w DEF Writes
  <2>5. Verdicts'
    <3>1. 1 \in Host
      BY DEF Host
    <3> QED BY <1>0, <2>m, <2>j, <2>h, <3>1 DEF Verdicts, Early, Terminal, Types
  <2>6. InStep'
    <3>1. ~behind => Tidy'
      BY <1>0, <2>m, <2>s, <2>w DEF InStep, Tidy, linkVars
    <3>2. ~behind => (was' <=> "playing" \in live'[Main])
      BY <1>0, <2>m, <2>s DEF InStep, linkVars
    <3> QED BY <2>m, <2>o, <3>1, <3>2 DEF InStep, linkVars
  <2>7. LiveShape' /\ Kept' /\ RowsTell'
    BY <1>0, <2>m, <2>s DEF LiveShape, Kept, RowsTell, endVars, linkVars
  <2> QED BY <2>1, <2>2, <2>3, <2>4, <2>5, <2>6, <2>7, <2>m, PromisesElsewhere, Whole
<1> QED BY <1>1, <1>2

\* The restore found every host back.
LEMMA AllBack ==
    ASSUME CaptureInv, pc = "restore", todo = <<>>, ~handling, ReadReturns,
           \A h \in 1..prepared : Restored(h)
    PROVE  AsBefore
<1>0. Types /\ Bools /\ Loops /\ LiveShape /\ InStep /\ Kept
  BY Parts
<1>s. Settling /\ Recorded
  BY DEF Settling, Recorded
<1>1. ~behind /\ late = <<>> /\ files
  BY <1>0, <1>s DEF ReadReturns, LiveShape, Kept
<1>2. Tidy /\ (was <=> "playing" \in live[Main])
  BY <1>0, <1>1, <1>s DEF InStep
<1>3. live[Main] = IF was THEN {"playing"} ELSE {}
  <2>1. live[Main] \subseteq {"rec", "playing"} /\ "rec" \notin live[Main]
    BY <1>0, <1>1, <1>2 DEF LiveShape, Tidy, Taps
  <2>2. CASE was
    <3>1. "playing" \in live[Main]
      BY <1>2, <2>2
    <3> QED BY <2>1, <2>2, <3>1
  <2>3. CASE ~was
    <3>1. "playing" \notin live[Main]
      BY <1>2, <2>3
    <3> QED BY <2>1, <2>3, <3>1
  <2> QED BY <2>2, <2>3
<1>4. ASSUME NEW g \in Hosts PROVE live[g] = before[g]
  <2>0. g \in Host /\ g \in 1..prepared /\ g \in Place /\ g \in Taps
    BY <1>0, <1>s, <1>4, WidthIsHost, MainIsNoHost DEF Loops, Hosts, Taps
  <2>1. /\ g \notin failed
        /\ live[g] \cap {"input", "output"} = before[g] \cap {"input", "output"}
        /\ mode = "batch" => live[g] \subseteq {"output"}
    BY <2>0 DEF Restored, Parked
  <2>2. CASE mode = "batch"
    BY <1>0, <2>0, <2>1, <2>2 DEF Kept
  <2>3. CASE mode = "single"
    <3>1. g = 1
      BY <1>4, <2>3 DEF Hosts, Width
    <3>2. "monitor" \in live[1] <=> "monitor" \in before[1]
      BY <1>0, <1>1, <2>1, <2>3, <3>1 DEF InStep
    <3>3. "rec" \notin live[1] /\ "playing" \notin live[1]
      BY <1>0, <1>1, <1>2, <2>0, <3>1 DEF Tidy, LiveShape
    <3>4. live[1] \subseteq Field /\ before[1] \subseteq Routing
      BY <1>0, <2>0, <3>1 DEF Types
    <3>5. \A f \in Field : f \in live[1] <=> f \in before[1]
      BY <2>1, <3>1, <3>2, <3>3, <3>4 DEF Field, Routing
    <3>6. \A f : f \in live[1] <=> f \in before[1]
      BY <3>4, <3>5 DEF Field
    <3>7. live[1] = before[1]
      BY <3>6
    <3> QED BY <3>1, <3>7
  <2> QED BY <1>0, <2>2, <2>3 DEF Types
<1> QED BY <1>1, <1>3, <1>4 DEF AsBefore, Back

LEMMA VerifyRestoreKeeps ==
    ASSUME CaptureInv, VerifyRestore
    PROVE  CaptureInv'
<1>0. Types /\ Bools /\ Flags /\ Loops /\ Writes /\ Verdicts /\ LiveShape /\ InStep /\ Kept
      /\ RowsTell /\ VerifiedIsBack
  BY Parts
<1>1. CASE mode = "single" /\ ReadRaises /\ Raise("error")
  BY <1>1, RaiseWithoutCall DEF VerifyRestore, diskVars
<1>2. CASE ~(mode = "single" /\ ReadRaises /\ Raise("error"))
  <2>m. /\ pc = "restore" /\ todo = <<>> /\ settled' = TRUE /\ cur' = 1 /\ todo' = <<>>
        /\ \/ ReadReturns /\ failed' = {h \in 1..prepared : ~Restored(h)}
           \/ mode = "batch" /\ ReadRaises /\ failed' = 1..prepared
        /\ UNCHANGED <<mode, prepared, before, was, stopped, handling, diskVars>>
    BY <1>2 DEF VerifyRestore, Settle, Goto
  <2>p. \/ ~handling /\ pc' = "results" /\ UNCHANGED endVars
        \/ handling /\ mode = "batch" /\ pc' = "failing" /\ UNCHANGED endVars
        \/ /\ handling /\ mode = "single" /\ pc' = "done"
           /\ rows' = [rows EXCEPT ![1] = "failed"] /\ exc' = "none"
           /\ UNCHANGED interrupted
    BY <1>2 DEF VerifyRestore, Goto
  <2>r. /\ live' \in [Place -> SUBSET Field] /\ late' \in Seq(Write)
        /\ behind' \in BOOLEAN /\ lost' \in BOOLEAN
        /\ LiveShape' /\ live' = live /\ late' = late
    BY <1>0, <2>m, ReadKeepsLink
  <2>w. Width' = Width /\ Hosts' = Hosts
    BY <2>m, SameWrites
  <2>s. pc' = "results" => Settling /\ Recorded /\ ~handling /\ prepared = Width
    <3>1. pc' = "results" => ~handling
      BY <2>p
    <3> QED BY <1>0, <2>m, <3>1 DEF Settling, Recorded, Loops
  <2>1. Types'
    <3>1. failed' \subseteq Host
      BY <1>0, <2>m DEF Types, Host
    <3>2. pc' \in {"results", "failing", "done"} /\ exc' \in {"none", "error", "cancel"}
          /\ rows' \in [Host -> {"none", "ok", "failed"}]
      BY <1>0, <2>p DEF Types, endVars
    <3> QED BY <1>0, <2>m, <2>r, <3>1, <3>2 DEF Types, diskVars
  <2>2. Bools'
    <3>1. interrupted' \in BOOLEAN
      BY <1>0, <2>p DEF Bools, endVars
    <3> QED BY <1>0, <2>m, <2>r, <3>1 DEF Bools, diskVars
  <2>3. Flags'
    BY <1>0, <2>m, <2>p DEF Flags, Quiet
  <2>4. Loops'
    BY <1>0, <2>m, <2>p, <2>s, <2>w, WidthIsHost DEF Loops, Early, Hosts, Recorded, Settling
  <2>5. Writes'
    <3>1. pc' \in {"results", "failing", "done"}
      BY <2>p
    <3> QED BY <2>m, <3>1 DEF Writes
  <2>6. Verdicts'
    BY <1>0, <2>m, <2>p DEF Verdicts, Early, diskVars, Host
  <2>7. InStep' /\ Kept'
    BY <1>0, <2>m, <2>p, <2>s DEF InStep, Kept, Recorded, Settling, diskVars
  <2>8. RowsTell'
    <3>1. \A h \in Host : rows'[h] # "ok"
      BY <1>0, <2>m, <2>p DEF RowsTell, Types, endVars
    <3>2. ASSUME pc' = "results", failed' = {} PROVE AsBefore'
      <4>1. 1 \in 1..prepared
        BY <2>s, <3>2, WidthIsHost
      <4>2. ReadReturns /\ \A h \in 1..prepared : Restored(h)
        BY <2>m, <3>2, <4>1
      <4>3. AsBefore
        BY <2>m, <2>s, <3>2, <4>2, AllBack
      <4> QED BY <2>m, <2>r, <2>w, <4>3 DEF AsBefore, Back, diskVars
    <3> QED BY <3>1, <3>2 DEF RowsTell
  <2>9. Promises'
    <3>1. ASSUME mode' = "batch", NEW h \in Host PROVE journal'[h] # "VERIFIED"
      BY <2>m, <3>1, VerifiedPlace DEF diskVars
    <3>2. SettledAtEnd'
      <4> SUFFICES ASSUME pc' = "done", NEW h \in 1..prepared' PROVE journal'[h] \notin Open
        BY DEF SettledAtEnd
      <4>1. handling /\ mode = "single"
        BY <2>p
      <4>2. h = 1
        BY <1>0, <2>m, <4>1 DEF Loops, Width, Types
      <4> QED BY <1>0, <2>m, <4>1, <4>2 DEF Verdicts, diskVars, Open
    <3>3. SuccessIsClean'
      BY <1>0, <2>m, <2>p, <2>w, WidthIsHost DEF SuccessIsClean, RowsTell, Types, endVars
    <3> QED BY <3>1, <3>2, <3>3 DEF Promises, VerifiedIsBack
  <2> QED BY <2>1, <2>2, <2>3, <2>4, <2>5, <2>6, <2>7, <2>8, <2>9, <2>r, Whole
<1> QED BY <1>1, <1>2

LEMMA ReportRowKeeps ==
    ASSUME CaptureInv, ReportRow
    PROVE  CaptureInv'
<1>0. Types /\ Bools /\ Flags /\ Loops /\ Writes /\ Verdicts /\ LiveShape /\ Kept /\ RowsTell
      /\ VerifiedIsBack
  BY Parts
<1>m. /\ pc = "results"
      /\ rows' = [rows EXCEPT ![cur] = IF failed = {} THEN "ok" ELSE "failed"]
      /\ journal' = [journal EXCEPT ![cur] = IF failed = {} THEN "VERIFIED" ELSE "FAILED"]
      /\ UNCHANGED <<mode, prepared, before, was, stopped, failed, handling, settled,
                     exc, interrupted, files, linkVars>>
  BY DEF ReportRow
<1>c. cur \in Hosts /\ cur \in Host /\ prepared = Width /\ todo = <<>>
  BY <1>0, <1>m, WidthIsHost DEF Loops, Flags, Quiet
<1>p. /\ todo' = <<>>
      /\ \/ cur + 1 \in Hosts /\ cur' = cur + 1 /\ pc' = "results"
         \/ cur + 1 \notin Hosts /\ cur' = cur /\ pc' = "done"
  BY <1>m, <1>c DEF ReportRow, More, Goto
<1>w. Width' = Width /\ Hosts' = Hosts
  BY <1>m, SameWrites
<1>b. AsBefore <=> AsBefore'
  BY <1>m, <1>w DEF AsBefore, Back, linkVars
<1>1. Types'
  <2>1. journal' \in [Host -> Open \cup Terminal \cup {"none"}]
    BY <1>0, <1>m DEF Types, Terminal
  <2>2. rows' \in [Host -> {"none", "ok", "failed"}]
    BY <1>0, <1>m DEF Types
  <2>3. cur' \in 0..N /\ pc' \in {"results", "done"}
    BY <1>p, <1>c, WidthIsHost DEF Hosts
  <2> QED BY <1>0, <1>m, <1>p, <2>1, <2>2, <2>3 DEF Types, linkVars
<1>2. Bools'
  BY <1>0, <1>m DEF Bools, linkVars
<1>3. Flags'
  BY <1>0, <1>m, <1>p DEF Flags, Quiet
<1>4. Loops'
  BY <1>0, <1>m, <1>c, <1>p, <1>w DEF Loops, Early, Recorded, Settling
<1>5. Writes'
  <2>1. pc' \in {"results", "done"}
    BY <1>p
  <2> QED BY <1>p, <2>1 DEF Writes
<1>6. Verdicts'
  <2>1. CASE pc' = "done"
    BY <2>1 DEF Verdicts, Early
  <2>2. CASE pc' = "results"
    <3>1. cur' = cur + 1 /\ cur + 1 \in Hosts
      BY <1>p, <2>2
    <3>2. mode = "batch"
      BY <1>0, <1>c, <3>1 DEF Hosts, Width, Types
    <3>3. \A h \in Host : (h >= cur + 1 => h # cur /\ h >= cur) /\ (h < cur + 1 => h = cur \/ h < cur)
      BY <1>c DEF Host
    <3>4. /\ \A h \in Host : h >= cur' => journal'[h] \notin Terminal
          /\ \A h \in Host : h < cur' => journal'[h] \in {"VERIFIED", "FAILED"}
          /\ \A h \in Host : journal'[h] \notin {"IN_DOUBT", "RECOVERED"}
      BY <1>0, <1>m, <3>1, <3>2, <3>3 DEF Verdicts, Types
    <3> QED BY <1>m, <2>2, <3>2, <3>4 DEF Verdicts, Early
  <2> QED BY <1>p, <2>1, <2>2
<1>7. LiveShape' /\ Kept' /\ InStep'
  BY <1>0, <1>m, <1>p DEF LiveShape, Kept, InStep, Recorded, Settling, linkVars
<1>8. RowsTell'
  <2>1. failed' = {} => AsBefore'
    BY <1>0, <1>m, <1>b DEF RowsTell
  <2>2. ASSUME pc' = "results", NEW h \in Host, rows'[h] = "ok"
        PROVE  failed' = {} /\ h < cur' /\ journal'[h] = "VERIFIED"
    <3>1. cur' = cur + 1
      BY <1>p, <2>2
    <3>2. CASE h = cur
      BY <1>0, <1>m, <1>c, <2>2, <3>1, <3>2 DEF Types, Host
    <3>3. CASE h # cur
      <4>1. rows[h] = "ok"
        BY <1>0, <1>m, <2>2, <3>3 DEF Types
      <4> QED BY <1>0, <1>m, <1>c, <3>1, <3>3, <4>1 DEF RowsTell, Types, Host
    <3> QED BY <3>2, <3>3
  <2> QED BY <1>p, <2>1, <2>2 DEF RowsTell
<1>9. Promises'
  <2>1. VerifiedIsBack'
    <3> SUFFICES ASSUME mode' = "batch", NEW h \in Host, journal'[h] = "VERIFIED"
                 PROVE  (files /\ late = <<>> /\ \A g \in Host : Back(g))'
      BY DEF VerifiedIsBack
    <3>1. CASE failed = {}
      BY <1>0, <1>m, <1>b, <1>w, <3>1 DEF RowsTell, AsBefore, Hosts, Host, Width
    <3>2. CASE failed # {}
      <4>1. journal[h] = "VERIFIED"
        BY <1>0, <1>m, <3>2 DEF Types
      <4> QED BY <1>0, <1>m, <4>1 DEF VerifiedIsBack, Back, linkVars
    <3> QED BY <3>1, <3>2
  <2>2. SettledAtEnd'
    <3> SUFFICES ASSUME pc' = "done", NEW h \in 1..prepared' PROVE journal'[h] \notin Open
      BY DEF SettledAtEnd
    <3>1. h \in Host /\ (h = cur \/ h < cur)
      BY <1>m, <1>c, <1>p, WidthIsHost DEF Hosts, Host
    <3> QED BY <1>0, <1>m, <3>1 DEF Verdicts, Open, Types
  <2>3. SuccessIsClean'
    <3> SUFFICES ASSUME NEW h \in Host, rows'[h] = "ok"
                 PROVE  AsBefore' /\ journal'[h] = "VERIFIED"
      BY <1>w, WidthIsHost DEF SuccessIsClean, AsBefore
    <3>1. failed = {} /\ journal'[h] = "VERIFIED"
      <4>1. CASE h = cur
        BY <1>0, <1>m, <4>1 DEF Types
      <4>2. CASE h # cur
        BY <1>0, <1>m, <4>2 DEF Types, RowsTell
      <4> QED BY <4>1, <4>2
    <3> QED BY <1>0, <1>m, <1>b, <3>1 DEF RowsTell
  <2> QED BY <2>1, <2>2, <2>3 DEF Promises
<1> QED BY <1>1, <1>2, <1>3, <1>4, <1>5, <1>6, <1>7, <1>8, <1>9, Whole

LEMMA JournalFailedKeeps ==
    ASSUME CaptureInv, JournalFailed
    PROVE  CaptureInv'
<1>0. Types /\ Bools /\ Flags /\ Loops /\ Writes /\ Verdicts /\ LiveShape /\ Kept /\ RowsTell
      /\ VerifiedIsBack
  BY Parts
<1>m. /\ pc = "failing" /\ journal' = FailedJournal
      /\ UNCHANGED <<mode, prepared, before, was, stopped, failed, handling, settled,
                     interrupted, files, linkVars>>
  BY DEF JournalFailed
<1>p. \/ mode = "single" /\ pc' = "restore" /\ todo' = RestoreWrites /\ UNCHANGED <<cur, rows, exc>>
      \/ mode = "batch" /\ cur < prepared /\ cur' = cur + 1 /\ UNCHANGED <<pc, todo, rows, exc>>
      \/ /\ mode = "batch" /\ cur >= prepared /\ pc' = "done" /\ todo' = <<>>
         /\ rows' = [h \in Host |-> "failed"] /\ exc' = "none" /\ UNCHANGED cur
  BY DEF JournalFailed, Goto
<1>c. cur \in Hosts /\ cur \in Host /\ prepared <= Width /\ handling
      /\ (mode = "single" => prepared = 1 /\ cur = 1 /\ ~settled)
  BY <1>0, <1>m, WidthIsHost DEF Loops, Flags, Hosts, Width
<1>w. Width' = Width /\ Hosts' = Hosts /\ RestoreHost(1)' = RestoreHost(1)
  BY <1>m, SameWrites
<1>t. todo' \in Seq(Proper) /\ (pc' = "restore" => todo' \in Seq(HostWrite))
  <2>1. RestoreWrites \in Seq(HostWrite) /\ RestoreWrites \in Seq(Proper)
    <3>1. RestoreWrites \in Seq(HostWrite)
      BY <1>0, RestoreWritesType DEF Types
    <3> QED BY <3>1, HostWriteIsProper, SeqMonotone
  <2>2. todo \in Seq(Proper) /\ <<>> \in Seq(Proper)
    BY <1>0 DEF Writes
  <2>3. /\ todo' = todo \/ todo' = RestoreWrites \/ todo' = <<>>
        /\ pc' = "restore" => todo' = RestoreWrites
    BY <1>m, <1>p
  <2> QED BY <2>1, <2>2, <2>3
<1>j. \A h \in Host : /\ h = cur /\ cur <= prepared => journal'[h] = "FAILED"
                      /\ h # cur => journal'[h] = journal[h]
                      /\ journal'[h] \in {journal[h], "FAILED"}
  BY <1>0, <1>m DEF FailedJournal, Types
<1>1. Types'
  <2>1. journal' \in [Host -> Open \cup Terminal \cup {"none"}]
    BY <1>0, <1>m DEF Types, Terminal, FailedJournal
  <2>2. rows' \in [Host -> {"none", "ok", "failed"}] /\ exc' \in {"none", "error", "cancel"}
    BY <1>0, <1>p DEF Types
  <2>3. cur' \in 0..N /\ pc' \in {"restore", "failing", "done"}
    BY <1>0, <1>m, <1>p DEF Types
  <2>4. todo' \in Seq(Write)
    BY <1>t, HostWriteIsProper, SeqMonotone
  <2> QED BY <1>0, <1>m, <2>1, <2>2, <2>3, <2>4 DEF Types, linkVars
<1>2. Bools'
  BY <1>0, <1>m DEF Bools, linkVars
<1>3. Flags'
  <2>1. pc' = "failing" => todo' = todo
    BY <1>p
  <2> QED BY <1>0, <1>m, <1>p, <1>c DEF Flags, Quiet
<1>4. Loops'
  <2>1. pc' = "failing" => cur' \in Hosts
    BY <1>0, <1>c, <1>p, WidthIsHost DEF Hosts, Types
  <2>2. pc' \in {"restore", "failing", "done"}
    BY <1>m, <1>p
  <2> QED BY <1>0, <1>m, <1>c, <1>w, <2>1, <2>2 DEF Loops, Early, Recorded, Settling
<1>5. Writes'
  <2>1. pc' = "restore" /\ mode' = "single" => todo' = RestoreHost(1)'
    BY <1>m, <1>p, <1>c, <1>w, SingleRestore
  <2>2. pc' \in {"restore", "failing", "done"}
    BY <1>m, <1>p
  <2> QED BY <1>t, <2>1, <2>2 DEF Writes
<1>6. Verdicts'
  <2>1. CASE mode = "single" /\ pc' = "restore"
    <3>1. journal'[1] = "FAILED"
      BY <1>c, <1>j, <2>1
    <3>2. \A h \in Host : journal'[h] \notin {"IN_DOUBT", "RECOVERED"}
      BY <1>0, <1>m, <1>j DEF Verdicts
    <3> QED BY <1>m, <1>c, <2>1, <3>1, <3>2 DEF Verdicts, Early
  <2>2. CASE mode = "batch" /\ pc' = "failing"
    <3>1. cur' = cur + 1 /\ cur < prepared
      BY <1>m, <1>p, <2>2
    <3>2. \A h \in Host : (h >= cur + 1 => h # cur /\ h >= cur) /\ (h < cur + 1 => h = cur \/ h < cur)
      BY <1>c DEF Host
    <3>3. cur <= prepared
      BY <1>0, <3>1 DEF Types
    <3>4. \A h \in Host : h < cur' => journal'[h] = "FAILED"
      BY <1>0, <1>m, <1>j, <3>1, <3>2, <3>3 DEF Verdicts
    <3>5. \A h \in Host : h >= cur' => journal'[h] \notin Terminal
      BY <1>0, <1>m, <1>j, <2>2, <3>1, <3>2 DEF Verdicts
    <3>6. \A h \in Host : journal'[h] \notin {"IN_DOUBT", "RECOVERED"}
      BY <1>0, <1>m, <1>j DEF Verdicts
    <3> QED BY <1>m, <2>2, <3>4, <3>5, <3>6 DEF Verdicts, Early
  <2>3. CASE pc' = "done"
    BY <2>3 DEF Verdicts, Early
  <2> QED BY <1>m, <1>p, <2>1, <2>2, <2>3
<1>7. LiveShape' /\ Kept' /\ InStep'
  <2>1. pc' \in {"restore", "failing", "done"} /\ handling'
    BY <1>m, <1>p, <1>c
  <2> QED BY <1>0, <1>m, <2>1 DEF LiveShape, Kept, InStep, Recorded, Settling, linkVars
<1>8. RowsTell'
  BY <1>0, <1>m, <1>p DEF RowsTell
<1>9. Promises'
  <2>1. VerifiedIsBack'
    <3>1. ASSUME mode' = "batch", NEW h \in Host PROVE journal'[h] # "VERIFIED"
      BY <1>0, <1>m, <1>j, <3>1, VerifiedPlace
    <3> QED BY <3>1 DEF VerifiedIsBack
  <2>2. SettledAtEnd'
    <3> SUFFICES ASSUME pc' = "done", NEW h \in 1..prepared' PROVE journal'[h] \notin Open
      BY DEF SettledAtEnd
    <3>1. cur >= prepared
      BY <1>m, <1>p
    <3>2. h \in Host /\ (h < cur \/ (h = cur /\ cur <= prepared))
      BY <1>0, <1>m, <3>1 DEF Types, Host
    <3>3. journal'[h] = "FAILED"
      BY <1>0, <1>m, <1>j, <3>2 DEF Verdicts
    <3> QED BY <3>3 DEF Open
  <2>3. SuccessIsClean'
    BY <1>p, <1>m, <1>w, WidthIsHost DEF SuccessIsClean
  <2> QED BY <2>1, <2>2, <2>3 DEF Promises
<1> QED BY <1>1, <1>2, <1>3, <1>4, <1>5, <1>6, <1>7, <1>8, <1>9, Whole

LEMMA CleanUpKeeps ==
    ASSUME CaptureInv, CleanUp
    PROVE  CaptureInv'
<1>0. Types /\ Bools /\ Flags /\ Loops /\ Writes /\ Verdicts /\ LiveShape /\ Kept /\ RowsTell
      /\ VerifiedIsBack
  BY Parts
<1>m. /\ pc = "cleanup"
      /\ journal' = IF cur = 0 THEN journal ELSE [journal EXCEPT ![cur] = "FAILED"]
      /\ UNCHANGED <<mode, prepared, before, was, stopped, failed, handling, settled,
                     endVars, files, linkVars>>
  BY DEF CleanUp
<1>p. \/ cur < prepared /\ cur' = cur + 1 /\ pc' = "cleanup" /\ todo' = RestoreHost(cur + 1)
      \/ ~(cur < prepared) /\ cur' = cur /\ pc' = "done" /\ todo' = <<>>
  BY DEF CleanUp, Goto
<1>c. cur \in 0..N /\ cur <= prepared /\ prepared <= Width /\ prepared \in 0..N
  BY <1>0, <1>m DEF Loops, Types
<1>w. Width' = Width /\ Hosts' = Hosts
  BY <1>m, SameWrites
<1>t. todo' \in Seq(Proper)
  <2>1. CASE cur < prepared
    <3>1. cur + 1 \in Host
      BY <1>c, <2>1 DEF Host
    <3>2. RestoreHost(cur + 1) \in Seq(HostWrite)
      BY <1>0, <3>1, RestoreHostType DEF Types
    <3>3. RestoreHost(cur + 1) \in Seq(Proper)
      BY <3>2, HostWriteIsProper, SeqMonotone
    <3> QED BY <1>p, <2>1, <3>3
  <2>2. CASE ~(cur < prepared)
    <3>1. todo' = <<>>
      BY <1>p, <2>2
    <3> QED BY <3>1
  <2> QED BY <2>1, <2>2
<1>j. \A h \in Host : /\ h = cur => journal'[h] = "FAILED"
                      /\ h # cur => journal'[h] = journal[h]
  BY <1>0, <1>m DEF Types, Host
<1>1. Types'
  <2>1. journal' \in [Host -> Open \cup Terminal \cup {"none"}]
    BY <1>0, <1>m DEF Types, Terminal
  <2>2. cur' \in 0..N /\ pc' \in {"cleanup", "done"}
    BY <1>c, <1>p
  <2>3. todo' \in Seq(Write)
    BY <1>t, HostWriteIsProper, SeqMonotone
  <2> QED BY <1>0, <1>m, <2>1, <2>2, <2>3 DEF Types, linkVars, endVars
<1>2. Bools'
  BY <1>0, <1>m DEF Bools, linkVars, endVars
<1>3. Flags'
  BY <1>0, <1>m, <1>p DEF Flags, Quiet
<1>4. Loops'
  BY <1>c, <1>m, <1>p, <1>w DEF Loops, Early, Recorded, Settling
<1>5. Writes'
  <2>1. pc' \in {"cleanup", "done"}
    BY <1>p
  <2> QED BY <1>t, <2>1 DEF Writes
<1>6. Verdicts'
  <2>1. CASE pc' = "cleanup"
    <3>1. cur' = cur + 1
      BY <1>p, <2>1
    <3>2. \A h \in Host : (h >= cur + 1 => h # cur /\ h >= cur) /\ (h < cur + 1 => h = cur \/ h < cur)
      BY <1>c DEF Host
    <3>3. \A h \in Host : h < cur' => journal'[h] = "FAILED"
      BY <1>0, <1>m, <1>j, <3>1, <3>2 DEF Verdicts
    <3>4. mode = "batch" => \A h \in Host : h >= cur' => journal'[h] \notin Terminal
      BY <1>0, <1>m, <1>j, <3>1, <3>2 DEF Verdicts
    <3>5. \A h \in Host : journal'[h] \notin {"IN_DOUBT", "RECOVERED"}
      BY <1>0, <1>m, <1>j DEF Verdicts
    <3> QED BY <1>m, <2>1, <3>3, <3>4, <3>5 DEF Verdicts, Early
  <2>2. CASE pc' = "done"
    BY <2>2 DEF Verdicts, Early
  <2> QED BY <1>p, <2>1, <2>2
<1>7. LiveShape' /\ Kept' /\ InStep'
  <2>1. pc' \in {"cleanup", "done"}
    BY <1>p
  <2> QED BY <1>0, <1>m, <2>1 DEF LiveShape, Kept, InStep, Recorded, Settling, linkVars
<1>8. RowsTell'
  BY <1>0, <1>m, <1>p DEF RowsTell, endVars
<1>9. Promises'
  <2>1. VerifiedIsBack'
    <3>1. ASSUME mode' = "batch", NEW h \in Host PROVE journal'[h] # "VERIFIED"
      BY <1>0, <1>m, <1>j, <3>1, VerifiedPlace
    <3> QED BY <3>1 DEF VerifiedIsBack
  <2>2. SettledAtEnd'
    <3> SUFFICES ASSUME pc' = "done", NEW h \in 1..prepared' PROVE journal'[h] \notin Open
      BY DEF SettledAtEnd
    <3>1. h \in Host /\ (h < cur \/ h = cur)
      BY <1>c, <1>m, <1>p DEF Host
    <3>2. journal'[h] = "FAILED"
      BY <1>0, <1>m, <1>j, <3>1 DEF Verdicts
    <3> QED BY <3>2 DEF Open
  <2>3. SuccessIsClean'
    BY <1>0, <1>m, <1>w, WidthIsHost DEF SuccessIsClean, RowsTell, endVars
  <2> QED BY <2>1, <2>2, <2>3 DEF Promises
<1> QED BY <1>1, <1>2, <1>3, <1>4, <1>5, <1>6, <1>7, <1>8, <1>9, Whole

-----------------------------------------------------------------------------
(* What happens around the Core.                                           *)

LEMMA InterruptKeeps ==
    ASSUME CaptureInv, Interrupt
    PROVE  CaptureInv'
<1>0. Types /\ Bools /\ Writes /\ LiveShape
  BY Parts
<1>1. pc \notin {"cleanup", "done", "crashed"} /\ Raise("cancel") /\ UNCHANGED diskVars
  BY DEF Interrupt
<1>2. CASE UNCHANGED linkVars \/ ReadRaises
  BY <1>1, <1>2, RaiseWithoutCall DEF diskVars
<1>3. CASE todo # <<>> /\ Missed(Head(todo))
  <2>1. Head(todo) \in Proper
    BY <1>0, <1>3, TailType DEF Writes
  <2>2. Raises(Head(todo))
    BY <1>3 DEF Raises
  <2>3. /\ live' \in [Place -> SUBSET Field] /\ late' \in Seq(Write)
        /\ behind' \in BOOLEAN /\ lost' \in BOOLEAN
        /\ LiveShape'
    <3>1. ASSUME NEW w \in Proper, Raises(w)
          PROVE  /\ live' \in [Place -> SUBSET Field] /\ late' \in Seq(Write)
                 /\ behind' \in BOOLEAN /\ lost' \in BOOLEAN
                 /\ LiveShape'
      BY <1>0, <3>1, CallKeepsLink
    <3> QED BY <2>1, <2>2, <3>1
  <2> QED BY <1>1, <1>3, <2>3, RaiseKeeps DEF diskVars
<1> QED BY <1>2, <1>3 DEF Interrupt

LEMMA CrashKeeps ==
    ASSUME CaptureInv, Crash
    PROVE  CaptureInv'
<1>0. Types /\ Bools /\ Flags /\ LiveShape /\ Kept /\ VerifiedIsBack
  BY Parts
<1>m. /\ pc' = "crashed" /\ todo' = <<>> /\ cur' = 1 /\ prepared' = 0 /\ failed' = {}
      /\ handling' = FALSE /\ settled' = FALSE /\ stopped' = FALSE /\ interrupted' = FALSE
      /\ lost' = TRUE /\ exc' = "none" /\ rows' = [h \in Host |-> "none"]
      /\ UNCHANGED <<mode, before, was, diskVars, live, late, behind>>
  BY DEF Crash, Goto
<1>1. Types'
  BY <1>0, <1>m DEF Types, diskVars
<1>2. Bools'
  BY <1>0, <1>m DEF Bools, diskVars
<1>3. Flags' /\ Verdicts'
  BY <1>m DEF Flags, Quiet, Verdicts, Early
<1>4. Loops'
  <2>1. Width' \in Nat
    BY <1>m, WidthIsHost, SameWrites
  <2> QED BY <1>m, <2>1 DEF Loops, Early, Recorded, Settling
<1>5. Writes'
  BY <1>m DEF Writes
<1>6. LiveShape' /\ InStep' /\ Kept' /\ RowsTell'
  BY <1>0, <1>m DEF LiveShape, InStep, Kept, RowsTell, Recorded, Settling
<1>7. Promises'
  <2>1. VerifiedIsBack'
    BY <1>0, <1>m DEF VerifiedIsBack, Back, diskVars
  <2> QED BY <1>m, <2>1 DEF Promises, SettledAtEnd, SuccessIsClean
<1> QED BY <1>1, <1>2, <1>3, <1>4, <1>5, <1>6, <1>7, Whole

\* What a promise needs says that nothing is on its way to Live.
LEMMA LiveCatchesUpKeeps ==
    ASSUME CaptureInv, LiveCatchesUp
    PROVE  CaptureInv'
<1>0. Types /\ Bools /\ Flags /\ Loops /\ Writes /\ Verdicts /\ LiveShape /\ Kept /\ RowsTell
      /\ VerifiedIsBack /\ SettledAtEnd /\ SuccessIsClean
  BY Parts
<1>m. late # <<>> /\ UNCHANGED <<passVars, pc, todo, endVars, diskVars, behind>>
  BY DEF LiveCatchesUp
<1>b. behind /\ behind'
  BY <1>0, <1>m DEF LiveShape
<1>w. Width' = Width /\ Hosts' = Hosts /\ Taps' = Taps /\ PassBegins' = PassBegins
      /\ Disarm' = Disarm /\ RestoreHost(1)' = RestoreHost(1)
  BY <1>m, SameWrites DEF passVars
<1>1. Types'
  <2>1. late' \in Seq(Write) /\ live' \in [Place -> SUBSET Field]
    <3>1. Head(late) \in Write /\ Tail(late) \in Seq(Write)
      BY <1>0, <1>m, TailType DEF Types
    <3>2. Head(late).at \in SUBSET Place
      BY <3>1 DEF Write
    <3>3. Carry(Head(late), Head(late).at) \in [Place -> SUBSET Field]
      <4>1. \A w \in Write, at \in SUBSET Place : Carry(w, at) \in [Place -> SUBSET Field]
        BY <1>0, CarryType
      <4> QED BY <3>1, <3>2, <4>1
    <3>4. late' = Tail(late) \/ late' = <<>>
      BY DEF LiveCatchesUp
    <3>5. live' = Carry(Head(late), Head(late).at) \/ live' = live
      BY DEF LiveCatchesUp
    <3>0. <<>> \in Seq(Write)
      OBVIOUS
    <3>6. late' \in Seq(Write)
      BY <3>0, <3>1, <3>4
    <3>7. live' \in [Place -> SUBSET Field]
      BY <1>0, <3>3, <3>5 DEF Types
    <3> QED BY <3>6, <3>7
  <2> QED BY <1>0, <1>m, <2>1 DEF Types, passVars, endVars, diskVars
<1>2. Bools'
  <2>1. lost' \in BOOLEAN
    BY <1>0 DEF LiveCatchesUp, Bools
  <2> QED BY <1>0, <1>m, <2>1 DEF Bools, passVars, endVars, diskVars
<1>3. Flags' /\ Loops' /\ Verdicts'
  BY <1>0, <1>m, <1>w
  DEF Flags, Loops, Verdicts, Quiet, Early, Recorded, Settling, passVars, endVars, diskVars
<1>4. Writes'
  <2>1. Stop' = Stop /\ Play' = Play
    BY DEF Stop, Play, Put
  <2>2. todo' = todo /\ pc' = pc /\ mode' = mode /\ exc' = exc
    BY <1>m DEF passVars, endVars
  <2> QED BY <1>0, <1>w, <2>1, <2>2 DEF Writes
<1>5. LiveShape' /\ InStep' /\ Kept'
  BY <1>0, <1>m, <1>b DEF LiveShape, InStep, Kept, Recorded, Settling, passVars, endVars, diskVars
<1>6. RowsTell'
  <2>1. ~(pc = "results" /\ failed = {})
    BY <1>0, <1>m DEF RowsTell, AsBefore
  <2> QED BY <1>0, <1>m, <2>1 DEF RowsTell, passVars, endVars, diskVars
<1>7. Promises'
  <2>1. VerifiedIsBack'
    BY <1>0, <1>m DEF VerifiedIsBack, passVars, diskVars
  <2>2. SettledAtEnd'
    BY <1>0, <1>m DEF SettledAtEnd, passVars, endVars, diskVars
  <2>3. SuccessIsClean'
    BY <1>0, <1>m, <1>w DEF SuccessIsClean, passVars, endVars, diskVars
  <2> QED BY <2>1, <2>2, <2>3 DEF Promises
<1> QED BY <1>1, <1>2, <1>3, <1>4, <1>5, <1>6, <1>7, Whole

LEMMA RecoverKeeps ==
    ASSUME CaptureInv, NEW h \in Host, Recover(h)
    PROVE  CaptureInv'
<1>0. Types /\ Bools /\ Flags /\ Loops /\ Writes /\ Verdicts /\ LiveShape /\ Kept /\ RowsTell
      /\ VerifiedIsBack /\ SettledAtEnd /\ SuccessIsClean
  BY Parts
<1>m. /\ pc \in {"done", "crashed"} /\ journal[h] \in Open
      /\ UNCHANGED <<passVars, pc, todo, endVars, files, linkVars>>
  BY DEF Recover, Unresolved
<1>j. \E verdict \in {"IN_DOUBT", "FAILED", "RECOVERED"} : journal' = [journal EXCEPT ![h] = verdict]
  BY DEF Recover
<1>k. /\ journal' \in [Host -> Open \cup Terminal \cup {"none"}]
      /\ \A g \in Host : g # h => journal'[g] = journal[g]
      /\ journal'[h] \in {"IN_DOUBT", "FAILED", "RECOVERED"}
  BY <1>0, <1>j DEF Types, Terminal
<1>w. Width' = Width /\ Hosts' = Hosts
  BY <1>m, SameWrites DEF passVars
<1>1. Types' /\ Bools'
  BY <1>0, <1>m, <1>k DEF Types, Bools, passVars, endVars, linkVars
<1>2. Flags' /\ Loops'
  BY <1>0, <1>m, <1>w
  DEF Flags, Loops, Quiet, Early, Recorded, Settling, passVars, endVars
<1>3. Writes'
  BY <1>0, <1>m DEF Writes
<1>4. Verdicts'
  BY <1>m DEF Verdicts, Early
<1>5. LiveShape' /\ InStep' /\ Kept' /\ RowsTell'
  BY <1>0, <1>m
  DEF LiveShape, InStep, Kept, RowsTell, Recorded, Settling, passVars, endVars, linkVars
<1>6. Promises'
  <2>1. \A g \in Host : journal'[g] = "VERIFIED" => journal[g] = "VERIFIED"
    BY <1>k
  <2>2. VerifiedIsBack'
    BY <1>0, <1>m, <2>1 DEF VerifiedIsBack, Back, passVars, linkVars
  <2>3. SettledAtEnd'
    <3> SUFFICES ASSUME pc' = "done" /\ (exc' = "none" \/ ~settled'), NEW g \in 1..prepared'
                 PROVE  journal'[g] \notin Open
      BY DEF SettledAtEnd
    <3>1. g \in Host /\ g \in 1..prepared
      BY <1>0, <1>m DEF Types, Host, passVars
    <3>2. journal[g] \notin Open
      BY <1>0, <1>m, <3>1 DEF SettledAtEnd, passVars, endVars
    <3> QED BY <1>k, <3>1, <3>2 DEF Open
  <2>4. SuccessIsClean'
    <3> SUFFICES ASSUME NEW g \in Hosts, rows'[g] = "ok" /\ pc' = "done"
                 PROVE  /\ files' /\ journal'[g] = "VERIFIED" /\ late' = <<>>
                        /\ \A f \in Hosts : Back(f)'
                        /\ live'[Main] = IF was' THEN {"playing"} ELSE {}
      BY <1>w DEF SuccessIsClean
    <3>1. /\ files /\ journal[g] = "VERIFIED" /\ late = <<>>
          /\ \A f \in Hosts : Back(f)
          /\ live[Main] = IF was THEN {"playing"} ELSE {}
      BY <1>0, <1>m DEF SuccessIsClean, endVars
    <3>2. g \in Host /\ g # h
      BY <1>m, <3>1, WidthIsHost DEF Open
    <3> QED BY <1>m, <1>k, <3>1, <3>2 DEF Back, passVars, linkVars
  <2> QED BY <2>2, <2>3, <2>4 DEF Promises
<1> QED BY <1>1, <1>2, <1>3, <1>4, <1>5, <1>6, Whole

-----------------------------------------------------------------------------
(* The calls to Live.                                                      *)

LEMMA TailOfRow ==
    ASSUME NEW S, NEW a \in S, NEW b \in S, NEW c \in S, NEW d \in S
    PROVE  /\ Tail(<<a>>) = <<>> /\ Tail(<<a, b>>) = <<b>> /\ Tail(<<a, b, c>>) = <<b, c>>
           /\ Tail(<<a, b, c, d>>) = <<b, c, d>>
           /\ Head(<<a>>) = a /\ Head(<<a, b>>) = a
           /\ <<b>> # <<>> /\ <<b, c>> # <<>> /\ <<b, c, d>> # <<>>
           /\ <<b, c, d>> # <<a>> /\ <<b, c>> # <<a>>
  OBVIOUS

LEMMA CarryTells ==
    ASSUME Types, NEW w \in Write, NEW at \in SUBSET Place, live' = Carry(w, at), NEW p \in Place
    PROVE  /\ \A f \in Field : f # w.field => (f \in live'[p] <=> f \in live[p])
           /\ ~w.on => live'[p] \subseteq live[p]
           /\ p \in at /\ w.on => w.field \in live'[p]
           /\ p \in at /\ ~w.on => w.field \notin live'[p]
  BY DEF Types, Carry, Write

\* The last write of a host's restore is its monitor.
LEMMA LastIsMonitor ==
    ASSUME Types, todo \in {RestoreHost(1), Tail(RestoreHost(1)), Tail(Tail(RestoreHost(1)))}
    PROVE  /\ Tail(todo) \in {Tail(RestoreHost(1)), Tail(Tail(RestoreHost(1))), <<>>}
           /\ Tail(todo) = <<>> => Head(todo) = Put({1}, "monitor", "monitor" \in before[1])
<1>1. \A k \in 1..3 : RestoreHost(1)[k] \in HostWrite
  BY RestoreHostType DEF Types, Host
<1>2. RestoreHost(1) = <<RestoreHost(1)[1], RestoreHost(1)[2], RestoreHost(1)[3]>>
      /\ RestoreHost(1)[3] = Put({1}, "monitor", "monitor" \in before[1])
  BY DEF RestoreHost
<1>3. PICK a, b, c \in HostWrite :
         RestoreHost(1) = <<a, b, c>> /\ c = Put({1}, "monitor", "monitor" \in before[1])
  BY <1>1, <1>2
<1>4. /\ Tail(<<a, b, c>>) = <<b, c>> /\ Tail(<<b, c>>) = <<c>> /\ Tail(<<c>>) = <<>>
      /\ Head(<<c>>) = c /\ <<b, c>> # <<>> /\ <<c>> # <<>>
  BY <1>1, TailOfRow
<1>5. todo \in {<<a, b, c>>, <<b, c>>, <<c>>}
  BY <1>3, <1>4
<1> QED BY <1>3, <1>4, <1>5

LEMMA TailKeepsWrites ==
    ASSUME Types, Writes, todo # <<>>, todo' = Tail(todo), UNCHANGED <<pc, mode, before, exc>>
    PROVE  Writes'
<1>w. PassBegins' = PassBegins /\ Disarm' = Disarm /\ RestoreHost(1)' = RestoreHost(1)
      /\ Stop' = Stop /\ Play' = Play
  BY SameWrites DEF Stop, Play, Put
<1>1. todo' \in Seq(Proper)
  BY TailType DEF Writes
<1>2. pc = "restore" => todo' \in Seq(HostWrite)
  BY TailType DEF Writes
<1>3. pc = "restore" /\ mode = "single" =>
         todo' \in {RestoreHost(1), Tail(RestoreHost(1)), Tail(Tail(RestoreHost(1))), <<>>}
  BY LastIsMonitor DEF Writes
<1>t. /\ \A s \in PassBegins : Tail(s) \in PassBegins \cup {<<Play, Disarm, Stop>>}
      /\ Tail(<<Play, Disarm, Stop>>) = <<Disarm, Stop>> /\ Tail(<<Disarm, Stop>>) = <<Stop>>
      /\ Tail(<<Stop, Play>>) = <<Play>> /\ Tail(<<Stop>>) = <<>> /\ Tail(<<Play>>) = <<>>
  BY PassRow
<1>5. pc = "pass" =>
         todo' \in PassBegins \cup {<<Play, Disarm, Stop>>, <<Disarm, Stop>>, <<Stop>>, <<>>}
  <2>1. pc = "pass" =>
           todo \in PassBegins \cup {<<Play, Disarm, Stop>>, <<Disarm, Stop>>, <<Stop>>}
    BY DEF Writes
  <2> QED BY <1>t, <2>1
<1>6. pc \in {"transport", "fallback"} => todo' \in {<<Stop>>, <<Stop, Play>>, <<Play>>, <<>>}
  <2>1. pc \in {"transport", "fallback"} => todo \in {<<Stop>>, <<Stop, Play>>, <<Play>>}
    BY DEF Writes
  <2> QED BY <1>t, <2>1
<1>7. pc = "passFinally" /\ exc = "none" => todo' \in Seq(RecOff)
  BY TailType DEF Writes
<1> QED BY <1>w, <1>1, <1>2, <1>3, <1>5, <1>6, <1>7 DEF Writes

\* The write a place is at, where the world is described.
LEMMA HeadTells ==
    ASSUME Types, Flags, Writes, todo # <<>>
    PROVE  /\ Head(todo) \in Proper /\ Head(todo) \in Write /\ Head(todo).at \in SUBSET Place
           /\ pc \notin Quiet
           /\ Recorded => Head(todo).field # "rec" \/ ~Head(todo).on
           /\ Settling => Head(todo).field # "playing"
<1>1. Head(todo) \in Proper
  BY TailType DEF Writes
<1>2. Head(todo) \in Write
  BY <1>1, HostWriteIsProper
<1>3. pc \notin Quiet
  BY DEF Flags
<1>4. ASSUME pc \in {"transport", "fallback"} PROVE Head(todo).field = "playing"
  <2>1. todo \in {<<Stop>>, <<Stop, Play>>, <<Play>>}
    BY <1>4 DEF Writes
  <2>2. Head(todo) \in {Stop, Play}
    BY <2>1, TransportProper, TailOfRow
  <2> QED BY <2>2, TransportProper
<1>5. ASSUME pc = "restore" PROVE Head(todo).field \in Routing
  <2>1. Head(todo) \in HostWrite
    BY <1>5, TailType DEF Writes
  <2> QED BY <2>1 DEF HostWrite
<1>6. ASSUME pc = "passFinally", exc = "none" PROVE Head(todo).field = "rec" /\ ~Head(todo).on
  <2>1. Head(todo) \in RecOff
    BY <1>6, TailType DEF Writes
  <2> QED BY <2>1 DEF RecOff
<1> QED BY <1>1, <1>2, <1>3, <1>4, <1>5, <1>6 DEF Recorded, Settling, Quiet, Routing, Write

LEMMA TidyKept ==
    ASSUME Types, Tidy, NEW w \in Write, NEW at \in SUBSET Place, live' = Carry(w, at),
           Taps' = Taps, w.field # "rec" \/ ~w.on
    PROVE  Tidy'
<1> SUFFICES ASSUME NEW p \in Taps PROVE "rec" \notin live'[p]
  BY DEF Tidy
<1>1. p \in Place /\ "rec" \in Field /\ "rec" \notin live[p]
  BY WidthIsHost, MainIsNoHost DEF Taps, Tidy, Field
<1> QED BY <1>1, CarryTells

LEMMA SamePlace ==
    ASSUME CaptureInv, pc \notin Quiet,
           UNCHANGED <<pc, mode, cur, prepared, before, was, handling, settled, endVars, diskVars>>,
           failed' \subseteq Host, stopped' \in BOOLEAN,
           live' \in [Place -> SUBSET Field], late' \in Seq(Write),
           behind' \in BOOLEAN, lost' \in BOOLEAN, Writes', LiveShape', InStep'
    PROVE  CaptureInv'
<1>0. Types /\ Bools /\ Flags /\ Loops /\ Verdicts /\ Kept /\ RowsTell
  BY Parts
<1>w. Width' = Width /\ Hosts' = Hosts
  BY SameWrites
<1>1. Types'
  <2>1. todo' \in Seq(Write)
    BY HostWriteIsProper, SeqMonotone DEF Writes
  <2> QED BY <1>0, <2>1 DEF Types, endVars, diskVars
<1>2. Bools'
  BY <1>0 DEF Bools, endVars, diskVars
<1>3. Flags' /\ Loops' /\ Verdicts'
  BY <1>0, <1>w
  DEF Flags, Loops, Verdicts, Quiet, Early, Recorded, Settling, endVars, diskVars
<1>4. Kept' /\ RowsTell'
  BY <1>0 DEF Kept, RowsTell, Recorded, Settling, Quiet, endVars, diskVars
<1>5. Promises'
  BY <1>1, <1>3, PromisesElsewhere DEF Quiet
<1> QED BY <1>1, <1>2, <1>3, <1>4, <1>5, Whole

LEMMA CallReturnsKeeps ==
    ASSUME CaptureInv, CallReturns
    PROVE  CaptureInv'
<1>0. Types /\ Bools /\ Flags /\ Loops /\ Writes /\ LiveShape /\ InStep
  BY Parts
<1>m. /\ todo # <<>> /\ Returns(Head(todo)) /\ todo' = Tail(todo)
      /\ UNCHANGED <<pc, mode, cur, prepared, before, was, failed, handling, settled,
                     endVars, diskVars>>
  BY DEF CallReturns
<1>s. stopped' \in BOOLEAN
  BY <1>0 DEF CallReturns, Bools
<1>h. /\ Head(todo) \in Proper /\ Head(todo) \in Write /\ Head(todo).at \in SUBSET Place
      /\ pc \notin Quiet
      /\ Recorded => Head(todo).field # "rec" \/ ~Head(todo).on
      /\ Settling => Head(todo).field # "playing"
  BY <1>0, <1>m, HeadTells
<1>l. /\ live' \in [Place -> SUBSET Field] /\ late' \in Seq(Write)
      /\ behind' \in BOOLEAN /\ lost' \in BOOLEAN
      /\ LiveShape'
  <2>1. ASSUME NEW w \in Proper, Returns(w)
        PROVE  /\ live' \in [Place -> SUBSET Field] /\ late' \in Seq(Write)
               /\ behind' \in BOOLEAN /\ lost' \in BOOLEAN
               /\ LiveShape'
    BY <1>0, <2>1, CallKeepsLink
  <2> QED BY <1>m, <1>h, <2>1
<1>c. ~behind /\ live' = Carry(Head(todo), Head(todo).at)
  BY <1>m DEF Returns
<1>w. Taps' = Taps
  BY <1>m, SameWrites
<1>1. Writes'
  BY <1>0, <1>m, TailKeepsWrites DEF endVars
<1>t. ASSUME NEW p \in Place
      PROVE  /\ \A f \in Field : f # Head(todo).field => (f \in live'[p] <=> f \in live[p])
             /\ p \in Head(todo).at /\ Head(todo).on => Head(todo).field \in live'[p]
             /\ p \in Head(todo).at /\ ~Head(todo).on => Head(todo).field \notin live'[p]
  <2>1. ASSUME NEW w \in Write, NEW at \in SUBSET Place, live' = Carry(w, at)
        PROVE  /\ \A f \in Field : f # w.field => (f \in live'[p] <=> f \in live[p])
               /\ p \in at /\ w.on => w.field \in live'[p]
               /\ p \in at /\ ~w.on => w.field \notin live'[p]
    BY <1>0, <2>1, CarryTells
  <2> QED BY <1>h, <1>c, <2>1
<1>k. ASSUME Tidy, Head(todo).field # "rec" \/ ~Head(todo).on PROVE Tidy'
  <2>1. ASSUME NEW w \in Write, NEW at \in SUBSET Place, live' = Carry(w, at),
               w.field # "rec" \/ ~w.on
        PROVE  Tidy'
    BY <1>0, <1>w, <1>k, <2>1, TidyKept
  <2> QED BY <1>h, <1>c, <1>k, <2>1
<1>2. InStep'
  <2>1. ASSUME pc = "pass", todo' \in {<<Stop>>, <<>>} PROVE Tidy'
    <3>1. todo = <<Disarm, Stop>> \/ todo = <<Stop>>
      <4>1. todo \in PassBegins \cup {<<Play, Disarm, Stop>>, <<Disarm, Stop>>, <<Stop>>}
        BY <1>0, <1>m, <2>1 DEF Writes
      <4>2. ASSUME todo \in PassBegins PROVE FALSE
        <5>1. Tail(todo) \in {PassWrites, <<Play, Disarm, Stop>>}
          BY <4>2, PassRow
        <5> QED BY <1>m, <2>1, <5>1, PassRow
      <4> QED BY <1>m, <2>1, <4>1, <4>2, PassRow
    <3>2. CASE todo = <<Disarm, Stop>>
      <4>1. Head(todo) = Disarm
        BY <3>2, PassRow
      <4>2. Disarm.at = Taps /\ Disarm.field = "rec" /\ ~Disarm.on
        BY DisarmProper DEF RecOff
      <4>3. Taps \subseteq Place
        BY WidthIsHost, MainIsNoHost DEF Taps
      <4> QED BY <1>t, <1>w, <4>1, <4>2, <4>3 DEF Tidy
    <3>3. CASE todo = <<Stop>>
      <4>1. Head(todo) = Stop
        BY <3>3, PassRow
      <4>2. Tidy
        BY <1>0, <1>c, <2>1, <3>3 DEF InStep
      <4> QED BY <1>k, <4>1, <4>2, TransportProper
    <3> QED BY <3>1, <3>2, <3>3
  <2>2. Recorded => Tidy'
    BY <1>0, <1>c, <1>h, <1>k DEF InStep
  <2>3. Settling => (was <=> "playing" \in live'[Main])
    BY <1>0, <1>c, <1>h, <1>t, MainIsNoHost DEF InStep, Field
  <2>4. ASSUME pc = "restore", mode = "single", todo' = <<>>
        PROVE  "monitor" \in live'[1] <=> "monitor" \in before[1]
    <3>1. Head(todo) = Put({1}, "monitor", "monitor" \in before[1])
      BY <1>0, <1>m, <2>4, LastIsMonitor DEF Writes
    <3>2. 1 \in Head(todo).at /\ Head(todo).field = "monitor"
      BY <3>1 DEF Put
    <3>3. Head(todo).on <=> "monitor" \in before[1]
      <4>1. ASSUME NEW b \in BOOLEAN, Head(todo) = Put({1}, "monitor", b)
            PROVE  Head(todo).on <=> b
        BY <4>1 DEF Put
      <4>2. ("monitor" \in before[1]) \in BOOLEAN
        OBVIOUS
      <4> QED BY <3>1, <4>1, <4>2
    <3>4. 1 \in Place
      BY MainIsNoHost DEF Host
    <3> QED BY <1>t, <3>2, <3>3, <3>4
  <2>5. (Recorded' <=> Recorded) /\ (Settling' <=> Settling)
    BY <1>m DEF Recorded, Settling, endVars
  <2> QED BY <1>m, <2>1, <2>2, <2>3, <2>4, <2>5, TransportProper DEF InStep, Stop, Put
<1>3. failed' \subseteq Host
  BY <1>0, <1>m DEF Types
<1> QED BY <1>m, <1>s, <1>h, <1>l, <1>1, <1>2, <1>3, SamePlace

\* A call that did not return either left the reply on its way, or the write
\* reached only some of its taps.
LEMMA RaisesTell ==
    ASSUME Types, Raises(Head(todo)), Head(todo) \in Write, ~behind'
    PROVE  ~behind /\ \E at \in SUBSET Place : live' = Carry(Head(todo), at)
<1>1. Refused(Head(todo))
  BY DEF Raises, Missed
<1>2. Head(todo).at \in SUBSET Place
  BY DEF Write
<1> QED BY <1>1, <1>2 DEF Refused

LEMMA CallRaisesKeeps ==
    ASSUME CaptureInv, CallRaises
    PROVE  CaptureInv'
<1>0. Types /\ Bools /\ Flags /\ Loops /\ Writes /\ Verdicts /\ LiveShape /\ InStep /\ Kept
      /\ RowsTell
  BY Parts
<1>m. todo # <<>> /\ Raises(Head(todo)) /\ UNCHANGED diskVars
  BY DEF CallRaises
<1>h. /\ Head(todo) \in Proper /\ Head(todo) \in Write /\ Head(todo).at \in SUBSET Place
      /\ pc \notin Quiet
      /\ Recorded => Head(todo).field # "rec" \/ ~Head(todo).on
      /\ Settling => Head(todo).field # "playing"
  BY <1>0, <1>m, HeadTells
<1>l. /\ live' \in [Place -> SUBSET Field] /\ late' \in Seq(Write)
      /\ behind' \in BOOLEAN /\ lost' \in BOOLEAN
      /\ LiveShape'
  <2>1. ASSUME NEW w \in Proper, Raises(w)
        PROVE  /\ live' \in [Place -> SUBSET Field] /\ late' \in Seq(Write)
               /\ behind' \in BOOLEAN /\ lost' \in BOOLEAN
               /\ LiveShape'
    BY <1>0, <2>1, CallKeepsLink
  <2> QED BY <1>m, <1>h, <2>1
\* The world is described after the call as it was before it.
<1>k. ASSUME ~behind', Taps' = Taps
      PROVE  /\ ~behind
             /\ Recorded => Tidy'
             /\ Settling => (was <=> "playing" \in live'[Main])
  <2>1. PICK at \in SUBSET Place : live' = Carry(Head(todo), at)
    BY <1>0, <1>m, <1>h, <1>k, RaisesTell
  <2>2. ~behind
    BY <1>0, <1>m, <1>h, <1>k, RaisesTell
  <2>3. ASSUME NEW w \in Write, live' = Carry(w, at)
        PROVE  /\ Tidy /\ (w.field # "rec" \/ ~w.on) => Tidy'
               /\ w.field # "playing" => ("playing" \in live'[Main] <=> "playing" \in live[Main])
    BY <1>0, <1>k, <2>3, TidyKept, CarryTells, MainIsNoHost DEF Field
  <2>4. Recorded => Tidy'
    BY <1>0, <1>h, <2>1, <2>2, <2>3 DEF InStep
  <2>5. Settling => (was <=> "playing" \in live'[Main])
    BY <1>0, <1>h, <2>1, <2>2, <2>3 DEF InStep
  <2> QED BY <2>2, <2>4, <2>5
<1>1. CASE ~Swallowed /\ pc # "transport" /\ Raise("error")
  <2>1. pc \in Early
    BY <1>0, <1>1, <1>h DEF Swallowed, Types, InPass, Early, Quiet
  <2>2. pc \notin {"cleanup", "done", "crashed"}
    BY <2>1 DEF Early
  <2> QED BY <1>1, <1>m, <1>l, <2>1, <2>2, RaiseKeeps DEF diskVars
<1>2. CASE pc = "transport" /\ Goto("fallback", <<Stop>>) /\ UNCHANGED <<passVars, endVars>>
  <2>m. /\ pc' = "fallback" /\ todo' = <<Stop>>
        /\ UNCHANGED <<passVars, endVars, diskVars>>
    BY <1>2, <1>m DEF Goto
  <2>w. Width' = Width /\ Hosts' = Hosts /\ Taps' = Taps /\ Stop' = Stop
    BY <2>m, SameWrites DEF passVars, Stop, Put
  <2>r. Recorded
    BY <1>2 DEF Recorded
  <2>1. Types'
    <3>1. todo' \in Seq(Write)
      BY <2>m, TransportProper, HostWriteIsProper
    <3> QED BY <1>0, <1>l, <2>m, <3>1 DEF Types, InPass, passVars, endVars, diskVars
  <2>2. Bools'
    BY <1>0, <1>l, <2>m DEF Bools, passVars, endVars, diskVars
  <2>3. Flags' /\ Loops'
    BY <1>0, <1>2, <2>m, <2>w, <2>r
    DEF Flags, Loops, Quiet, Early, Recorded, Settling, passVars, endVars
  <2>4. Writes'
    <3>1. todo' \in Seq(Proper) /\ todo' = <<Stop'>>
      BY <2>m, <2>w, TransportProper
    <3> QED BY <2>m, <3>1 DEF Writes
  <2>5. Verdicts'
    BY <1>0, <1>2, <2>m DEF Verdicts, Early, passVars, diskVars
  <2>6. InStep'
    <3>1. ~behind' => Tidy'
      BY <1>k, <2>w, <2>r
    <3> QED BY <2>m, <3>1 DEF InStep, Recorded, Settling
  <2>7. Kept' /\ RowsTell'
    BY <1>0, <1>2, <2>m, <2>r DEF Kept, RowsTell, passVars, endVars, diskVars
  <2> QED BY <1>l, <2>1, <2>2, <2>3, <2>4, <2>5, <2>6, <2>7, <2>m, PromisesElsewhere, Whole
<1>3. CASE ~(~Swallowed /\ pc # "transport" /\ Raise("error"))
           /\ ~(pc = "transport" /\ Goto("fallback", <<Stop>>) /\ UNCHANGED <<passVars, endVars>>)
  <2>m. /\ Swallowed
        /\ failed' = IF pc = "restore" THEN failed \cup Head(todo).at ELSE failed
        /\ todo' = IF pc = "passFinally" /\ Head(todo) = Disarm THEN DisarmEach \o Tail(todo)
                   ELSE Tail(todo)
        /\ UNCHANGED <<pc, mode, cur, prepared, before, was, stopped, handling, settled, endVars>>
    BY <1>3 DEF CallRaises
  <2>w. Taps' = Taps
    BY <2>m, SameWrites
  <2>1. failed' \subseteq Host
    <3>1. CASE pc = "restore"
      <4>1. Head(todo) \in HostWrite
        BY <1>0, <1>m, <3>1, TailType DEF Writes
      <4> QED BY <1>0, <2>m, <3>1, <4>1 DEF HostWrite, Types
    <3>2. CASE pc # "restore"
      BY <1>0, <2>m, <3>2 DEF Types
    <3> QED BY <3>1, <3>2
  <2>2. Writes'
    <3>1. CASE pc = "passFinally" /\ Head(todo) = Disarm
      <4>1. \A S : \A s, t \in Seq(S) : s \o t \in Seq(S)
        OBVIOUS
      <4>2. todo' = DisarmEach \o Tail(todo)
        BY <2>m, <3>1
      <4>3. Tail(todo) \in Seq(Proper)
        BY <1>0, <1>m, TailType DEF Writes
      <4>4. todo' \in Seq(Proper)
        BY <4>1, <4>2, <4>3, DisarmEachType
      <4>5. exc = "none" => todo' \in Seq(RecOff)
        <5>1. exc = "none" => Tail(todo) \in Seq(RecOff)
          BY <1>0, <1>m, <3>1, TailType DEF Writes
        <5> QED BY <4>1, <4>2, <5>1, DisarmEachType
      <4> QED BY <2>m, <3>1, <4>4, <4>5 DEF Writes, endVars
    <3>2. CASE ~(pc = "passFinally" /\ Head(todo) = Disarm)
      <4>1. todo' = Tail(todo)
        BY <2>m, <3>2
      <4> QED BY <1>0, <1>m, <2>m, <4>1, TailKeepsWrites DEF endVars
    <3> QED BY <3>1, <3>2
  <2>3. InStep'
    <3>1. ASSUME pc = "restore", mode = "single", todo' = <<>> PROVE 1 \in failed'
      <4>1. todo' = Tail(todo)
        BY <2>m, <3>1
      <4>2. Head(todo) = Put({1}, "monitor", "monitor" \in before[1])
        BY <1>0, <1>m, <3>1, <4>1, LastIsMonitor DEF Writes
      <4>3. 1 \in Head(todo).at
        BY <4>2 DEF Put
      <4> QED BY <2>m, <3>1, <4>3
    <3>2. (Recorded' <=> Recorded) /\ (Settling' <=> Settling)
      BY <2>m DEF Recorded, Settling, endVars
    <3>3. pc' # "pass"
      BY <2>m DEF Swallowed
    <3> QED BY <1>k, <2>m, <2>w, <3>1, <3>2, <3>3 DEF InStep
  <2>4. stopped' \in BOOLEAN
    BY <1>0, <2>m DEF Bools
  <2> QED BY <1>m, <1>h, <1>l, <2>m, <2>1, <2>2, <2>3, <2>4, SamePlace
<1> QED BY <1>1, <1>2, <1>3

-----------------------------------------------------------------------------
(* The theorems.                                                           *)

LEMMA StepKeeps == CaptureInv /\ [Next]_vars => CaptureInv'
<1> SUFFICES ASSUME CaptureInv, [Next]_vars PROVE CaptureInv'
  OBVIOUS
<1>1. CASE Core
  BY <1>1, CallReturnsKeeps, CallRaisesKeeps, ReadBaselinesKeeps, JournalPreparedKeeps,
     AppendPreparedKeeps, VerifyRoutingKeeps, BeginPassKeeps, HaltedKeeps, PassBreaksKeeps,
     FinalizeKeeps, CheckTransportKeeps, EndPassKeeps, JournalFinalizingKeeps, CopyAssetsKeeps,
     VerifyRestoreKeeps, ReportRowKeeps, JournalFailedKeeps, CleanUpKeeps
  DEF Core
<1>2. CASE Interrupt \/ Crash \/ LiveCatchesUp
  BY <1>2, InterruptKeeps, CrashKeeps, LiveCatchesUpKeeps
<1>3. CASE \E h \in Host : Recover(h)
  BY <1>3, RecoverKeeps
<1>4. CASE UNCHANGED vars
  <2>1. UNCHANGED <<passVars, pc, todo, endVars, diskVars, linkVars>>
    BY <1>4 DEF vars
  <2>2. Writes'
    BY <2>1, SameWrites, Parts DEF Writes, passVars, endVars
  <2>3. CaptureInv /\ Writes' => CaptureInv'
    BY <2>1
    DEF passVars, endVars, diskVars, linkVars, CaptureInv, ControlInv, WorldInv, Promises,
        TypeOK, Flags, Loops, Verdicts, LiveShape, InStep, Kept, RowsTell, VerifiedIsBack,
        SettledAtEnd, SuccessIsClean, Recorded, Settling, Tidy, AsBefore, Back, Hosts, Width, Taps
  <2> QED BY <2>2, <2>3
<1> QED BY <1>1, <1>2, <1>3, <1>4 DEF Next

\* The inductive invariant of the capture pass.
THEOREM CaptureCorrect == Spec => []CaptureInv
  BY InitInv, StepKeeps, PTL DEF Spec

\* The state has its type.
THEOREM CaptureTypeOK == Spec => []TypeOK
  BY CaptureCorrect, PTL DEF CaptureInv, ControlInv

\* The ok row of a source: all hosts back, taps idle, the transport as it was,
\* nothing on its way that could move one of them again.
THEOREM CaptureSuccessIsClean == Spec => []SuccessIsClean
  BY CaptureCorrect, PTL DEF CaptureInv, Promises

\* A VERIFIED journal of a batch, at a crash or an interrupt as at the end.
THEOREM CaptureVerifiedIsBack == Spec => []VerifiedIsBack
  BY CaptureCorrect, PTL DEF CaptureInv, Promises

\* No journal of a prepared host is left open by a pass that returned rows or
\* cleaned up.
THEOREM CaptureSettledAtEnd == Spec => []SettledAtEnd
  BY CaptureCorrect, PTL DEF CaptureInv, Promises

\* A step that leaves the journals alone, or writes the one the loop is at
\* before it has a verdict, keeps every verdict.
LEMMA VerdictStep ==
    CaptureInv /\ [Next]_vars =>
      [\A h \in Host : journal[h] \in Terminal /\ journal'[h] # journal[h] =>
           mode = "single" /\ journal[h] = "VERIFIED" /\ journal'[h] = "FAILED"]_vars
<1> SUFFICES ASSUME CaptureInv, Next, NEW h \in Host,
                    journal[h] \in Terminal, journal'[h] # journal[h]
             PROVE  mode = "single" /\ journal[h] = "VERIFIED" /\ journal'[h] = "FAILED"
  OBVIOUS
<1>0. Types /\ Flags /\ Loops /\ Verdicts
  BY Parts
<1>1. pc \notin Early
  BY <1>0 DEF Verdicts
<1>2. ~JournalPrepared /\ ~VerifyRouting /\ ~JournalFinalizing /\ ~CopyAssets
  BY <1>1 DEF JournalPrepared, VerifyRouting, JournalFinalizing, CopyAssets, Early
<1>3. ~(\E g \in Host : Recover(g))
  <2>1. ASSUME NEW g \in Host, Recover(g) PROVE FALSE
    <3>1. journal[g] \in Open /\ (g # h => journal'[h] = journal[h])
      BY <1>0, <2>1 DEF Recover, Unresolved, Types
    <3> QED BY <3>1 DEF Open, Terminal
  <2> QED BY <2>1
<1>4. ReportRow \/ JournalFailed \/ CleanUp
  <2>1. journal' # journal
    OBVIOUS
  <2> QED BY <1>2, <1>3, <2>1
    DEF Next, Core, CallReturns, CallRaises, ReadBaselines, AppendPrepared, BeginPass, Halted,
        PassBreaks, Finalize, CheckTransport, EndPass, VerifyRestore, Interrupt, Crash, LiveCatchesUp, diskVars
<1>5. h = cur /\ journal'[h] \in {"VERIFIED", "FAILED"}
  BY <1>0, <1>4 DEF ReportRow, JournalFailed, CleanUp, FailedJournal, Types
<1>6. pc \in {"results", "failing", "cleanup"} /\ (pc # "results" => journal'[h] = "FAILED")
  BY <1>0, <1>4, <1>5 DEF ReportRow, JournalFailed, CleanUp, FailedJournal, Types
<1>7. mode = "single"
  <2>1. cur >= cur
    BY <1>0 DEF Types
  <2> QED BY <1>0, <1>5, <1>6, <2>1 DEF Types, Verdicts
<1>8. journal[h] \in {"VERIFIED", "FAILED"}
  BY <1>0, <1>6 DEF Verdicts, Terminal
<1>9. CASE pc = "results"
  <2>1. h = 1
    BY <1>0, <1>5, <1>7, <1>9 DEF Loops, Hosts, Width
  <2> QED BY <1>0, <1>5, <1>7, <1>9, <2>1 DEF Verdicts
<1>10. CASE pc # "results"
  BY <1>6, <1>7, <1>8, <1>10
<1> QED BY <1>9, <1>10

\* A verdict stands against failures, interrupts, crashes and recovery; only a
\* single pass turns VERIFIED into FAILED.
THEOREM CaptureVerdictStands == Spec => VerdictStands
  BY CaptureCorrect, VerdictStep, PTL DEF Spec, VerdictStands

-----------------------------------------------------------------------------
(* What is owed to Live.                                                   *)

\* A write to one switch; a row of writes without one, or with v the last of them.
Touches(w, p, f) == p \in w.at /\ w.field = f
Free(s, p, f) == \A i \in 1..Len(s) : ~Touches(s[i], p, f)
Ends(s, p, f, v) ==
    \E i \in 1..Len(s) :
        /\ Touches(s[i], p, f) /\ s[i].on = v
        /\ \A j \in 1..Len(s) : j > i => ~Touches(s[j], p, f)

\* The switch is at v once Live has carried out what it was sent; once the
\* Core has sent what it is about to.
Settles(p, f, v) == Ends(late, p, f, v) \/ (Free(late, p, f) /\ ((f \in live[p]) = v))
Due(p, f, v) == Ends(todo, p, f, v) \/ (Free(todo, p, f) /\ Settles(p, f, v))

\* From the first write of its restore a host is due back.
Restoring(h) ==
    \/ pc \in {"restore", "results", "done"}
    \/ pc = "failing" /\ mode = "batch"
    \/ pc = "cleanup" /\ h <= cur
HostsDue ==
    ~lost => \A h \in 1..prepared : Restoring(h) =>
        \A f \in Routing : Due(h, f, f \in before[h])

\* Unless it was playing before, the transport is due to stop from the moment it
\* may have been started, and nothing but the pass itself starts it.
Unsure == {"pass", "passFinally", "cleanup"}
NoPlay(s) == \A i \in 1..Len(s) : Touches(s[i], Main, "playing") => ~s[i].on
Stopped == Settles(Main, "playing", FALSE)
StopDue ==
    ~lost /\ ~was =>
        /\ pc \notin Unsure \/ stopped => Stopped
        /\ pc \in Unsure => Due(Main, "playing", FALSE)
        /\ NoPlay(todo) \/ (pc = "pass" /\ ~stopped)

\* Before the pass, it has not been stopped by the pass.
NotYet == pc \in {"open", "record", "append", "prepare", "begin", "halt"} => ~stopped

\* Rows, taken and put together.
LEMMA EmptyRow ==
    ASSUME NEW p, NEW f, NEW v
    PROVE  Free(<<>>, p, f) /\ ~Ends(<<>>, p, f, v) /\ NoPlay(<<>>)
  BY DEF Free, Ends, NoPlay

LEMMA TailRow ==
    ASSUME NEW s \in Seq(Write), s # <<>>, NEW p, NEW f, NEW v
    PROVE  /\ Free(s, p, f) => Free(Tail(s), p, f) /\ ~Touches(Head(s), p, f)
           /\ Ends(s, p, f, v) =>
                 \/ Ends(Tail(s), p, f, v)
                 \/ Touches(Head(s), p, f) /\ Head(s).on = v /\ Free(Tail(s), p, f)
           /\ NoPlay(s) =>
                 NoPlay(Tail(s)) /\ (Touches(Head(s), Main, "playing") => ~Head(s).on)
<1>1. /\ Len(s) \in Nat \ {0} /\ Len(Tail(s)) = Len(s) - 1 /\ Head(s) = s[1]
      /\ \A i \in 1..Len(Tail(s)) : Tail(s)[i] = s[i + 1]
  OBVIOUS
<1>2. Free(s, p, f) => Free(Tail(s), p, f) /\ ~Touches(Head(s), p, f)
  BY <1>1 DEF Free
<1>3. NoPlay(s) => NoPlay(Tail(s)) /\ (Touches(Head(s), Main, "playing") => ~Head(s).on)
  BY <1>1 DEF NoPlay
<1>4. ASSUME Ends(s, p, f, v)
      PROVE  \/ Ends(Tail(s), p, f, v)
             \/ Touches(Head(s), p, f) /\ Head(s).on = v /\ Free(Tail(s), p, f)
  <2>1. PICK i \in 1..Len(s) :
            /\ Touches(s[i], p, f) /\ s[i].on = v
            /\ \A j \in 1..Len(s) : j > i => ~Touches(s[j], p, f)
    BY <1>4 DEF Ends
  <2>2. CASE i = 1
    <3>1. \A j \in 1..Len(Tail(s)) : ~Touches(Tail(s)[j], p, f)
      BY <1>1, <2>1, <2>2
    <3> QED BY <1>1, <2>1, <2>2, <3>1 DEF Free
  <2>3. CASE i # 1
    <3>1. i - 1 \in 1..Len(Tail(s)) /\ Tail(s)[i - 1] = s[i]
      BY <1>1, <2>1, <2>3
    <3>2. \A j \in 1..Len(Tail(s)) : j > i - 1 => ~Touches(Tail(s)[j], p, f)
      BY <1>1, <2>1
    <3> QED BY <2>1, <3>1, <3>2 DEF Ends
  <2> QED BY <2>2, <2>3
<1> QED BY <1>2, <1>3, <1>4

LEMMA AppendRow ==
    ASSUME NEW s \in Seq(Write), NEW w \in Write, NEW p, NEW f, NEW v
    PROVE  /\ Touches(w, p, f) /\ w.on = v => Ends(Append(s, w), p, f, v)
           /\ ~Touches(w, p, f) /\ Free(s, p, f) => Free(Append(s, w), p, f)
           /\ ~Touches(w, p, f) /\ Ends(s, p, f, v) => Ends(Append(s, w), p, f, v)
<1> DEFINE t == Append(s, w)
<1>1. /\ Len(s) \in Nat /\ Len(t) = Len(s) + 1 /\ t[Len(s) + 1] = w
      /\ \A i \in 1..Len(s) : t[i] = s[i]
  OBVIOUS
<1> HIDE DEF t
<1>2. Touches(w, p, f) /\ w.on = v => Ends(t, p, f, v)
  BY <1>1 DEF Ends
<1>3. ~Touches(w, p, f) /\ Free(s, p, f) => Free(t, p, f)
  BY <1>1 DEF Free
<1>4. ~Touches(w, p, f) /\ Ends(s, p, f, v) => Ends(t, p, f, v)
  BY <1>1 DEF Ends
<1> QED BY <1>2, <1>3, <1>4 DEF t

LEMMA PrefixRow ==
    ASSUME NEW r \in Seq(Write), NEW s \in Seq(Write), NEW p, NEW f, NEW v, Free(r, p, f)
    PROVE  /\ Free(s, p, f) => Free(r \o s, p, f)
           /\ Ends(s, p, f, v) => Ends(r \o s, p, f, v)
<1> DEFINE t == r \o s
<1>1. /\ Len(r) \in Nat /\ Len(s) \in Nat /\ Len(t) = Len(r) + Len(s)
      /\ \A i \in 1..Len(r) : t[i] = r[i]
      /\ \A i \in 1..Len(s) : t[Len(r) + i] = s[i]
  BY ConcatProperties
<1> HIDE DEF t
<1>2. \A i \in 1..Len(t) :
         i \in 1..Len(r) \/ (i - Len(r) \in 1..Len(s) /\ t[i] = s[i - Len(r)])
  <2> TAKE i \in 1..Len(t)
  <2>1. i \notin 1..Len(r) => i - Len(r) \in 1..Len(s) /\ Len(r) + (i - Len(r)) = i
    BY <1>1
  <2> QED BY <1>1, <2>1
<1>3. \A i \in 1..Len(r) : ~Touches(t[i], p, f)
  BY <1>1 DEF Free
<1>4. ASSUME Free(s, p, f) PROVE Free(t, p, f)
  <2> SUFFICES ASSUME NEW i \in 1..Len(t) PROVE ~Touches(t[i], p, f)
    BY DEF Free
  <2>1. CASE i \in 1..Len(r)
    BY <1>3, <2>1
  <2>2. CASE i - Len(r) \in 1..Len(s) /\ t[i] = s[i - Len(r)]
    BY <1>4, <2>2 DEF Free
  <2> QED BY <1>2, <2>1, <2>2
<1>5. ASSUME Ends(s, p, f, v) PROVE Ends(t, p, f, v)
  <2>1. PICK i \in 1..Len(s) :
            /\ Touches(s[i], p, f) /\ s[i].on = v
            /\ \A j \in 1..Len(s) : j > i => ~Touches(s[j], p, f)
    BY <1>5 DEF Ends
  <2>2. Len(r) + i \in 1..Len(t) /\ t[Len(r) + i] = s[i]
    BY <1>1
  <2>3. ASSUME NEW j \in 1..Len(t), j > Len(r) + i PROVE ~Touches(t[j], p, f)
    <3>1. j \notin 1..Len(r) /\ j - Len(r) > i
      BY <1>1, <2>3
    <3>2. j - Len(r) \in 1..Len(s) /\ t[j] = s[j - Len(r)]
      BY <1>2, <3>1
    <3> QED BY <2>1, <3>1, <3>2
  <2> QED BY <2>1, <2>2, <2>3 DEF Ends
<1> QED BY <1>4, <1>5 DEF t

\* A call that was not refused moves what it says, now or when Live gets to it.
LEMMA SentSettles ==
    ASSUME Types, LiveShape, NEW w \in Write, Returns(w) \/ Missed(w),
           NEW p \in Place, NEW f \in Field, NEW v \in BOOLEAN
    PROVE  /\ Touches(w, p, f) /\ w.on = v => Settles(p, f, v)'
           /\ ~Touches(w, p, f) /\ Settles(p, f, v) => Settles(p, f, v)'
<1>0. late \in Seq(Write) /\ live \in [Place -> SUBSET Field]
  BY DEF Types
<1>1. CASE Returns(w)
  <2>1. late = <<>> /\ late' = <<>> /\ live' = Carry(w, w.at)
    BY <1>1 DEF Returns, LiveShape
  <2>2. /\ Touches(w, p, f) /\ w.on => f \in live'[p]
        /\ Touches(w, p, f) /\ ~w.on => f \notin live'[p]
        /\ ~Touches(w, p, f) => (f \in live'[p] <=> f \in live[p])
    BY <1>0, <2>1 DEF Touches, Carry
  <2>3. w.on \in BOOLEAN
    BY DEF Write
  <2>4. Free(<<>>, p, f) /\ ~Ends(<<>>, p, f, v)
    BY EmptyRow
  <2> QED BY <2>1, <2>2, <2>3, <2>4 DEF Settles
<1>2. CASE Missed(w)
  <2>1. late' = Append(late, w) /\ live' = live
    BY <1>2 DEF Missed
  <2> QED BY <1>0, <2>1, AppendRow DEF Settles
<1> QED BY <1>1, <1>2

\* Live carries out what it was sent in the order it was sent.
LEMMA CatchUpSettles ==
    ASSUME Types, late # <<>>, late' = Tail(late), live' = Carry(Head(late), Head(late).at),
           NEW p \in Place, NEW f \in Field, NEW v \in BOOLEAN, Settles(p, f, v)
    PROVE  Settles(p, f, v)'
<1>0. late \in Seq(Write) /\ live \in [Place -> SUBSET Field] /\ Head(late) \in Write
  BY DEF Types
<1>1. /\ Touches(Head(late), p, f) /\ Head(late).on => f \in live'[p]
      /\ Touches(Head(late), p, f) /\ ~Head(late).on => f \notin live'[p]
      /\ ~Touches(Head(late), p, f) => (f \in live'[p] <=> f \in live[p])
  BY <1>0 DEF Touches, Carry
<1>2. Head(late).on \in BOOLEAN
  BY <1>0 DEF Write
<1> QED BY <1>0, <1>1, <1>2, TailRow DEF Settles

\* The Core sends the head of its writes.
LEMMA SentDue ==
    ASSUME Types, LiveShape, todo # <<>>, Returns(Head(todo)) \/ Missed(Head(todo)),
           todo' = Tail(todo),
           NEW p \in Place, NEW f \in Field, NEW v \in BOOLEAN, Due(p, f, v)
    PROVE  Due(p, f, v)'
<1>1. todo \in Seq(Write) /\ Head(todo) \in Write
  BY DEF Types
<1>2. /\ Touches(Head(todo), p, f) /\ Head(todo).on = v => Settles(p, f, v)'
      /\ ~Touches(Head(todo), p, f) /\ Settles(p, f, v) => Settles(p, f, v)'
  BY <1>1, SentSettles
<1> QED BY <1>1, <1>2, TailRow DEF Due

\* The rows of writes that matter here.
LEMMA StopRows ==
    /\ Ends(<<Stop>>, Main, "playing", FALSE)
    /\ Ends(<<Disarm>> \o <<Stop>>, Main, "playing", FALSE)
    /\ Free(<<Disarm>>, Main, "playing") /\ <<Disarm>> \o <<>> = <<Disarm>>
    /\ \A s \in PassBegins : Ends(s, Main, "playing", FALSE)
    /\ NoPlay(<<Stop>>) /\ NoPlay(<<Disarm>>) /\ NoPlay(<<Disarm>> \o <<Stop>>)
<1>1. /\ Stop \in Write /\ Play \in Write /\ Disarm \in Write /\ Put(Taps, "rec", TRUE) \in Write
  BY TransportProper, DisarmProper, HostWriteIsProper
<1>2. <<Disarm>> \o <<Stop>> = <<Disarm, Stop>> /\ <<Disarm>> \o <<>> = <<Disarm>>
  BY <1>1, TwoInRow
<1>3. /\ Touches(Stop, Main, "playing") /\ ~Stop.on /\ Stop.on = FALSE
      /\ ~Touches(Disarm, Main, "playing")
  BY DEF Touches, Stop, Disarm, Put
<1>4. Ends(<<Stop>>, Main, "playing", FALSE) /\ NoPlay(<<Stop>>)
  BY <1>3 DEF Ends, NoPlay
<1>5. Free(<<Disarm>>, Main, "playing") /\ NoPlay(<<Disarm>>)
  BY <1>3 DEF Free, NoPlay
<1>6. Ends(<<Disarm, Stop>>, Main, "playing", FALSE) /\ NoPlay(<<Disarm, Stop>>)
  BY <1>3 DEF Ends, NoPlay
<1>7. Ends(PassWrites, Main, "playing", FALSE)
  <2>1. PassWrites[4] = Stop /\ Len(PassWrites) = 4
    BY DEF PassWrites
  <2>2. \A j \in 1..4 : ~(j > 4)
    OBVIOUS
  <2> QED BY <1>3, <2>1, <2>2 DEF Ends
<1>8. Ends(<<Disarm, Put(Taps, "rec", TRUE), Play, Disarm, Stop>>, Main, "playing", FALSE)
  <2> DEFINE s == <<Disarm, Put(Taps, "rec", TRUE), Play, Disarm, Stop>>
  <2>1. s[5] = Stop /\ Len(s) = 5
    OBVIOUS
  <2>2. \A j \in 1..5 : ~(j > 5)
    OBVIOUS
  <2> QED BY <1>3, <2>1, <2>2 DEF Ends
<1>9. \A s \in PassBegins : Ends(s, Main, "playing", FALSE)
  BY <1>7, <1>8, PassBeginsRow
<1> QED BY <1>2, <1>4, <1>5, <1>6, <1>9

\* Writes to hosts do not touch the transport.
LEMMA HostRows ==
    ASSUME NEW s \in Seq(HostWrite)
    PROVE  Free(s, Main, "playing") /\ NoPlay(s)
<1>1. \A i \in 1..Len(s) : ~Touches(s[i], Main, "playing")
  <2>1. \A i \in 1..Len(s) : s[i] \in HostWrite
    OBVIOUS
  <2> QED BY <2>1, MainIsNoHost DEF HostWrite, Touches
<1> QED BY <1>1 DEF Free, NoPlay

\* Nor does the preparation of a host, or the taps one by one.
LEMMA PrepareRow == ASSUME NEW h \in Host PROVE NoPlay(PrepareWrites(h))
<1>1. \A i \in 1..4 : ~Touches(PrepareWrites(h)[i], Main, "playing")
  BY MainIsNoHost DEF PrepareWrites, Touches, Put
<1> QED BY <1>1 DEF NoPlay, PrepareWrites

LEMMA DisarmEachRow ==
    /\ Free(DisarmEach, Main, "playing") /\ NoPlay(DisarmEach)
    /\ DisarmEach \in Seq(Write)
<1>1. \A i \in 1..Len(DisarmEach) : DisarmEach[i] \in RecOff
  BY DisarmEachType
<1>2. \A w \in RecOff : ~Touches(w, Main, "playing")
  BY DEF RecOff, Touches
<1>3. DisarmEach \in Seq(Write)
  BY DisarmEachType, HostWriteIsProper, SeqMonotone
<1> QED BY <1>1, <1>2, <1>3 DEF Free, NoPlay

LEMMA JoinedNoPlay ==
    ASSUME NEW r \in Seq(Write), NEW s \in Seq(Write), NoPlay(r), NoPlay(s)
    PROVE  NoPlay(r \o s)
<1> DEFINE t == r \o s
<1>1. /\ Len(r) \in Nat /\ Len(s) \in Nat /\ Len(t) = Len(r) + Len(s)
      /\ \A i \in 1..Len(t) : t[i] = IF i <= Len(r) THEN r[i] ELSE s[i - Len(r)]
  BY ConcatProperties
<1> HIDE DEF t
<1>2. \A i \in 1..Len(t) :
         \/ i \in 1..Len(r) /\ t[i] = r[i]
         \/ i - Len(r) \in 1..Len(s) /\ t[i] = s[i - Len(r)]
  BY <1>1
<1>3. NoPlay(t)
  BY <1>2 DEF NoPlay
<1> QED BY <1>3 DEF t

\* The restore of a host writes each of its switches back.
LEMMA RestoreHostRow ==
    ASSUME NEW h \in Host, NEW f \in Routing
    PROVE  /\ Ends(RestoreHost(h), h, f, f \in before[h])
           /\ \A g \in Host : g # h => Free(RestoreHost(h), g, f)
<1>1. /\ Len(RestoreHost(h)) = 3
      /\ RestoreHost(h)[1] = Put({h}, "input", "input" \in before[h])
      /\ RestoreHost(h)[2] = Put({h}, "output", "output" \in before[h])
      /\ RestoreHost(h)[3] = Put({h}, "monitor", "monitor" \in before[h])
  BY DEF RestoreHost
<1>2. \E i \in 1..3 :
          /\ Touches(RestoreHost(h)[i], h, f) /\ RestoreHost(h)[i].on = (f \in before[h])
          /\ \A j \in 1..3 : j > i => ~Touches(RestoreHost(h)[j], h, f)
  <2>1. CASE f = "input"
    BY <1>1, <2>1 DEF Touches, Put
  <2>2. CASE f = "output"
    BY <1>1, <2>2 DEF Touches, Put
  <2>3. CASE f = "monitor"
    BY <1>1, <2>3 DEF Touches, Put
  <2> QED BY <2>1, <2>2, <2>3 DEF Routing
<1>3. \A g \in Host : g # h => \A j \in 1..3 : ~Touches(RestoreHost(h)[j], g, f)
  BY <1>1 DEF Touches, Put
<1> QED BY <1>1, <1>2, <1>3 DEF Ends, Free

LEMMA RestoreRow ==
    ASSUME prepared \in 0..N, NEW h \in 1..prepared, NEW f \in Routing
    PROVE  Ends(RestoreWrites, h, f, f \in before[h])
<1>1. h \in Host /\ prepared \in Nat
  BY DEF Host
<1>2. PICK k \in 1..3 :
          /\ Touches(RestoreHost(h)[k], h, f) /\ RestoreHost(h)[k].on = (f \in before[h])
          /\ \A j \in 1..3 : j > k => ~Touches(RestoreHost(h)[j], h, f)
  <2>1. Len(RestoreHost(h)) = 3
    BY DEF RestoreHost
  <2> QED BY <1>1, <2>1, RestoreHostRow DEF Ends
<1> DEFINE n == 3 * (h - 1) + k
<1>3. n \in 1..(3 * prepared) /\ 1 + ((n - 1) \div 3) = h /\ 1 + ((n - 1) % 3) = k
  OBVIOUS
<1>4. ASSUME NEW j \in 1..(3 * prepared), j > n
      PROVE  ~Touches(RestoreHost(1 + ((j - 1) \div 3))[1 + ((j - 1) % 3)], h, f)
  <2> DEFINE g == 1 + ((j - 1) \div 3)
             m == 1 + ((j - 1) % 3)
  <2>1. g \in 1..prepared /\ m \in 1..3 /\ j = 3 * (g - 1) + m
    BY <1>1, RestoreIndex
  <2> HIDE DEF g, m
  <2>2. CASE g = h
    <3>1. m > k
      BY <1>4, <2>1, <2>2
    <3> QED BY <1>2, <2>1, <2>2, <3>1 DEF g, m
  <2>3. CASE g # h
    <3>1. g \in Host /\ Len(RestoreHost(g)) = 3
      BY <2>1 DEF Host, RestoreHost
    <3>2. Free(RestoreHost(g), h, f)
      BY <1>1, <2>3, <3>1, RestoreHostRow
    <3> QED BY <2>1, <3>1, <3>2 DEF Free, g, m
  <2> QED BY <2>2, <2>3
<1>5. /\ Len(RestoreWrites) = 3 * prepared /\ RestoreWrites[n] = RestoreHost(h)[k]
      /\ \A j \in 1..(3 * prepared) :
            RestoreWrites[j] = RestoreHost(1 + ((j - 1) \div 3))[1 + ((j - 1) % 3)]
  <2>1. 3 * prepared \in Nat
    BY <1>1
  <2> QED BY <1>3, <2>1 DEF RestoreWrites
<1> HIDE DEF n
<1> QED BY <1>2, <1>3, <1>4, <1>5 DEF Ends

\* What a step of the link leaves due: a read leaves the writes as they are, a
\* write without an answer is still on its way.
Moved ==
    \/ UNCHANGED <<live, late>>
    \/ todo # <<>> /\ Missed(Head(todo))

\* Where Live does not move, what is settled stays so.
LEMMA SameSettles ==
    ASSUME UNCHANGED <<live, late>>, NEW p, NEW f, NEW v
    PROVE  Settles(p, f, v)' <=> Settles(p, f, v)
  BY DEF Settles, Ends, Free

\* A stopped transport stays stopped while the pass has no play left to send.
LEMMA MovedStopped ==
    ASSUME Types, LiveShape, Moved, Stopped, NoPlay(todo)
    PROVE  Stopped'
<1>1. CASE UNCHANGED <<live, late>>
  BY <1>1, SameSettles DEF Stopped
<1>2. CASE todo # <<>> /\ Missed(Head(todo))
  <2>1. todo \in Seq(Write) /\ Head(todo) \in Write
    BY <1>2 DEF Types
  <2>2. Touches(Head(todo), Main, "playing") => Head(todo).on = FALSE
    <3>1. Touches(Head(todo), Main, "playing") => ~Head(todo).on
      BY <1>2, <2>1, TailRow
    <3>2. Head(todo).on \in BOOLEAN
      BY <2>1 DEF Write
    <3> QED BY <3>1, <3>2
  <2>3. Main \in Place /\ "playing" \in Field
    BY MainIsNoHost DEF Field
  <2> QED BY <1>2, <2>1, <2>2, <2>3, SentSettles DEF Stopped
<1> QED BY <1>1, <1>2 DEF Moved

\* Any exception, from any place that may raise it.
LEMMA RaiseDue ==
    ASSUME CaptureInv, HostsDue, StopDue, NEW e \in {"error", "cancel"}, Raise(e),
           pc \notin {"cleanup", "done", "crashed"},
           pc = "passFinally" /\ e = "error" => todo = <<>>,
           lost' \/ (lost' = lost /\ Moved)
    PROVE  HostsDue' /\ StopDue'
<1>0. /\ Types /\ Bools /\ Flags /\ Loops /\ Writes /\ LiveShape
  BY Parts
<1>m. /\ mode' = mode /\ prepared' = prepared /\ before' = before /\ was' = was
      /\ stopped' = stopped
  BY DEF Raise
<1>a. \/ /\ pc \in InPass /\ pc' = "passFinally"
         /\ todo' = <<Disarm>> \o (IF stopped THEN <<>> ELSE <<Stop>>)
      \/ /\ pc \notin InPass /\ e = "error"
         /\ mode = "batch" /\ pc' = "restore" /\ todo' = RestoreWrites
      \/ /\ pc \notin InPass /\ e = "error"
         /\ mode = "single" /\ pc' = "failing" /\ todo' = <<>>
      \/ pc \notin InPass /\ pc' = "cleanup" /\ todo' = <<Stop>> /\ cur' = 0
      \/ /\ pc \notin InPass /\ (settled \/ (mode = "single" /\ prepared = 0))
         /\ pc' = "done" /\ todo' = <<>>
  <2>1. mode # "batch" => mode = "single"
    BY <1>0 DEF Types
  <2> QED BY <2>1 DEF Raise
<1>r. todo' = RestoreWrites => RestoreWrites' = RestoreWrites
  BY <1>m DEF RestoreWrites, RestoreHost, Put
<1>1. HostsDue'
  <2> SUFFICES ASSUME ~lost', NEW h \in 1..prepared, Restoring(h)', NEW f \in Routing
               PROVE  Due(h, f, f \in before[h])'
    BY <1>m DEF HostsDue
  <2>0. h \in Nat /\ 1 <= h
    BY <1>0 DEF Types
  <2>1. CASE pc' = "restore"
    <3>1. todo' = RestoreWrites /\ before' = before
      BY <1>a, <1>m, <2>1
    <3>2. Ends(RestoreWrites, h, f, f \in before[h])
      BY <1>0, RestoreRow DEF Types
    <3> QED BY <3>1, <3>2 DEF Due, Ends
  <2>2. CASE pc' = "done"
    <3>1. settled
      BY <1>a, <2>2, <2>0
    <3>2. pc \in {"results", "failing"} /\ (pc = "failing" => mode = "batch")
      <4>1. mode = "single" => mode # "batch"
        OBVIOUS
      <4> QED BY <1>0, <3>1 DEF Flags, Types
    <3>3. todo = <<>> /\ todo' = <<>>
      BY <1>0, <1>a, <2>2, <3>2 DEF Flags, Quiet
    <3>4. Due(h, f, f \in before[h])
      BY <3>2 DEF HostsDue, Restoring
    <3>5. UNCHANGED <<live, late>>
      BY <3>3 DEF Moved
    <3> QED BY <1>m, <3>3, <3>4, <3>5 DEF Due, Settles, Ends, Free
  <2>3. CASE pc' \notin {"restore", "done"}
    BY <1>a, <1>m, <2>0, <2>3 DEF Restoring
  <2> QED BY <2>1, <2>2, <2>3
<1>2. StopDue'
  <2> SUFFICES ASSUME ~lost', ~was
               PROVE  /\ pc' \notin Unsure \/ stopped => Stopped'
                      /\ pc' \in Unsure => Due(Main, "playing", FALSE)'
                      /\ NoPlay(todo')
    BY <1>m DEF StopDue, NoPlay, Touches
  <2>1. /\ pc \notin Unsure \/ stopped => Stopped
        /\ pc \in Unsure => Due(Main, "playing", FALSE)
        /\ NoPlay(todo) \/ (pc = "pass" /\ ~stopped)
    BY DEF StopDue
  <2>2. stopped => Stopped'
    BY <1>0, <2>1, MovedStopped
  <2>3. CASE pc \in InPass
    <3>1. CASE stopped
      <4>1. todo' = <<Disarm>>
        BY <1>a, <2>3, <3>1, StopRows
      <4>2. Free(<<Disarm>>, Main, "playing") /\ NoPlay(<<Disarm>>)
        BY StopRows
      <4>3. Due(Main, "playing", FALSE)'
        BY <2>2, <3>1, <4>1, <4>2 DEF Due, Stopped, Free
      <4> QED BY <1>a, <2>2, <2>3, <4>1, <4>2, <4>3 DEF Unsure
    <3>2. CASE ~stopped
      <4>1. todo' = <<Disarm>> \o <<Stop>>
        BY <1>a, <2>3, <3>2
      <4>2. Ends(todo', Main, "playing", FALSE) /\ NoPlay(todo')
        BY <4>1, StopRows
      <4>3. Due(Main, "playing", FALSE)'
        BY <4>2 DEF Due, Ends
      <4> QED BY <1>a, <2>3, <3>2, <4>2, <4>3 DEF Unsure
    <3> QED BY <3>1, <3>2
  <2>4. CASE pc' = "cleanup"
    <3>1. todo' = <<Stop>>
      BY <1>a, <2>4
    <3>2. Ends(todo', Main, "playing", FALSE) /\ NoPlay(todo')
      BY <3>1, StopRows
    <3>3. Due(Main, "playing", FALSE)'
      BY <3>2 DEF Due, Ends
    <3> QED BY <2>2, <2>4, <3>2, <3>3 DEF Unsure
  <2>5. CASE pc \notin InPass /\ pc' # "cleanup"
    <3>1. pc' \in {"restore", "failing", "done"}
      BY <1>a, <2>5
    <3>2. Stopped /\ NoPlay(todo)
      <4>1. pc = "passFinally" => e = "error"
        BY <1>0, <1>a, <2>5, WidthIsHost DEF Flags, Loops
      <4>2. CASE pc = "passFinally"
        <5>1. todo = <<>> /\ Due(Main, "playing", FALSE)
          BY <2>1, <4>1, <4>2 DEF Unsure
        <5> QED BY <5>1, EmptyRow DEF Due, Stopped
      <4>3. CASE pc # "passFinally"
        BY <2>1, <2>5, <4>3 DEF Unsure, InPass
      <4> QED BY <4>2, <4>3
    <3>3. Stopped'
      BY <1>0, <3>2, MovedStopped
    <3>4. NoPlay(todo')
      <4>1. NoPlay(RestoreWrites)
        BY <1>0, RestoreWritesType, HostRows DEF Types
      <4> QED BY <1>a, <2>5, <4>1, EmptyRow
    <3> QED BY <3>1, <3>3, <3>4 DEF Unsure
  <2> QED BY <2>3, <2>4, <2>5
<1> QED BY <1>1, <1>2

\* A read, or a step of the Core alone, changes nothing of what is due.
LEMMA SameDue ==
    ASSUME UNCHANGED <<live, late, todo>>, NEW p, NEW f, NEW v
    PROVE  Due(p, f, v)' <=> Due(p, f, v)
  BY DEF Due, Settles, Ends, Free

\* The transport is as it was where Live does not move, and may wait for a stop
\* only on the way into a place that sends one.
LEMMA StopStays ==
    ASSUME CaptureInv, StopDue, UNCHANGED <<live, late, lost, was, stopped>>,
           pc \notin Unsure \/ todo = <<>>,
           pc' \in {"pass"} => ~stopped /\ todo' \in PassBegins,
           pc' \notin {"pass"} => NoPlay(todo') \/ was,
           pc' \in {"passFinally", "cleanup"} =>
               Free(todo', Main, "playing") \/ Ends(todo', Main, "playing", FALSE)
    PROVE  StopDue'
<1> SUFFICES ASSUME ~lost, ~was
             PROVE  /\ pc' \notin Unsure \/ stopped => Stopped'
                    /\ pc' \in Unsure => Due(Main, "playing", FALSE)'
                    /\ NoPlay(todo') \/ (pc' = "pass" /\ ~stopped)
  BY DEF StopDue, NoPlay, Touches
<1>1. Stopped
  BY EmptyRow DEF StopDue, Due, Stopped
<1>2. Stopped'
  BY <1>1, SameSettles DEF Stopped
<1>3. pc' \in Unsure => Due(Main, "playing", FALSE)'
  <2>1. pc' \in Unsure => Free(todo', Main, "playing") \/ Ends(todo', Main, "playing", FALSE)
    <3>1. todo' \in PassBegins => Ends(todo', Main, "playing", FALSE)
      BY StopRows
    <3> QED BY <3>1 DEF Unsure
  <2> QED BY <1>2, <2>1 DEF Due, Stopped, Free, Ends
<1> QED BY <1>2, <1>3

\* Before the restores nothing is due of the hosts.
LEMMA NotRestoring ==
    ASSUME pc' \notin {"restore", "results", "done"}, pc' = "failing" => mode' = "single",
           pc' = "cleanup" => cur' = 0, prepared' \in Nat
    PROVE  HostsDue'
<1>1. \A h \in 1..prepared' : ~Restoring(h)'
  BY DEF Restoring
<1> QED BY <1>1 DEF HostsDue

\* What is due of the hosts stays due while nothing is sent.
LEMMA HostsStay ==
    ASSUME HostsDue, UNCHANGED <<live, late, lost, todo, before, prepared>>,
           \A h \in 1..prepared : Restoring(h)' => Restoring(h)
    PROVE  HostsDue'
  BY SameDue DEF HostsDue

\* A row of one or two commands to the transport.
LEMMA TransportRow == NoPlay(<<Stop>> \o <<>>) /\ <<Stop>> \o <<>> = <<Stop>>
<1>1. <<Stop>> \o <<>> = <<Stop>>
  BY TransportProper, TwoInRow
<1> QED BY <1>1, StopRows

\* From the baselines to the start of the pass.
LEMMA PreparingDue ==
    ASSUME CaptureInv, HostsDue, StopDue, NotYet,
           \/ ReadBaselines \/ JournalPrepared \/ AppendPrepared \/ VerifyRouting
           \/ BeginPass \/ Halted
    PROVE  HostsDue' /\ StopDue'
<1>0. Types /\ Bools /\ Flags /\ Loops /\ Writes /\ LiveShape /\ StopDue
  BY Parts
<1>1. CASE Raise("error")
  <2>1. pc \in {"open", "append", "prepare", "begin"}
    BY <1>1 DEF ReadBaselines, JournalPrepared, AppendPrepared, VerifyRouting, BeginPass, Halted,
       Raise, Goto, InPass
  <2>2. lost' = lost /\ UNCHANGED <<live, late>>
    BY DEF ReadBaselines, JournalPrepared, AppendPrepared, VerifyRouting, BeginPass, Halted,
       ReadReturns, ReadRaises, linkVars
  <2> QED BY <1>1, <2>1, <2>2, RaiseDue DEF Moved
<1>2. CASE ~Raise("error")
  <2>1. /\ UNCHANGED <<live, late, lost, was, stopped, mode>>
        /\ pc \in {"open", "record", "append", "prepare", "begin", "halt"}
    BY <1>2 DEF ReadBaselines, JournalPrepared, AppendPrepared, VerifyRouting, BeginPass, Halted,
       ReadReturns, ReadRaises, linkVars, passVars
  <2>2. \/ /\ pc' \in {"record", "append", "begin"} /\ todo' = <<>>
        \/ pc' = "cleanup" /\ cur' = 0 /\ todo' = <<Stop>>
        \/ pc' = "prepare" /\ todo' = PrepareWrites(cur)
        \/ pc' = "halt" /\ todo' = <<Stop>>
        \/ pc = "halt" /\ pc' = "pass" /\ todo' \in PassBegins
    BY <1>2 DEF ReadBaselines, JournalPrepared, AppendPrepared, VerifyRouting, BeginPass,
       Halted, Goto
  <2>3. prepared' \in Nat
    BY <1>0, <1>2 DEF Types, ReadBaselines, JournalPrepared, AppendPrepared, VerifyRouting,
       BeginPass, Halted, passVars
  <2>4. HostsDue'
    BY <2>2, <2>3, NotRestoring
  <2>5. cur \in Host
    BY <1>0, <2>1, WidthIsHost DEF Loops, Early
  <2>6. pc' # "pass" => NoPlay(todo')
    BY <2>2, <2>5, PrepareRow, StopRows, EmptyRow
  <2>7. pc' = "pass" => ~stopped
    BY <2>2 DEF NotYet
  <2> QED BY <2>1, <2>2, <2>4, <2>6, <2>7, StopRows, StopStays DEF Unsure
<1> QED BY <1>1, <1>2

\* No step of a pass leads back in front of it.
LEMMA NotYetStays == ASSUME NotYet, [Next]_vars PROVE NotYet'
<1>1. CASE Core
  <2>1. ASSUME NEW e, Raise(e) PROVE NotYet'
    BY <2>1 DEF Raise, NotYet
  <2>2. CASE CallReturns
    BY <2>2 DEF CallReturns, NotYet
  <2>3. CASE CallRaises
    BY <2>1, <2>3 DEF CallRaises, Goto, passVars, NotYet
  <2>4. CASE ReadBaselines \/ JournalPrepared \/ AppendPrepared \/ VerifyRouting
    BY <2>1, <2>4
    DEF ReadBaselines, JournalPrepared, AppendPrepared, VerifyRouting, Goto, passVars, NotYet
  <2>5. CASE BeginPass \/ Halted \/ PassBreaks \/ Finalize \/ CheckTransport \/ EndPass
    BY <2>1, <2>5
    DEF BeginPass, Halted, PassBreaks, Finalize, CheckTransport, EndPass, Goto, passVars, NotYet
  <2>6. CASE JournalFinalizing \/ CopyAssets \/ VerifyRestore \/ ReportRow \/ JournalFailed
             \/ CleanUp
    BY <2>1, <2>6
    DEF JournalFinalizing, CopyAssets, VerifyRestore, ReportRow, JournalFailed, CleanUp, Goto,
        passVars, NotYet
  <2> QED BY <1>1, <2>2, <2>3, <2>4, <2>5, <2>6 DEF Core
<1>2. CASE Interrupt
  BY <1>2 DEF Interrupt, Raise, NotYet
<1>3. CASE Crash
  BY <1>3 DEF Crash, Goto, NotYet
<1>4. CASE LiveCatchesUp \/ \E h \in Host : Recover(h)
  BY <1>4 DEF LiveCatchesUp, Recover, passVars, NotYet
<1>5. CASE UNCHANGED vars
  BY <1>5 DEF vars, passVars, NotYet
<1> QED BY <1>1, <1>2, <1>3, <1>4, <1>5 DEF Next

\* The pass itself, from its last write to the end of its finally block.
LEMMA PassDue ==
    ASSUME CaptureInv, HostsDue, StopDue,
           PassBreaks \/ Finalize \/ CheckTransport \/ EndPass
    PROVE  HostsDue' /\ StopDue'
<1>0. Types /\ Bools /\ Flags /\ Loops /\ Writes /\ LiveShape /\ StopDue
  BY Parts
<1>a. /\ pc \in {"pass", "transport", "fallback", "passFinally"}
      /\ pc # "pass" => todo = <<>>
      /\ todo = <<>> \/ Raise("error")
      /\ lost' = lost /\ UNCHANGED <<live, late>>
  BY DEF PassBreaks, Finalize, CheckTransport, EndPass, ReadReturns, ReadRaises, linkVars
<1>e. exc \in {"none", "error", "cancel"}
  BY <1>0 DEF Types
<1>1. ASSUME NEW e \in {"error", "cancel"}, Raise(e) PROVE HostsDue' /\ StopDue'
  BY <1>1, <1>a, RaiseDue DEF Moved
<1>2. CASE ~\E e \in {"error", "cancel"} : Raise(e)
  <2>1. /\ UNCHANGED <<was, stopped, mode, prepared>>
        /\ \/ pc' = "transport" /\ todo' = <<Stop>> \o (IF was THEN <<Play>> ELSE <<>>)
           \/ pc' = "passFinally" /\ todo' = <<Disarm>>
           \/ pc' = "finalizing" /\ todo' = <<>>
    BY <1>2, <1>e DEF PassBreaks, Finalize, CheckTransport, EndPass, Goto, passVars
  <2>2. HostsDue'
    BY <1>0, <2>1, NotRestoring DEF Types
  <2>3. NoPlay(todo') \/ was
    BY <2>1, TransportRow, StopRows, EmptyRow
  <2>4. todo = <<>>
    BY <1>2, <1>a
  <2> QED BY <1>a, <2>1, <2>2, <2>3, <2>4, StopRows, StopStays
<1> QED BY <1>1, <1>2

\* Settling: the assets, the restores, the rows and the verdicts.
LEMMA SettlingDue ==
    ASSUME CaptureInv, HostsDue, StopDue,
           JournalFinalizing \/ CopyAssets \/ VerifyRestore \/ ReportRow \/ JournalFailed
    PROVE  HostsDue' /\ StopDue'
<1>0. Types /\ Bools /\ Flags /\ Loops /\ Writes /\ LiveShape /\ StopDue
  BY Parts
<1>a. /\ pc \in {"finalizing", "copy", "restore", "results", "failing"} /\ todo = <<>>
      /\ lost' = lost /\ UNCHANGED <<live, late>>
  BY <1>0 DEF JournalFinalizing, CopyAssets, VerifyRestore, ReportRow, JournalFailed, ReadReturns,
     ReadRaises, linkVars, Flags, Quiet
<1>1. CASE Raise("error")
  BY <1>1, <1>a, RaiseDue DEF Moved
<1>2. CASE ~Raise("error")
  <2>1. /\ UNCHANGED <<was, stopped, mode, prepared, before>>
        /\ \/ pc' = "finalizing" /\ todo' = todo
           \/ pc' = "copy" /\ todo' = <<>>
           \/ pc' = "restore" /\ todo' = RestoreWrites
           \/ /\ pc' \in {"results", "done"} /\ todo' = <<>>
              /\ pc \in {"restore", "results"} \/ (pc = "failing" /\ mode = "batch")
           \/ /\ pc' = "failing" /\ todo' = <<>> /\ mode = "batch" /\ pc \in {"restore", "failing"}
    BY <1>2, <1>a
    DEF JournalFinalizing, CopyAssets, VerifyRestore, ReportRow, JournalFailed, Goto
  <2>2. HostsDue'
    <3>1. CASE pc' \in {"finalizing", "copy"}
      BY <1>0, <2>1, <3>1, NotRestoring DEF Types
    <3>2. CASE pc' = "restore"
      <4>1. todo' = RestoreWrites /\ UNCHANGED <<before, prepared>>
        BY <2>1, <3>2
      <4>2. \A h \in 1..prepared, f \in Routing : Ends(RestoreWrites, h, f, f \in before[h])
        BY <1>0, RestoreRow DEF Types
      <4>3. \A h \in 1..prepared, f \in Routing : Due(h, f, f \in before[h])'
        BY <4>1, <4>2 DEF Due, Ends
      <4> QED BY <4>1, <4>3 DEF HostsDue
    <3>3. CASE pc' \in {"results", "done", "failing"}
      <4>1. UNCHANGED <<live, late, lost, todo, before, prepared>>
        BY <1>a, <2>1, <3>3
      <4>2. \A h : Restoring(h)
        BY <2>1, <3>3 DEF Restoring
      <4> QED BY <4>1, <4>2, HostsStay
    <3> QED BY <2>1, <3>1, <3>2, <3>3
  <2>3. NoPlay(todo')
    <3>1. NoPlay(RestoreWrites)
      BY <1>0, RestoreWritesType, HostRows DEF Types
    <3> QED BY <1>a, <2>1, <3>1, EmptyRow
  <2>4. pc' \notin Unsure /\ pc \notin Unsure
    BY <1>a, <2>1 DEF Unsure
  <2> QED BY <1>a, <2>1, <2>2, <2>3, <2>4, StopStays DEF Unsure
<1> QED BY <1>1, <1>2

\* The cleanup restores one host after the other.
LEMMA CleanUpDue ==
    ASSUME CaptureInv, HostsDue, StopDue, CleanUp
    PROVE  HostsDue' /\ StopDue'
<1>0. Types /\ Bools /\ Flags /\ Loops /\ Writes /\ LiveShape /\ StopDue
  BY Parts
<1>a. /\ pc = "cleanup" /\ todo = <<>>
      /\ UNCHANGED <<live, late, lost, was, stopped, mode, prepared, before>>
      /\ \/ cur < prepared /\ cur' = cur + 1 /\ pc' = "cleanup" /\ todo' = RestoreHost(cur + 1)
         \/ cur >= prepared /\ cur' = cur /\ pc' = "done" /\ todo' = <<>>
  BY <1>0 DEF CleanUp, Goto, linkVars, Types
<1>b. /\ cur \in Nat /\ prepared \in 0..N
      /\ cur < prepared => cur + 1 \in Host
      /\ \A h \in 1..prepared : h \in Host
  BY <1>0 DEF Types, Host
<1>1. HostsDue'
  <2> SUFFICES ASSUME ~lost, NEW h \in 1..prepared, Restoring(h)', NEW f \in Routing
               PROVE  Due(h, f, f \in before[h])'
    BY <1>a DEF HostsDue
  <2>0. h <= cur \/ (h = cur + 1 /\ cur < prepared)
    BY <1>a, <1>b DEF Restoring
  <2>1. CASE h <= cur
    <3>1. Settles(h, f, f \in before[h])
      <4>1. Due(h, f, f \in before[h])
        BY <1>a, <2>1 DEF HostsDue, Restoring
      <4> QED BY <1>a, <4>1, EmptyRow DEF Due
    <3>2. Settles(h, f, f \in before[h])'
      BY <1>a, <3>1 DEF Settles, Ends, Free
    <3>3. Free(todo', h, f)
      <4>1. CASE cur < prepared
        <5>1. h # cur + 1 /\ cur + 1 \in Host
          BY <1>b, <2>1, <4>1
        <5> QED BY <1>a, <1>b, <4>1, <5>1, RestoreHostRow
      <4>2. CASE ~(cur < prepared)
        BY <1>a, <4>2, EmptyRow
      <4> QED BY <4>1, <4>2
    <3> QED BY <3>2, <3>3 DEF Due, Free
  <2>2. CASE h = cur + 1 /\ cur < prepared
    <3>1. todo' = RestoreHost(h) /\ h \in Host
      BY <1>a, <1>b, <2>2
    <3>2. Ends(RestoreHost(h), h, f, f \in before[h])
      BY <3>1, RestoreHostRow
    <3> QED BY <1>a, <3>1, <3>2 DEF Due, Ends
  <2> QED BY <2>0, <2>1, <2>2
<1>2. StopDue'
  <2>1. Free(todo', Main, "playing") /\ NoPlay(todo')
    BY <1>0, <1>a, <1>b, RestoreHostType, HostRows, EmptyRow DEF Types
  <2> QED BY <1>a, <2>1, StopStays
<1> QED BY <1>1, <1>2

\* The only write of the pass that stops the transport is its last.
LEMMA StopIsLast ==
    ASSUME Writes, pc = "pass", todo # <<>>, Head(todo) = Stop
    PROVE  Tail(todo) = <<>>
<1>1. Play \in Proper /\ Disarm \in Proper /\ Stop \in Proper
  BY DisarmProper, TransportProper
<1>2. Head(<<Play, Disarm, Stop>>) = Play /\ Head(<<Disarm, Stop>>) = Disarm
  BY <1>1
<1>3. Play # Stop /\ Disarm # Stop
  BY DEF Put, Play, Stop, Disarm
<1>4. todo \in PassBegins \cup {<<Play, Disarm, Stop>>, <<Disarm, Stop>>, <<Stop>>}
  BY DEF Writes
<1>5. todo = <<Stop>>
  BY <1>2, <1>3, <1>4, PassRow
<1> QED BY <1>5, PassRow

\* The head of the writes is sent, from a place that is not left.
LEMMA SentHosts ==
    ASSUME CaptureInv, HostsDue, todo # <<>>, Returns(Head(todo)) \/ Missed(Head(todo)),
           todo' = Tail(todo), UNCHANGED <<pc, mode, cur, prepared, before, lost>>
    PROVE  HostsDue'
<1>0. Types /\ LiveShape
  BY Parts
<1> SUFFICES ASSUME ~lost, NEW h \in 1..prepared, Restoring(h), NEW f \in Routing
             PROVE  Due(h, f, f \in before[h])'
  BY DEF HostsDue, Restoring
<1>1. h \in Place /\ f \in Field /\ (f \in before[h]) \in BOOLEAN
  BY <1>0 DEF Types, Place, Host, Field
<1>2. Due(h, f, f \in before[h])
  BY DEF HostsDue
<1>3. ASSUME NEW v \in BOOLEAN, v = (f \in before[h]) PROVE Due(h, f, v)'
  BY <1>0, <1>1, <1>2, <1>3, SentDue
<1>4. UNCHANGED before
  OBVIOUS
<1> QED BY <1>1, <1>3, <1>4 DEF Due, Settles, Ends, Free

\* The same for the transport.
LEMMA SentStops ==
    ASSUME CaptureInv, StopDue, ~lost, ~was, todo # <<>>,
           Returns(Head(todo)) \/ Missed(Head(todo))
    PROVE  /\ pc \notin Unsure \/ stopped => Stopped'
           /\ Head(todo) = Stop => Stopped'
           /\ todo' = Tail(todo) /\ pc \in Unsure => Due(Main, "playing", FALSE)'
           /\ NoPlay(todo) => NoPlay(Tail(todo))
<1>0. Types /\ LiveShape /\ todo \in Seq(Write) /\ Head(todo) \in Write
  BY Parts DEF Types
<1>1. Main \in Place /\ "playing" \in Field /\ FALSE \in BOOLEAN
  BY MainIsNoHost DEF Field
<1>2. /\ Touches(Head(todo), Main, "playing") /\ Head(todo).on = FALSE => Stopped'
      /\ ~Touches(Head(todo), Main, "playing") /\ Stopped => Stopped'
  BY <1>0, <1>1, SentSettles DEF Stopped
<1>3. Head(todo).on \in BOOLEAN
  BY <1>0 DEF Write
<1>4. NoPlay(todo) =>
          NoPlay(Tail(todo)) /\ (Touches(Head(todo), Main, "playing") => ~Head(todo).on)
  BY <1>0, TailRow
<1>5. pc \notin Unsure \/ stopped => Stopped /\ NoPlay(todo)
  BY DEF StopDue, Unsure
<1>6. Touches(Stop, Main, "playing") /\ Stop.on = FALSE
  BY DEF Touches, Stop, Put
<1>7. todo' = Tail(todo) /\ pc \in Unsure => Due(Main, "playing", FALSE)'
  BY <1>0, <1>1, SentDue DEF StopDue
<1> QED BY <1>2, <1>3, <1>4, <1>5, <1>6, <1>7

\* A call that returns, and one that does not.
LEMMA CallReturnsDue ==
    ASSUME CaptureInv, HostsDue, StopDue, CallReturns
    PROVE  HostsDue' /\ StopDue'
<1>0. Types /\ Writes
  BY Parts
<1>m. /\ todo # <<>> /\ Returns(Head(todo)) /\ todo' = Tail(todo)
      /\ UNCHANGED <<pc, mode, cur, prepared, before, was, lost>>
      /\ stopped' = (stopped \/ (pc = "pass" /\ Head(todo) = Stop))
  BY DEF CallReturns, Returns
<1>1. HostsDue'
  BY <1>m, SentHosts
<1>2. StopDue'
  <2> SUFFICES ASSUME ~lost, ~was
               PROVE  /\ pc \notin Unsure \/ stopped' => Stopped'
                      /\ pc \in Unsure => Due(Main, "playing", FALSE)'
                      /\ NoPlay(Tail(todo)) \/ (pc = "pass" /\ ~stopped')
    BY <1>m DEF StopDue, NoPlay, Touches
  <2>1. NoPlay(todo) \/ (pc = "pass" /\ ~stopped)
    BY DEF StopDue
  <2>2. pc = "pass" /\ Head(todo) = Stop => NoPlay(Tail(todo))
    BY <1>0, <1>m, StopIsLast, EmptyRow
  <2> QED BY <1>m, <2>1, <2>2, SentStops
<1> QED BY <1>1, <1>2

LEMMA CallRaisesDue ==
    ASSUME CaptureInv, HostsDue, StopDue, CallRaises
    PROVE  HostsDue' /\ StopDue'
<1>0. Types /\ Flags /\ Writes /\ LiveShape
  BY Parts
<1>m. todo # <<>> /\ Raises(Head(todo)) /\ pc \notin Quiet
  BY <1>0 DEF CallRaises, Flags
<1>l. lost' \/ (lost' = lost /\ Missed(Head(todo)))
  BY <1>m DEF Raises, Refused, Missed
<1>1. CASE ~Swallowed /\ Raise("error")
  <2>1. pc \notin {"cleanup", "done", "crashed", "passFinally"}
    BY <1>1, <1>m DEF Swallowed, Quiet
  <2> QED BY <1>1, <1>l, <1>m, <2>1, RaiseDue DEF Moved
<1>2. CASE pc = "transport" /\ Goto("fallback", <<Stop>>) /\ UNCHANGED <<passVars, endVars>>
  <2>1. /\ pc' = "fallback" /\ todo' = <<Stop>> /\ UNCHANGED <<prepared, was, stopped>>
    BY <1>2 DEF Goto, passVars
  <2>2. HostsDue'
    BY <1>0, <2>1, NotRestoring DEF Types
  <2>3. ASSUME ~lost', ~was PROVE Stopped'
    <3>1. Stopped /\ NoPlay(todo)
      BY <1>2, <1>l, <2>3 DEF StopDue, Unsure
    <3> QED BY <1>0, <1>l, <1>m, <2>3, <3>1, MovedStopped DEF Moved
  <2>4. NoPlay(todo')
    BY <2>1, StopRows
  <2> QED BY <2>1, <2>2, <2>3, <2>4 DEF StopDue, Unsure
<1>3. CASE ~(~Swallowed /\ pc # "transport" /\ Raise("error"))
           /\ ~(pc = "transport" /\ Goto("fallback", <<Stop>>) /\ UNCHANGED <<passVars, endVars>>)
  <2>m. /\ Swallowed
        /\ todo' = IF pc = "passFinally" /\ Head(todo) = Disarm THEN DisarmEach \o Tail(todo)
                   ELSE Tail(todo)
        /\ UNCHANGED <<pc, mode, cur, prepared, before, was, stopped>>
    BY <1>3 DEF CallRaises
  <2>h. pc # "pass"
    BY <2>m DEF Swallowed
  <2>1. CASE lost'
    BY <2>1 DEF HostsDue, StopDue
  <2>2. CASE ~lost' /\ todo' = Tail(todo)
    <3>1. lost' = lost /\ Missed(Head(todo))
      BY <1>l, <2>2
    <3>2. HostsDue'
      BY <1>m, <2>m, <2>2, <3>1, SentHosts
    <3>3. StopDue'
      <4> SUFFICES ASSUME ~was
                   PROVE  /\ pc \notin Unsure \/ stopped => Stopped'
                          /\ pc \in Unsure => Due(Main, "playing", FALSE)'
                          /\ NoPlay(Tail(todo))
        BY <2>m, <2>2 DEF StopDue, NoPlay, Touches
      <4>1. NoPlay(todo) /\ ~lost
        BY <2>h, <2>2, <3>1 DEF StopDue
      <4> QED BY <1>m, <2>2, <3>1, <4>1, SentStops
    <3> QED BY <3>2, <3>3
  <2>3. CASE ~lost' /\ pc = "passFinally" /\ Head(todo) = Disarm
    <3>1. lost' = lost /\ Missed(Head(todo)) /\ todo' = DisarmEach \o Tail(todo)
      BY <1>l, <2>m, <2>3
    <3>2. HostsDue'
      BY <1>0, <2>m, <2>3, NotRestoring DEF Types
    <3>3. StopDue'
      <4> SUFFICES ASSUME ~was
                   PROVE  /\ stopped => Stopped'
                          /\ Due(Main, "playing", FALSE)'
                          /\ NoPlay(todo')
        BY <2>m, <2>3 DEF StopDue, Unsure
      <4>1. ~lost /\ NoPlay(todo) /\ Due(Main, "playing", FALSE)
        BY <2>3, <3>1 DEF StopDue, Unsure
      <4>2. NoPlay(Tail(todo)) /\ (stopped => Stopped')
        BY <1>m, <3>1, <4>1, SentStops
      <4>3. Tail(todo) \in Seq(Write) /\ todo \in Seq(Write) /\ Head(todo) \in Write
        BY <1>0, <1>m DEF Types
      <4>4. ~Touches(Disarm, Main, "playing")
        BY DEF Touches, Disarm, Put
      <4>5. Ends(Tail(todo), Main, "playing", FALSE)
            \/ (Free(Tail(todo), Main, "playing") /\ Settles(Main, "playing", FALSE)')
        <5>1. Main \in Place /\ "playing" \in Field /\ FALSE \in BOOLEAN
          BY MainIsNoHost DEF Field
        <5>2. Settles(Main, "playing", FALSE) => Settles(Main, "playing", FALSE)'
          BY <1>0, <2>3, <3>1, <4>3, <4>4, <5>1, SentSettles
        <5> QED BY <1>m, <2>3, <4>1, <4>3, <4>4, <5>2, TailRow DEF Due
      <4>6. /\ Ends(Tail(todo), Main, "playing", FALSE) => Ends(todo', Main, "playing", FALSE)
            /\ Free(Tail(todo), Main, "playing") => Free(todo', Main, "playing")
        BY <3>1, <4>3, DisarmEachRow, PrefixRow
      <4>7. NoPlay(todo')
        BY <3>1, <4>2, <4>3, DisarmEachRow, JoinedNoPlay
      <4>8. Due(Main, "playing", FALSE)'
        BY <4>5, <4>6 DEF Due, Ends, Free
      <4> QED BY <4>2, <4>7, <4>8
    <3> QED BY <3>2, <3>3
  <2> QED BY <2>m, <2>1, <2>2, <2>3
<1> QED BY <1>1, <1>2, <1>3

\* Ctrl-C, and Live carrying out what it was sent.
LEMMA InterruptDue ==
    ASSUME CaptureInv, HostsDue, StopDue, Interrupt
    PROVE  HostsDue' /\ StopDue'
<1>1. lost' = lost /\ Moved
  BY DEF Interrupt, Missed, ReadRaises, linkVars, Moved
<1>2. Raise("cancel") /\ pc \notin {"cleanup", "done", "crashed"}
  BY DEF Interrupt
<1> QED BY <1>1, <1>2, RaiseDue

LEMMA LiveCatchesUpDue ==
    ASSUME CaptureInv, HostsDue, StopDue, LiveCatchesUp
    PROVE  HostsDue' /\ StopDue'
<1>0. Types /\ UNCHANGED <<pc, todo, mode, cur, prepared, before, was, stopped>>
  BY Parts DEF LiveCatchesUp, passVars
<1>1. CASE lost'
  BY <1>1 DEF HostsDue, StopDue
<1>2. CASE ~lost'
  <2>1. /\ late # <<>> /\ late' = Tail(late) /\ lost' = lost
        /\ live' = Carry(Head(late), Head(late).at)
    BY <1>2 DEF LiveCatchesUp
  <2>2. ASSUME NEW p \in Place, NEW f \in Field, NEW v \in BOOLEAN
        PROVE  /\ Settles(p, f, v) => Settles(p, f, v)'
               /\ Due(p, f, v) => Due(p, f, v)'
    <3>1. Settles(p, f, v) => Settles(p, f, v)'
      BY <1>0, <2>1, CatchUpSettles
    <3> QED BY <1>0, <3>1 DEF Due, Ends, Free
  <2>3. HostsDue'
    <3> SUFFICES ASSUME NEW h \in 1..prepared, Restoring(h), NEW f \in Routing
                 PROVE  Due(h, f, f \in before[h])'
      BY <1>0 DEF HostsDue, Restoring
    <3>1. h \in Place /\ f \in Field /\ (f \in before[h]) \in BOOLEAN
      BY <1>0 DEF Types, Place, Host, Field
    <3>2. Due(h, f, f \in before[h])
      BY <1>2, <2>1 DEF HostsDue
    <3>3. ASSUME NEW v \in BOOLEAN, v = (f \in before[h]) PROVE Due(h, f, v)'
      BY <2>2, <3>1, <3>2, <3>3
    <3>4. UNCHANGED before
      BY <1>0
    <3> QED BY <3>1, <3>3, <3>4 DEF Due, Settles, Ends, Free
  <2>4. StopDue'
    <3>1. Main \in Place /\ "playing" \in Field /\ FALSE \in BOOLEAN
      BY MainIsNoHost DEF Field
    <3>2. /\ Stopped => Stopped'
          /\ Due(Main, "playing", FALSE) => Due(Main, "playing", FALSE)'
      BY <2>2, <3>1 DEF Stopped
    <3>3. NoPlay(todo)' <=> NoPlay(todo)
      BY <1>0 DEF NoPlay, Touches
    <3> QED BY <1>0, <2>1, <3>2, <3>3 DEF StopDue
  <2> QED BY <2>3, <2>4
<1> QED BY <1>1, <1>2

\* A recovery touches journals only.
LEMMA NothingSentDue ==
    ASSUME HostsDue, StopDue,
           UNCHANGED <<pc, todo, mode, cur, prepared, before, was, stopped, live, late, lost>>
    PROVE  HostsDue' /\ StopDue'
<1>1. HostsDue'
  BY HostsStay DEF Restoring
<1>2. (Stopped' <=> Stopped) /\ (Due(Main, "playing", FALSE)' <=> Due(Main, "playing", FALSE))
  BY SameSettles, SameDue DEF Stopped
<1>3. NoPlay(todo)' <=> NoPlay(todo)
  BY DEF NoPlay, Touches
<1>4. StopDue'
  BY <1>2, <1>3 DEF StopDue
<1> QED BY <1>1, <1>4

DueInv == HostsDue /\ StopDue /\ NotYet

\* Held from the start, kept by every step, and enough at the end.
LEMMA InitDue == Init => DueInv
<1> SUFFICES ASSUME Init PROVE DueInv
  OBVIOUS
<1>1. HostsDue
  <2>1. \A h \in 1..prepared : FALSE
    BY DEF Init
  <2> QED BY <2>1 DEF HostsDue
<1>2. ASSUME ~was PROVE Stopped
  <2>1. late = <<>> /\ "playing" \notin live[Main]
    BY <1>2 DEF Init
  <2>2. Free(late, Main, "playing")
    BY <2>1, EmptyRow
  <2>3. ("playing" \in live[Main]) = FALSE
    BY <2>1
  <2> QED BY <2>2, <2>3 DEF Stopped, Settles
<1>3. StopDue
  BY <1>2, EmptyRow DEF Init, StopDue, Unsure
<1> QED BY <1>1, <1>3 DEF DueInv, NotYet, Init

LEMMA StepDue == CaptureInv /\ DueInv /\ [Next]_vars => DueInv'
<1> SUFFICES ASSUME CaptureInv, HostsDue, StopDue, NotYet, [Next]_vars
             PROVE  HostsDue' /\ StopDue'
  BY NotYetStays DEF DueInv
<1>1. CASE Core
  BY <1>1, CallReturnsDue, CallRaisesDue, PreparingDue, PassDue, SettlingDue, CleanUpDue DEF Core
<1>2. CASE Interrupt \/ LiveCatchesUp
  BY <1>2, InterruptDue, LiveCatchesUpDue
<1>3. CASE Crash
  BY <1>3 DEF Crash, HostsDue, StopDue
<1>4. CASE (\E h \in Host : Recover(h)) \/ UNCHANGED vars
  BY <1>4, NothingSentDue DEF Recover, vars, passVars, linkVars
<1> QED BY <1>1, <1>2, <1>3, <1>4 DEF Next

LEMMA DueTold == CaptureInv /\ DueInv => ToldToRestore
<1> SUFFICES ASSUME CaptureInv, HostsDue, StopDue, pc = "done", late = <<>>, ~lost
             PROVE  /\ \A h \in 1..prepared : live[h] \cap Routing = before[h]
                    /\ "playing" \in live[Main] => was
  BY DEF DueInv, ToldToRestore
<1>0. Types /\ todo = <<>>
  BY Parts DEF Flags, Quiet
<1>1. ASSUME NEW h \in 1..prepared PROVE live[h] \cap Routing = before[h]
  <2>1. \A f \in Routing : Due(h, f, f \in before[h])
    BY DEF HostsDue, Restoring
  <2>2. \A f \in Routing : (f \in live[h]) = (f \in before[h])
    BY <1>0, <2>1, EmptyRow DEF Due, Settles
  <2>3. before[h] \subseteq Routing
    BY <1>0 DEF Types, Host
  <2> QED BY <2>2, <2>3
<1>2. ASSUME ~was PROVE "playing" \notin live[Main]
  BY <1>2, EmptyRow DEF StopDue, Unsure, Stopped, Settles
<1> QED BY <1>1, <1>2

\* Wherever a pass ends, interrupted or with its calls unanswered: once Live has
\* carried out all it was sent, the hosts of the pass have their routing back and
\* the transport plays only if it did before.
THEOREM CaptureToldToRestore == Spec => []ToldToRestore
<1>1. Spec => []CaptureInv
  BY CaptureCorrect
<1>2. Init => DueInv
  BY InitDue
<1>3. CaptureInv /\ DueInv /\ [Next]_vars => DueInv'
  BY StepDue
<1>4. CaptureInv /\ DueInv => ToldToRestore
  BY DueTold
<1> QED BY <1>1, <1>2, <1>3, <1>4, PTL DEF Spec
-----------------------------------------------------------------------------
(* The pass comes to an end.                                               *)

\* How far a pass is: on its way in; in the handler, where the batch restores
\* first and the single path closes its journal first; in the finally block.
Phase ==
    CASE pc = "open" -> 15
      [] pc \in {"record", "append", "prepare"} -> 14
      [] pc = "begin" -> 13
      [] pc = "halt" -> 12
      [] pc = "pass" -> 11
      [] pc = "transport" -> 10
      [] pc = "fallback" -> 9
      [] pc = "passFinally" -> 8
      [] pc = "finalizing" -> 7
      [] pc = "copy" -> 6
      [] pc = "restore" /\ ~handling -> 5
      [] pc = "results" -> 4
      [] pc = "restore" /\ handling -> IF mode = "batch" THEN 3 ELSE 2
      [] pc = "failing" -> IF mode = "batch" THEN 2 ELSE 3
      [] pc = "cleanup" -> 1
      [] OTHER -> 0

\* The disarming of all taps at once, which a failure turns into one call a tap.
AtOnce == todo # <<>> /\ Head(todo) = Disarm

\* What is left of the phase: hosts, and calls to the one the loop is at.
Left ==
    CASE pc = "record" -> 7 * (N - cur) + 6
      [] pc = "append" -> 7 * (N - cur) + 5
      [] pc = "prepare" -> 7 * (N - cur) + Len(todo)
      [] pc = "cleanup" -> 4 * (N - cur) + Len(todo)
      [] pc = "passFinally" -> Len(todo) + (IF AtOnce THEN N + 1 ELSE 0)
      [] pc \in {"finalizing", "results", "failing"} -> N - cur
      [] OTHER -> Len(todo)

Nearer == Phase' < Phase \/ (Phase' = Phase /\ Left' < Left)

\* The taps are disarmed at once no more than once.
OnceAtOnce ==
    pc = "passFinally" => \A i \in 1..Len(todo) : i > 1 => todo[i] # Disarm

LEMMA DisarmEachOther ==
    /\ DisarmEach \in Seq(Write) /\ Len(DisarmEach) = Width + 1
    /\ \A i \in 1..Len(DisarmEach) : DisarmEach[i] # Disarm
<1>1. Width \in Nat /\ Width >= 1
  BY WidthIsHost
<1>2. /\ DisarmEach = [i \in 1..(Width + 1) |-> Put({i - 1}, "rec", FALSE)]
      /\ DisarmEach \in Seq(Write)
  BY DisarmEachRow DEF DisarmEach
<1>3. Len(DisarmEach) = Width + 1
  BY <1>1, <1>2
<1>4. 0 \in Taps /\ 1 \in Taps
  BY <1>1 DEF Taps, Hosts, Main
<1>5. \A i \in 1..(Width + 1) : Put({i - 1}, "rec", FALSE) # Disarm
  BY <1>4 DEF Put, Disarm
<1> QED BY <1>2, <1>3, <1>5

LEMMA JoinedRow ==
    ASSUME NEW r \in Seq(Write), NEW s \in Seq(Write)
    PROVE  /\ r \o s \in Seq(Write) /\ Len(r \o s) = Len(r) + Len(s)
           /\ \A i \in 1..Len(r) : (r \o s)[i] = r[i]
           /\ \A i \in 1..Len(s) : (r \o s)[Len(r) + i] = s[i]
OBVIOUS

LEMMA TailOther ==
    ASSUME NEW s \in Seq(Write), s # <<>>,
           \A i \in 1..Len(s) : i > 1 => s[i] # Disarm
    PROVE  /\ Tail(s) \in Seq(Write) /\ Len(Tail(s)) \in Nat /\ Len(Tail(s)) = Len(s) - 1
           /\ \A i \in 1..Len(Tail(s)) : Tail(s)[i] # Disarm
           /\ Tail(s) # <<>> => Head(Tail(s)) # Disarm
<1>1. /\ Len(s) \in Nat /\ Len(s) > 0 /\ Tail(s) \in Seq(Write) /\ Len(Tail(s)) = Len(s) - 1
      /\ \A i \in 1..Len(Tail(s)) : i + 1 \in 1..Len(s) /\ Tail(s)[i] = s[i + 1]
  OBVIOUS
<1>2. \A i \in 1..Len(Tail(s)) : i + 1 > 1 /\ Tail(s)[i] # Disarm
  BY <1>1
<1>3. Tail(s) # <<>> => Head(Tail(s)) = Tail(s)[1] /\ 1 \in 1..Len(Tail(s))
  BY <1>1
<1> QED BY <1>1, <1>2, <1>3

LEMMA EachThenTail ==
    ASSUME NEW s \in Seq(Write), s # <<>>,
           \A i \in 1..Len(s) : i > 1 => s[i] # Disarm
    PROVE  /\ Len(DisarmEach \o Tail(s)) = Width + Len(s)
           /\ \A i \in 1..Len(DisarmEach \o Tail(s)) : (DisarmEach \o Tail(s))[i] # Disarm
           /\ Head(DisarmEach \o Tail(s)) # Disarm
<1> DEFINE t == DisarmEach \o Tail(s)
<1>0. Width \in Nat /\ Len(s) \in Nat
  BY WidthIsHost
<1>1. /\ Tail(s) \in Seq(Write) /\ Len(Tail(s)) = Len(s) - 1
      /\ \A i \in 1..Len(Tail(s)) : Tail(s)[i] # Disarm
  BY TailOther
<1>2. /\ t \in Seq(Write) /\ Len(t) = Width + Len(s) /\ Len(t) > 0
      /\ \A i \in 1..Len(DisarmEach) : t[i] = DisarmEach[i]
      /\ \A i \in 1..Len(Tail(s)) : t[Len(DisarmEach) + i] = Tail(s)[i]
  <2>1. DisarmEach \in Seq(Write) /\ Len(DisarmEach) = Width + 1
    BY DisarmEachOther
  <2>2. /\ t \in Seq(Write) /\ Len(t) = Len(DisarmEach) + Len(Tail(s))
        /\ \A i \in 1..Len(DisarmEach) : t[i] = DisarmEach[i]
        /\ \A i \in 1..Len(Tail(s)) : t[Len(DisarmEach) + i] = Tail(s)[i]
    BY <1>1, <2>1, JoinedRow
  <2>3. Len(t) = Width + Len(s) /\ Len(t) > 0
    <3> HIDE DEF t
    <3> QED BY <1>0, <1>1, <2>1, <2>2, s # <<>>
  <2> QED BY <2>2, <2>3
<1> HIDE DEF t
<1>3. ASSUME NEW i \in 1..Len(t) PROVE t[i] # Disarm
  <2>1. CASE i \in 1..Len(DisarmEach)
    BY <1>2, <2>1, DisarmEachOther
  <2>2. CASE i \notin 1..Len(DisarmEach)
    <3>1. i - Len(DisarmEach) \in 1..Len(Tail(s))
      BY <1>0, <1>1, <1>2, <2>2, DisarmEachOther
    <3>2. t[Len(DisarmEach) + (i - Len(DisarmEach))] # Disarm
      BY <1>1, <1>2, <3>1
    <3> QED BY <1>0, <3>2, DisarmEachOther
  <2> QED BY <2>1, <2>2
<1>4. Head(t) = t[1] /\ 1 \in 1..Len(t)
  BY <1>2
<1> QED BY <1>2, <1>3, <1>4 DEF t

LEMMA ModeStays == [Next]_vars => mode' = mode /\ Disarm' = Disarm
<1> SUFFICES ASSUME [Next]_vars PROVE mode' = mode
  <2>1. mode' = mode => Disarm' = Disarm
    BY DEF Disarm, Put, Taps, Hosts, Width
  <2> QED BY <2>1
<1>1. ASSUME NEW e, Raise(e) PROVE mode' = mode
  BY <1>1 DEF Raise
<1>2. CASE Interrupt
  BY <1>1, <1>2 DEF Interrupt
<1>3. CASE CallReturns \/ CallRaises \/ ReadBaselines \/ JournalPrepared \/ AppendPrepared
  BY <1>1, <1>3
  DEF CallReturns, CallRaises, ReadBaselines, JournalPrepared, AppendPrepared, passVars
<1>4. CASE VerifyRouting \/ BeginPass \/ Halted \/ PassBreaks \/ Finalize \/ CheckTransport \/ EndPass
  BY <1>1, <1>4 DEF VerifyRouting, BeginPass, Halted, PassBreaks, Finalize, CheckTransport, EndPass, passVars
<1>5. CASE JournalFinalizing \/ CopyAssets \/ VerifyRestore \/ ReportRow \/ JournalFailed \/ CleanUp
  BY <1>1, <1>5
  DEF JournalFinalizing, CopyAssets, VerifyRestore, ReportRow, JournalFailed, CleanUp, passVars
<1>6. CASE Crash \/ LiveCatchesUp \/ (\E h \in Host : Recover(h)) \/ UNCHANGED vars
  BY <1>6 DEF Crash, LiveCatchesUp, Recover, vars, passVars
<1> QED BY <1>2, <1>3, <1>4, <1>5, <1>6 DEF Next, Core

LEMMA RaiseOnce ==
    ASSUME NEW e, Raise(e), pc' = "passFinally"
    PROVE  \A i \in 1..Len(todo') : i > 1 => todo'[i] # Disarm
<1>1. pc \in InPass /\ todo' = <<Disarm>> \o (IF stopped THEN <<>> ELSE <<Stop>>)
  BY DEF Raise
<1>2. Disarm \in Write /\ Stop \in Write /\ Stop # Disarm
  BY DisarmProper, TransportProper, HostWriteIsProper DEF Disarm, Stop, Put
<1>3. todo' = <<Disarm>> \/ todo' = <<Disarm, Stop>>
  BY <1>1, <1>2, TwoInRow
<1>4. CASE todo' = <<Disarm>>
  BY <1>4
<1>5. CASE todo' = <<Disarm, Stop>>
  <2>1. Len(todo') = 2 /\ todo'[2] = Stop
    BY <1>5
  <2>2. \A i \in 1..2 : i > 1 => i = 2
    OBVIOUS
  <2> QED BY <1>2, <2>1, <2>2
<1> QED BY <1>3, <1>4, <1>5

\* How the finally block of the pass is entered and gone through.
LEMMA InFinally ==
    ASSUME CaptureInv, Next, pc' = "passFinally"
    PROVE  \/ \E e \in {"error", "cancel"} : Raise(e)
           \/ todo' = <<Disarm>>
           \/ pc = pc' /\ todo' = todo
           \/ pc = pc' /\ todo # <<>> /\ todo' = Tail(todo)
           \/ pc = pc' /\ todo # <<>> /\ Head(todo) = Disarm /\ todo' = DisarmEach \o Tail(todo)
<1>1. CASE CallReturns
  BY <1>1 DEF CallReturns
<1>2. CASE CallRaises
  BY <1>2 DEF CallRaises, Goto
<1>3. CASE Interrupt
  BY <1>3 DEF Interrupt
<1>4. CASE ReadBaselines \/ JournalPrepared \/ AppendPrepared \/ VerifyRouting \/ BeginPass
  BY <1>4 DEF ReadBaselines, JournalPrepared, AppendPrepared, VerifyRouting, BeginPass, Goto
<1>5. CASE Halted \/ PassBreaks \/ Finalize \/ CheckTransport
  BY <1>5 DEF Halted, PassBreaks, Finalize, CheckTransport, Goto
<1>6. CASE EndPass
  <2>1. exc \in {"none", "error", "cancel"}
    BY Parts DEF Types
  <2> QED BY <1>6, <2>1 DEF EndPass, Goto
<1>7. CASE JournalFinalizing \/ CopyAssets \/ VerifyRestore
  BY <1>7 DEF JournalFinalizing, CopyAssets, VerifyRestore, Goto
<1>8. CASE ReportRow \/ JournalFailed \/ CleanUp
  BY <1>8 DEF ReportRow, JournalFailed, CleanUp, Goto
<1>9. CASE Crash \/ LiveCatchesUp \/ (\E h \in Host : Recover(h))
  BY <1>9 DEF Crash, LiveCatchesUp, Recover, Goto
<1> QED BY <1>1, <1>2, <1>3, <1>4, <1>5, <1>6, <1>7, <1>8, <1>9 DEF Next, Core

LEMMA OnceAtOnceStep == CaptureInv /\ OnceAtOnce /\ [Next]_vars => OnceAtOnce'
<1> SUFFICES ASSUME CaptureInv, OnceAtOnce, [Next]_vars, pc' = "passFinally"
             PROVE  \A i \in 1..Len(todo') : i > 1 => todo'[i] # Disarm
  BY ModeStays DEF OnceAtOnce
<1>0. todo \in Seq(Write)
  BY Parts DEF Types
<1>1. ASSUME pc = pc' PROVE \A i \in 1..Len(todo) : i > 1 => todo[i] # Disarm
  BY <1>1 DEF OnceAtOnce
<1>2. CASE \E e \in {"error", "cancel"} : Raise(e)
  BY <1>2, RaiseOnce
<1>3. CASE todo' = <<Disarm>>
  BY <1>3
<1>4. CASE pc = pc' /\ todo' = todo
  BY <1>1, <1>4
<1>5. CASE pc = pc' /\ todo # <<>> /\ todo' = Tail(todo)
  BY <1>0, <1>1, <1>5, TailOther
<1>6. CASE pc = pc' /\ todo # <<>> /\ todo' = DisarmEach \o Tail(todo)
  BY <1>0, <1>1, <1>6, EachThenTail
<1>7. CASE UNCHANGED vars
  BY <1>4, <1>7 DEF vars
<1> QED BY <1>2, <1>3, <1>4, <1>5, <1>6, <1>7, InFinally

LEMMA PhaseType ==
    ASSUME CaptureInv
    PROVE  /\ Phase \in 0..15 /\ Left \in Nat
           /\ pc \notin {"done", "crashed"} => Phase > 0
<1>1. cur \in Nat /\ N - cur \in Nat /\ Len(todo) \in Nat /\ Types
  BY Parts DEF Types
<1>2. Left \in Nat
  BY <1>1 DEF Left
<1>3. Phase \in 0..15
  BY DEF Phase
<1>4. pc \notin {"done", "crashed"} => Phase > 0
  BY <1>1 DEF Types, InPass, Phase
<1> QED BY <1>2, <1>3, <1>4

\* An exception always leads on.
LEMMA RaiseNearer ==
    ASSUME CaptureInv, NEW e \in {"error", "cancel"}, Raise(e),
           pc \notin {"cleanup", "done", "crashed"}
    PROVE  Nearer
<1>0. Types /\ Flags
  BY Parts
<1>1. mode' = mode /\ mode \in {"batch", "single"}
  BY <1>0 DEF Raise, Types
<1>2. CASE pc \in InPass
  BY <1>2 DEF Raise, Nearer, Phase, InPass
<1>3. CASE pc \notin InPass /\ e = "error" /\ ~handling /\ handling' = TRUE
  <2>1. \/ mode = "batch" /\ pc' = "restore"
        \/ mode = "single" /\ pc' = "failing"
        \/ pc' \in {"cleanup", "done"}
    BY <1>1, <1>3 DEF Raise
  <2>2. Phase' <= 3
    BY <1>1, <1>3, <2>1 DEF Phase
  <2>3. Phase \in 4..15
    BY <1>0, <1>3 DEF Phase, Types, Flags, InPass
  <2> QED BY <2>2, <2>3, <1>0, Parts DEF Nearer, Phase
<1>4. CASE pc \notin InPass /\ pc' \in {"cleanup", "done"}
  <2>1. Phase' \in 0..1
    BY <1>4 DEF Phase
  <2>2. Phase \in 2..15
    BY <1>0, <1>1 DEF Phase, Types, InPass
  <2> QED BY <2>1, <2>2 DEF Nearer
<1> QED BY <1>2, <1>3, <1>4 DEF Raise

LEMMA CallNearer ==
    ASSUME CaptureInv, OnceAtOnce, CallReturns \/ CallRaises
    PROVE  Nearer
<1>0. Types /\ Flags /\ Loops
  BY Parts
<1>1. /\ todo # <<>> /\ todo \in Seq(Write) /\ pc \notin Quiet
      /\ cur \in Nat /\ N - cur \in Nat /\ Width \in Nat /\ Width <= N
  BY <1>0, WidthIsHost DEF CallReturns, CallRaises, Types, Flags
<1>2. Len(todo) \in Nat /\ Len(todo) > 0 /\ Len(Tail(todo)) = Len(todo) - 1
  BY <1>1
<1>3. ASSUME todo' = Tail(todo), UNCHANGED <<pc, mode, cur, handling>> PROVE Nearer
  <2>1. Phase' = Phase
    BY <1>3 DEF Phase
  <2>2. CASE pc = "passFinally"
    <3>1. \A i \in 1..Len(todo) : i > 1 => todo[i] # Disarm
      BY <2>2 DEF OnceAtOnce
    <3>2. Tail(todo) # <<>> => Head(Tail(todo)) # Disarm
      BY <1>1, <3>1, TailOther
    <3>3. Disarm' = Disarm
      BY <1>3 DEF Disarm, Put, Taps, Hosts, Width
    <3>4. ~AtOnce'
      BY <1>3, <3>2, <3>3 DEF AtOnce
    <3>5. Left' = Len(todo) - 1 /\ Left >= Len(todo)
      BY <1>2, <1>3, <2>2, <3>4 DEF Left
    <3> QED BY <1>2, <2>1, <3>5, PhaseType DEF Nearer
  <2>3. CASE pc # "passFinally"
    <3>1. Left' < Left
      BY <1>1, <1>2, <1>3, <2>3 DEF Left, Quiet
    <3> QED BY <2>1, <3>1 DEF Nearer
  <2> QED BY <2>2, <2>3
<1>4. CASE CallReturns
  BY <1>3, <1>4 DEF CallReturns
<1>5. CASE CallRaises
  <2>1. CASE ~Swallowed /\ Raise("error")
    <3>1. pc \notin {"cleanup", "done", "crashed"}
      BY <1>1, <2>1 DEF Swallowed, Quiet
    <3> QED BY <2>1, <3>1, RaiseNearer
  <2>2. CASE pc = "transport" /\ Goto("fallback", <<Stop>>)
    BY <2>2 DEF Goto, Nearer, Phase
  <2>3. CASE /\ UNCHANGED <<pc, mode, cur, handling>>
             /\ pc = "passFinally" /\ Head(todo) = Disarm /\ todo' = DisarmEach \o Tail(todo)
    <3>1. \A i \in 1..Len(todo) : i > 1 => todo[i] # Disarm
      BY <2>3 DEF OnceAtOnce
    <3>2. Len(todo') = Width + Len(todo) /\ Head(todo') # Disarm
      BY <1>1, <2>3, <3>1, EachThenTail
    <3>3. Disarm' = Disarm
      BY <2>3 DEF Disarm, Put, Taps, Hosts, Width
    <3>4. Left' = Width + Len(todo) /\ Left = Len(todo) + N + 1
      BY <1>1, <1>2, <2>3, <3>2, <3>3 DEF Left, AtOnce
    <3>5. Phase' = Phase
      BY <2>3 DEF Phase
    <3> QED BY <1>1, <1>2, <3>4, <3>5 DEF Nearer
  <2>4. CASE todo' = Tail(todo) /\ UNCHANGED <<pc, mode, cur, handling>>
    BY <1>3, <2>4
  <2> QED BY <1>5, <2>1, <2>2, <2>3, <2>4 DEF CallRaises
<1> QED BY <1>4, <1>5

LEMMA PreparingNearer ==
    ASSUME CaptureInv, ReadBaselines \/ JournalPrepared \/ AppendPrepared \/ VerifyRouting
    PROVE  Nearer
<1>0. Types /\ Flags /\ Loops
  BY Parts
<1>1. /\ cur \in Nat /\ N - cur \in Nat /\ Hosts \subseteq 1..N
      /\ pc \notin {"cleanup", "done", "crashed"}
  BY <1>0, WidthIsHost
  DEF Types, Host, ReadBaselines, JournalPrepared, AppendPrepared, VerifyRouting
<1>2. ASSUME Raise("error") PROVE Nearer
  BY <1>1, <1>2, RaiseNearer
<1>3. CASE ReadBaselines
  BY <1>2, <1>3 DEF ReadBaselines, Goto, Nearer, Phase
<1>4. CASE JournalPrepared
  <2>1. pc' = "append" /\ cur' = cur /\ (pc = "open" \/ pc = "record")
    BY <1>4 DEF JournalPrepared, Goto, passVars
  <2>2. CASE pc = "open"
    BY <2>1, <2>2 DEF Nearer, Phase
  <2>3. CASE pc = "record"
    <3>1. Phase' = Phase
      BY <2>1, <2>3 DEF Phase
    <3>2. Left = 7 * (N - cur) + 6 /\ Left' = 7 * (N - cur) + 5
      BY <2>1, <2>3 DEF Left
    <3> QED BY <1>1, <3>1, <3>2 DEF Nearer
  <2> QED BY <2>1, <2>2, <2>3
<1>5. CASE AppendPrepared
  <2>1. CASE pc' = "prepare" /\ pc = "append" /\ cur' = cur /\ todo' = PrepareWrites(cur)
    <3>1. Phase' = Phase
      BY <2>1 DEF Phase
    <3>2. Left = 7 * (N - cur) + 5 /\ Left' = 7 * (N - cur) + 4
      BY <2>1 DEF Left, PrepareWrites
    <3> QED BY <1>1, <3>1, <3>2 DEF Nearer
  <2> QED BY <1>2, <1>5, <2>1 DEF AppendPrepared, Goto
<1>6. CASE VerifyRouting
  <2>1. CASE /\ pc = "prepare" /\ todo = <<>> /\ pc' = "record" /\ cur' = cur + 1
             /\ cur + 1 \in Hosts
    <3>1. Phase' = Phase
      BY <2>1 DEF Phase
    <3>2. Left = 7 * (N - cur) /\ Left' = 7 * (N - (cur + 1)) + 6
      BY <1>1, <2>1 DEF Left
    <3> QED BY <1>1, <3>1, <3>2 DEF Nearer
  <2>2. CASE pc = "prepare" /\ pc' = "begin"
    BY <2>2 DEF Nearer, Phase
  <2> QED BY <1>2, <1>6, <2>1, <2>2 DEF VerifyRouting, Goto, More
<1> QED BY <1>3, <1>4, <1>5, <1>6

LEMMA PassNearer ==
    ASSUME CaptureInv,
           BeginPass \/ Halted \/ PassBreaks \/ Finalize \/ CheckTransport \/ EndPass
    PROVE  Nearer
<1>1. pc \notin {"cleanup", "done", "crashed"} /\ exc \in {"none", "error", "cancel"}
  BY Parts DEF Types, BeginPass, Halted, PassBreaks, Finalize, CheckTransport, EndPass
<1>2. ASSUME NEW e \in {"error", "cancel"}, Raise(e) PROVE Nearer
  BY <1>1, <1>2, RaiseNearer
<1>3. CASE BeginPass
  BY <1>2, <1>3 DEF BeginPass, Goto, Nearer, Phase
<1>6. CASE Halted
  BY <1>6 DEF Halted, Goto, Nearer, Phase
<1>8. CASE PassBreaks
  BY <1>2, <1>8 DEF PassBreaks
<1>7. CASE Finalize
  <2>1. CASE pc = "pass" /\ pc' = "transport"
    BY <2>1 DEF Nearer, Phase
  <2>2. (pc = "pass" /\ pc' = "transport") \/ Raise("error")
    BY <1>7 DEF Finalize, Goto
  <2> QED BY <1>2, <2>1, <2>2
<1>4. CASE CheckTransport
  BY <1>2, <1>4 DEF CheckTransport, Goto, Nearer, Phase
<1>5. CASE EndPass
  <2>1. CASE pc = "passFinally" /\ (pc' = "finalizing" \/ pc' = "copy")
    BY <2>1 DEF Nearer, Phase
  <2> QED BY <1>1, <1>2, <1>5, <2>1 DEF EndPass, Goto
<1> QED BY <1>3, <1>4, <1>5, <1>6, <1>7, <1>8

LEMMA SettlingNearer ==
    ASSUME CaptureInv,
           JournalFinalizing \/ CopyAssets \/ VerifyRestore \/ ReportRow \/ JournalFailed
    PROVE  Nearer
<1>0. Types /\ Flags /\ Loops
  BY Parts
<1>1. /\ cur \in Nat /\ N - cur \in Nat /\ Hosts \subseteq 1..N /\ prepared <= N
      /\ mode \in {"batch", "single"} /\ handling \in BOOLEAN
      /\ pc \notin {"cleanup", "done", "crashed"}
  BY <1>0, WidthIsHost, Parts
  DEF Types, Bools, Host, JournalFinalizing, CopyAssets, VerifyRestore, ReportRow, JournalFailed
<1>2. ASSUME Raise("error") PROVE Nearer
  BY <1>1, <1>2, RaiseNearer
\* The next host of a loop.
<1>3. ASSUME pc \in {"finalizing", "results", "failing"}, cur' = cur + 1,
             UNCHANGED <<pc, mode, handling>>
      PROVE  Nearer
  <2>1. Phase' = Phase
    BY <1>3 DEF Phase
  <2>2. Left = N - cur /\ Left' = N - (cur + 1)
    BY <1>3 DEF Left
  <2> QED BY <1>1, <2>1, <2>2 DEF Nearer
<1>4. CASE JournalFinalizing
  <2>1. CASE pc = "finalizing" /\ pc' = "copy"
    BY <2>1 DEF Nearer, Phase
  <2> QED BY <1>3, <1>4, <2>1 DEF JournalFinalizing, Goto
<1>5. CASE CopyAssets
  <2>1. ~handling
    BY <1>0, <1>5 DEF CopyAssets, Flags
  <2>2. CASE pc = "copy" /\ pc' = "restore" /\ handling' = handling
    BY <2>1, <2>2 DEF Nearer, Phase
  <2> QED BY <1>2, <1>5, <2>2 DEF CopyAssets, Goto
<1>6. CASE VerifyRestore
  <2>1. CASE /\ pc = "restore" /\ UNCHANGED <<mode, handling>>
             /\ \/ ~handling /\ pc' = "results"
                \/ handling /\ mode = "batch" /\ pc' = "failing"
                \/ handling /\ mode = "single" /\ pc' = "done"
    BY <2>1 DEF Nearer, Phase
  <2> QED BY <1>2, <1>6, <2>1 DEF VerifyRestore, Goto
<1>7. CASE ReportRow
  <2>1. CASE pc = "results" /\ pc' = "done"
    BY <2>1 DEF Nearer, Phase
  <2> QED BY <1>3, <1>7, <2>1 DEF ReportRow, Goto
<1>8. CASE JournalFailed
  <2>1. handling
    BY <1>0, <1>8 DEF JournalFailed, Flags
  <2>2. CASE /\ pc = "failing" /\ mode = "single" /\ pc' = "restore" /\ UNCHANGED <<mode, handling>>
    BY <2>1, <2>2 DEF Nearer, Phase
  <2>3. CASE /\ pc = "failing" /\ mode = "batch" /\ pc' = "done"
    BY <2>3 DEF Nearer, Phase
  <2> QED BY <1>3, <1>8, <2>2, <2>3 DEF JournalFailed, Goto
<1> QED BY <1>4, <1>5, <1>6, <1>7, <1>8

LEMMA CleanUpNearer ==
    ASSUME CaptureInv, CleanUp
    PROVE  Nearer
<1>1. cur \in Nat /\ N - cur \in Nat /\ prepared \in Nat /\ prepared <= N
  BY Parts DEF Types
<1>2. CASE /\ pc = "cleanup" /\ todo = <<>> /\ pc' = "cleanup" /\ cur' = cur + 1
           /\ cur < prepared /\ todo' = RestoreHost(cur + 1)
  <2>1. Phase' = Phase
    BY <1>2 DEF Phase
  <2>2. Left = 4 * (N - cur) /\ Left' = 4 * (N - (cur + 1)) + 3
    BY <1>1, <1>2 DEF Left, RestoreHost
  <2> QED BY <1>1, <2>1, <2>2 DEF Nearer
<1>3. CASE pc = "cleanup" /\ pc' = "done"
  BY <1>3 DEF Nearer, Phase
<1> QED BY <1>2, <1>3 DEF CleanUp, Goto

LEMMA NearerStep ==
    ASSUME CaptureInv, OnceAtOnce, [Next]_vars
    PROVE  /\ Phase \in 0..15 /\ Left \in Nat
           /\ Core \/ Interrupt \/ Crash => Nearer
           /\ Nearer \/ UNCHANGED <<Phase, Left>>
<1>1. ASSUME Core PROVE Nearer
  BY <1>1, CallNearer, PreparingNearer, PassNearer, SettlingNearer, CleanUpNearer DEF Core
<1>2. ASSUME Interrupt PROVE Nearer
  <2>1. Raise("cancel") /\ pc \notin {"cleanup", "done", "crashed"}
    BY <1>2 DEF Interrupt
  <2> QED BY <2>1, RaiseNearer
<1>3. ASSUME Crash PROVE Nearer
  <2>1. Phase > 0 /\ Phase' = 0
    BY <1>3, PhaseType DEF Crash, Goto, Phase
  <2> QED BY <2>1, PhaseType DEF Nearer
<1>4. ASSUME LiveCatchesUp \/ (\E h \in Host : Recover(h)) \/ UNCHANGED vars
      PROVE  UNCHANGED <<Phase, Left>>
  <2>1. UNCHANGED <<pc, mode, cur, handling, todo>>
    BY <1>4 DEF LiveCatchesUp, Recover, vars, passVars
  <2>2. Disarm' = Disarm
    BY <2>1 DEF Disarm, Put, Taps, Hosts, Width
  <2>3. AtOnce' <=> AtOnce
    BY <2>1, <2>2 DEF AtOnce
  <2>4. Phase' = Phase
    BY <2>1 DEF Phase
  <2>5. Left' = Left
    BY <2>1, <2>3 DEF Left
  <2> QED BY <2>4, <2>5
<1> QED BY <1>1, <1>2, <1>3, <1>4, PhaseType DEF Next

\* No pass goes on for ever: every step of it leads to a later one of sixteen
\* phases, or leaves less of the one it is in, whichever calls fail and wherever
\* it is interrupted. No failure in a handler or a finally block leads back to one
\* that was gone through already. Live and the recovery of a journal neither
\* bring the end closer nor put it off.
THEOREM CaptureRunsDown ==
    Spec => [][/\ Phase \in 0..15 /\ Left \in Nat
               /\ Core \/ Interrupt \/ Crash => Nearer
               /\ Nearer \/ UNCHANGED <<Phase, Left>>]_vars
<1>1. Init => OnceAtOnce
  BY DEF Init, OnceAtOnce
<1>2. CaptureInv /\ OnceAtOnce /\ [Next]_vars =>
        [/\ Phase \in 0..15 /\ Left \in Nat
         /\ Core \/ Interrupt \/ Crash => Nearer
         /\ Nearer \/ UNCHANGED <<Phase, Left>>]_vars
  BY NearerStep
<1> QED BY <1>1, <1>2, OnceAtOnceStep, CaptureCorrect, PTL DEF Spec
=============================================================================
