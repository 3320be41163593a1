---------------------------- MODULE MCSafeWrite ----------------------------
(* SafeWrite for TLC: a session of one track with a clip and two that are   *)
(* alike, and the intents of two volumes, a parameter, a device, one new    *)
(* track with a pattern that goes to the Arrangement, and two new tracks     *)
(* that are each inserted before the first.                                  *)
EXTENDS SafeWrite

MCTrack == {"a", "b", "m", "new", "newer"}
MCSession == <<"m", "a", "b">>
MCShape == [t \in MCTrack |-> CASE t \in {"a", "b"} -> {"audio"}
                                [] t = "m" -> {"midi", "clip", "notes"}
                                [] OTHER -> {}]

On(kind, t) == [kind |-> kind, track |-> t, index |-> -1]
CreateAt(t, index) == [kind |-> "create", track |-> t, index |-> index]

MCVolumes == <<On("volume", "a"), On("volume", "b")>>
MCInserts == <<CreateAt("new", 0), On("pattern", "new"), CreateAt("newer", 0), On("pattern", "newer")>>

MCPlans == {
    MCVolumes,
    <<On("parameter", "m")>>,
    <<On("device", "a")>>,
    <<CreateAt("new", -1), On("device", "new"), On("pattern", "new"), On("arrangement", "new")>>,
    MCInserts}

MCMaxSteps == 4
MCCommand == (StepCall \X (1..MCMaxSteps)) \cup (RunCall \X {0})
MCSideEffect == WriteCall \X (1..MCMaxSteps)
=============================================================================
