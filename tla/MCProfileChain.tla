---------------------------- MODULE MCProfileChain ----------------------------
(* Model values for ProfileChain and the search in it.  Ids and pupils are   *)
(* interchangeable.                                                          *)
EXTENDS ProfileChain, TLC

MCGainPlans == {<<2, 1>>, <<1, 1>>}
MCConfig == [min |-> 1, max |-> 3]
MCApiBounds == {[min |-> 1, max |-> 2], [min |-> 3, max |-> 4]}
MCGrid == [k \in 0 .. 2 |-> 2 ^ (2 - k)]

MCBandPlans == {<<1, 2>>, <<1>>}
Entry(w, s) == [effective |-> w, setpoint |-> s]
MCCapturePlans ==
    {<<Entry(2, 2), Entry(1, 1)>>, <<Entry(1, 2)>>, <<Entry(1, None), Entry(2, 2)>>,
     <<Entry(1, None)>>}

(* A search keeps nothing of the one before it: the first one sees everything *)
(* a probe can see, those after it what tells usable from weak.              *)
Plain(row) == row.seen.usable = (row.seen.signal > 0) /\ row.seen.peak # "over_limit"

FirstCalibration == cameras = {} /\ pupils = {}

MCNext == ChainNext /\ (FirstCalibration \/ \A r \in trial' \cup rows' : Plain(r))

MCSpec == ChainInit /\ [][MCNext]_chainVars

Symmetry == Permutations(CameraIds) \cup Permutations(PupilIds)
              \cup Permutations(Apertures)

=============================================================================
