---------------------------- MODULE MCCommandCenter ----------------------------
(* Plans that differ in what matters to the command centre: none at all; one *)
(* that is not sorted and has two phases at one time; and one that starts    *)
(* later and shares a phase with it.                                         *)
EXTENDS CommandCenterHistory, TLC

Phase(t, v) == [timeStamp |-> t, value |-> v]

NoPlan == <<>>
TwinPlan == <<Phase(1, 255), Phase(0, 255), Phase(0, 5)>>
LatePlan == <<Phase(2, 5), Phase(1, 255)>>

ChosenPlans == {NoPlan, TwinPlan, LatePlan}

DeviceSymmetry == Permutations(Devices)
=============================================================================
