----------------------------- MODULE MCMonitoring -----------------------------
(* Small instances of the program: a list of two meterages; no plan, or a     *)
(* plan that starts with the second of them.                                  *)
EXTENDS MonitoringHistory, TLC

TwoMeterages == {<<4, 6>>}

Phase(t, v) == [timeStamp |-> t, value |-> v]

LatePlan == {<<Phase(1, 5)>>}
NoPlans == {}

DeviceSymmetry == Permutations(Clients)
=============================================================================
