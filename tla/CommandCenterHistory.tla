------------------------- MODULE CommandCenterHistory -------------------------
(***************************************************************************)
(* The command centre with the history variable "journal": every accepted  *)
(* meterage with the phase it was compared to.  The code keeps no such     *)
(* list; with it the centre is compared to MonitoringPolicy, and its       *)
(* running statistics to the statistics of the whole past.                 *)
(***************************************************************************)
EXTENDS CommandCenter

(* A meterage that was compared to no phase is told from the others. *)
ASSUME NoPhaseAssumption == None \notin Phases

VARIABLE journal    \* [Devices -> sequence of accepted meterages]

historyVars == <<phases, currentPhaseIndex, lastTimeStamp, squareDiffs,
                 deviationStats, answered, journal>>

Policy == INSTANCE MonitoringPolicy
            WITH plan <- [d \in Devices |-> Range(phases[d])]
-----------------------------------------------------------------------------
HistoryInit == Init /\ journal = [d \in Devices |-> <<>>]

Record(d, t, m, phase) ==
    journal' = [journal EXCEPT ![d] =
                  Append(@, [timeStamp |-> t, meterage |-> m, phase |-> phase])]

(* The phase an accepted meterage was compared to is the one under the     *)
(* cursor when process_meterage returns.                                   *)
HistoryProcess(d, t, m) ==
    \/ AnswerObsolete(d, t, m) /\ UNCHANGED journal
    \/ AnswerNoSchedule(d, t, m) /\ Record(d, t, m, None)
    \/ AnswerNoTimestamp(d, t, m) /\ Record(d, t, m, None)
    \/ AnswerCommand(d, t, m) /\ Record(d, t, m, phases[d][currentPhaseIndex'[d]])

HistoryNext ==
    \E d \in Devices :
        \/ \E s \in Schedules : SetSchedule(d, s) /\ UNCHANGED journal
        \/ \E t \in TimeStamps, m \in Meterages : HistoryProcess(d, t, m)

HistorySpec == HistoryInit /\ [][HistoryNext]_historyVars
-----------------------------------------------------------------------------
(* The sorted vector, the cursor and the last time stamp implement the       *)
(* promise that is stated over the set of phases and the whole journal.      *)
RefinesPolicy == Policy!Spec

(* The statistics computed one meterage at a time, over all replacements of  *)
(* plans, are those of the maximal runs of commands that served one phase.   *)
StatsAreRuns ==
    \A d \in Devices : deviationStats[d] = Policy!Statistics(journal[d])

(* README.md:63 - a meterage is obsolete when a meterage with a greater time *)
(* stamp was accepted before.                                                *)
ObsoleteOnlyWhenOlder ==
    [][\A d \in Devices, t \in TimeStamps, m \in Meterages :
         AnswerObsolete(d, t, m) =>
             \E i \in 1 .. Len(journal[d]) : journal[d][i].timeStamp > t
      ]_historyVars
=============================================================================
