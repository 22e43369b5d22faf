---------------------------- MODULE CommandCenter ----------------------------
(***************************************************************************)
(* class CommandCenter (command_center.{h,cpp}): holds the work plan of    *)
(* every device, answers every meterage with a command or an error, and    *)
(* keeps statistics of how far each device was from its plan.              *)
(*                                                                         *)
(* The class is used by one thread: an action is one whole call.           *)
(* An absent entry of m_schedule_info or m_stats_info is modelled by the   *)
(* value-initialised one that operator[] creates: no operation tells them  *)
(* apart.  m_last_time_stamp is read with find, so None is its absence.    *)
(* The buffer square_diffs is only ever summed and counted: it is modelled *)
(* by its sum and its size, and a deviation by the same pair (the code     *)
(* stores sqrt(sum / count) of it).                                        *)
(***************************************************************************)
EXTENDS DeviceMessages, Functions

CONSTANT Schedules    \* work plans setDeviceWorkSchedule may be given

ASSUME SchedulesAssumption == Schedules \subseteq Seq(Phases)

VARIABLES
    phases,             \* ScheduleInfo::phases, sorted by time stamp
    currentPhaseIndex,  \* ScheduleInfo::current_phase_index, counted from 1
    lastTimeStamp,      \* m_last_time_stamp, None where there is no entry
    squareDiffs,        \* StatsInfo::square_diffs: its sum and its size
    deviationStats,     \* StatsInfo::deviation_stats
    answered            \* last meterage with the message given to callback;
                        \* None before the first one and after set_schedule

vars == <<phases, currentPhaseIndex, lastTimeStamp, squareDiffs,
          deviationStats, answered>>

NoDiffs == [sum |-> 0, count |-> 0]

Answer(d, t, m, message) ==
    [deviceId |-> d, meterage |-> MessageMeterage(t, m), message |-> message]
-----------------------------------------------------------------------------
Init == /\ phases = [d \in Devices |-> <<>>]
        /\ currentPhaseIndex = [d \in Devices |-> 1]
        /\ lastTimeStamp = [d \in Devices |-> None]
        /\ squareDiffs = [d \in Devices |-> NoDiffs]
        /\ deviationStats = [d \in Devices |-> <<>>]
        /\ answered = None

SortedByTime(s) ==
    \A i, j \in 1 .. Len(s) : i < j => s[i].timeStamp <= s[j].timeStamp

(* std::sort is not stable: phases with equal time stamps may come out in  *)
(* either order.                                                           *)
Sorted(s) ==
    {r \in {[i \in 1 .. Len(s) |-> s[order[i]]] :
               order \in Bijection(1 .. Len(s), 1 .. Len(s))} : SortedByTime(r)}

(* Mutant: the index of the old plan is kept. *)
SetScheduleKeepsIndex(d, s) ==
    /\ \E r \in Sorted(s) : phases' = [phases EXCEPT ![d] = r]
    /\ answered' = None
    /\ UNCHANGED <<currentPhaseIndex, lastTimeStamp, squareDiffs, deviationStats>>

(* Mutant: the statistics are dropped with the plan. *)
SetScheduleDropsStats(d, s) ==
    /\ \E r \in Sorted(s) : phases' = [phases EXCEPT ![d] = r]
    /\ currentPhaseIndex' = [currentPhaseIndex EXCEPT ![d] = 1]
    /\ deviationStats' = [deviationStats EXCEPT ![d] = <<>>]
    /\ answered' = None
    /\ UNCHANGED <<lastTimeStamp, squareDiffs>>

(* The new plan starts at its first phase; the last time stamp and the     *)
(* statistics outlive the plan.                                            *)
SetSchedule(d, s) ==
    /\ \E r \in Sorted(s) : phases' = [phases EXCEPT ![d] = r]
    /\ currentPhaseIndex' = [currentPhaseIndex EXCEPT ![d] = 1]
    /\ answered' = None
    /\ UNCHANGED <<lastTimeStamp, squareDiffs, deviationStats>>

-----------------------------------------------------------------------------
(* process_meterage, one disjunct for each return of the function.         *)

(* Mutant: only smaller time stamps are obsolete. *)
IsObsoleteIfSmaller(d, t) == lastTimeStamp[d] # None /\ lastTimeStamp[d] > t

IsObsolete(d, t) == lastTimeStamp[d] # None /\ lastTimeStamp[d] >= t

AnswerObsolete(d, t, m) ==
    /\ IsObsolete(d, t)
    /\ answered' = Answer(d, t, m, MessageError("Obsolete"))
    /\ UNCHANGED <<phases, currentPhaseIndex, lastTimeStamp, squareDiffs,
                   deviationStats>>

(* Mutant: one time stamp is kept for all devices. *)
AcceptTimeStampForAll(d, t) ==
    /\ ~IsObsolete(d, t)
    /\ lastTimeStamp' = [e \in Devices |-> t]

AcceptTimeStamp(d, t) ==
    /\ ~IsObsolete(d, t)
    /\ lastTimeStamp' = [lastTimeStamp EXCEPT ![d] = t]

AnswerNoSchedule(d, t, m) ==
    /\ AcceptTimeStamp(d, t)
    /\ phases[d] = <<>>
    /\ answered' = Answer(d, t, m, MessageError("NoSchedule"))
    /\ UNCHANGED <<phases, currentPhaseIndex, squareDiffs, deviationStats>>

(* Mutant: the loop stops in front of a phase that starts right now. *)
LoopStopsEarlyAt(s, from, t, k) ==
    /\ k \in from .. Len(s)
    /\ \A i \in (from + 1) .. k : s[i].timeStamp < t
    /\ k < Len(s) => s[k + 1].timeStamp >= t

(* The while loop started at index "from" of the phases s and stops at k. *)
LoopStopsAt(s, from, t, k) ==
    /\ k \in from .. Len(s)
    /\ \A i \in (from + 1) .. k : s[i].timeStamp <= t
    /\ k < Len(s) => s[k + 1].timeStamp > t

(* Move the cursor of d to its phase for time t. *)
AdvanceTo(d, t, k) ==
    /\ phases[d] # <<>>
    /\ LoopStopsAt(phases[d], currentPhaseIndex[d], t, k)
    /\ currentPhaseIndex' = [currentPhaseIndex EXCEPT ![d] = k]
    /\ UNCHANGED phases

AnswerNoTimestamp(d, t, m) ==
    /\ AcceptTimeStamp(d, t)
    /\ \E k \in 1 .. Len(phases[d]) : /\ AdvanceTo(d, t, k)
                                      /\ phases[d][k].timeStamp > t
    /\ answered' = Answer(d, t, m, MessageError("NoTimestamp"))
    /\ UNCHANGED <<squareDiffs, deviationStats>>

(* The statistics still run on the phase that is in force. *)
StatsContinue(d, phase) ==
    /\ deviationStats[d] # <<>>
    /\ deviationStats[d][Len(deviationStats[d])].phase = phase

AddDiff(diffs, n) == [sum |-> diffs.sum + n * n, count |-> diffs.count + 1]

(* Mutant: the deviation is computed before the difference is stored. *)
ContinueStatsTooEarly(d, phase, diff) ==
    /\ StatsContinue(d, phase)
    /\ squareDiffs' = [squareDiffs EXCEPT ![d] = AddDiff(@, diff)]
    /\ deviationStats' = [deviationStats EXCEPT
         ![d][Len(deviationStats[d])].deviation = squareDiffs[d]]

ContinueStats(d, phase, diff) ==
    /\ StatsContinue(d, phase)
    /\ squareDiffs' = [squareDiffs EXCEPT ![d] = AddDiff(@, diff)]
    /\ deviationStats' = [deviationStats EXCEPT
         ![d][Len(deviationStats[d])].deviation = AddDiff(squareDiffs[d], diff)]

(* Mutant: the buffers of all devices are cleared. *)
OpenStatsClearsAll(d, phase, t, diff) ==
    /\ ~StatsContinue(d, phase)
    /\ squareDiffs' = [[e \in Devices |-> NoDiffs] EXCEPT ![d] = AddDiff(@, diff)]
    /\ deviationStats' = [deviationStats EXCEPT
         ![d] = Append(@, [phase |-> phase, firstTimeStamp |-> t,
                           deviation |-> AddDiff(NoDiffs, diff)])]

OpenStats(d, phase, t, diff) ==
    /\ ~StatsContinue(d, phase)
    /\ squareDiffs' = [squareDiffs EXCEPT ![d] = AddDiff(NoDiffs, diff)]
    /\ deviationStats' = [deviationStats EXCEPT
         ![d] = Append(@, [phase |-> phase, firstTimeStamp |-> t,
                           deviation |-> AddDiff(NoDiffs, diff)])]

AnswerCommand(d, t, m) ==
    /\ AcceptTimeStamp(d, t)
    /\ \E k \in 1 .. Len(phases[d]) :
         LET phase == phases[d][k]
             diff == phase.value - m
         IN  /\ AdvanceTo(d, t, k)
             /\ phase.timeStamp <= t
             /\ \/ ContinueStats(d, phase, diff)
                \/ OpenStats(d, phase, t, diff)
             /\ answered' = Answer(d, t, m, MessageCommand(diff))

ProcessMeterage(d, t, m) ==
    \/ AnswerObsolete(d, t, m)
    \/ AnswerNoSchedule(d, t, m)
    \/ AnswerNoTimestamp(d, t, m)
    \/ AnswerCommand(d, t, m)
-----------------------------------------------------------------------------
Next == \E d \in Devices :
           \/ \E s \in Schedules : SetSchedule(d, s)
           \/ \E t \in TimeStamps, m \in Meterages : ProcessMeterage(d, t, m)

Spec == Init /\ [][Next]_vars
-----------------------------------------------------------------------------
(* Every variable holds what its C++ type and the calls above can put there. *)
Deviation == [sum : Nat, count : Nat]

TypeOK ==
    /\ phases \in [Devices -> Seq(Phases)]
    /\ currentPhaseIndex \in [Devices -> Nat \ {0}]
    /\ lastTimeStamp \in [Devices -> TimeStamps \cup {None}]
    /\ squareDiffs \in [Devices -> Deviation]
    /\ deviationStats \in [Devices -> Seq([phase : Phases,
                                           firstTimeStamp : TimeStamps,
                                           deviation : Deviation])]
    /\ answered \in [deviceId : Devices, meterage : MeterageMessages,
                     message : Replies] \cup {None}

(* The cursor is only an optimisation: whatever meterage is accepted next,   *)
(* the loop that starts at the cursor stops at the phase at which a scan of  *)
(* the whole plan would stop, although plans are replaced and times skipped  *)
(* in between (command_center.cpp:20, 48-52).                                *)
CursorFindsPhase ==
    \A d \in Devices, t \in TimeStamps :
        phases[d] # <<>> /\ ~IsObsolete(d, t) =>
            /\ currentPhaseIndex[d] \in 1 .. Len(phases[d])
            /\ \A k \in 1 .. Len(phases[d]) :
                  LoopStopsAt(phases[d], currentPhaseIndex[d], t, k)
                    <=> LoopStopsAt(phases[d], 1, t, k)

(* A command takes the measured value to a latest started phase of the plan: *)
(* modulo 2^8, as an int8_t is sent, hence exactly for the parameter's       *)
(* domain 0..100 (command_center.cpp:54-78, message_command.h:30).           *)
CommandReachesPlan ==
    answered # None /\ answered.message.type = "Command" =>
        LET t == answered.meterage.timeStamp
            m == answered.meterage.meterage
            command == answered.message.command
            plan == phases[answered.deviceId]
        IN  \E i \in 1 .. Len(plan) :
              /\ plan[i].timeStamp <= t
              /\ \A j \in 1 .. Len(plan) :
                    plan[j].timeStamp <= t => plan[j].timeStamp <= plan[i].timeStamp
              /\ (m + command) % 256 = plan[i].value
              /\ m <= 100 /\ plan[i].value <= 100 => m + command = plan[i].value

(* The statistics are a chronicle: neighbouring entries are of different     *)
(* phases, their first meterages follow each other in time, no phase is      *)
(* charged before it started, and nothing is newer than the last accepted    *)
(* meterage (command_center.cpp:64-72).                                      *)
StatsOrdered ==
    \A d \in Devices :
        LET stats == deviationStats[d]
        IN  \A i \in 1 .. Len(stats) :
              /\ stats[i].phase.timeStamp <= stats[i].firstTimeStamp
              /\ lastTimeStamp[d] # None
              /\ stats[i].firstTimeStamp <= lastTimeStamp[d]
              /\ i > 1 => /\ stats[i - 1].phase # stats[i].phase
                         /\ stats[i - 1].firstTimeStamp < stats[i].firstTimeStamp

(* The buffer of squared differences is shared by all entries in turn: it    *)
(* always belongs to the last entry, and an entry without a meterage does    *)
(* not exist (command_center.cpp:69-76).                                     *)
BufferOfLastEntry ==
    \A d \in Devices :
        LET stats == deviationStats[d]
        IN  /\ stats # <<>> => stats[Len(stats)].deviation = squareDiffs[d]
            /\ \A i \in 1 .. Len(stats) : stats[i].deviation.count > 0

(* What was reported stays reported: a step appends at most one entry, and   *)
(* changes at most the deviation of the last one, by one more meterage.      *)
GrownFrom(old, new) ==
    \/ new = old
    \/ /\ Len(new) = Len(old) + 1
       /\ \A i \in 1 .. Len(old) : new[i] = old[i]
    \/ /\ Len(new) = Len(old)
       /\ \A i \in 1 .. Len(old) - 1 : new[i] = old[i]
       /\ new[Len(old)].phase = old[Len(old)].phase
       /\ new[Len(old)].firstTimeStamp = old[Len(old)].firstTimeStamp
       /\ new[Len(old)].deviation.count = old[Len(old)].deviation.count + 1

(* The history of a device's control is never rewritten, not even when its   *)
(* plan is replaced (command_center.cpp:18-26, 64-76).                       *)
StatsOnlyGrow ==
    [][\A d \in Devices : GrownFrom(deviationStats[d], deviationStats'[d])]_vars
=============================================================================
