------------------------- MODULE CommandCenterProofs -------------------------
(***************************************************************************)
(* Theorems about CommandCenter for every set of devices, time stamps,     *)
(* values and plans.                                                       *)
(***************************************************************************)
EXTENDS CommandCenter, SequenceTheorems, TLAPS

USE TimeStampsAssumption, PlanValuesAssumption, MeteragesAssumption,
    NoneAssumption, SchedulesAssumption

-----------------------------------------------------------------------------
(* Lemmas about the operators. *)

LEMMA SquareIsNat == \A n \in Int : n * n \in Nat
  OBVIOUS

(* Adding a difference to a deviation gives a deviation of one more.       *)
LEMMA AddDiffType ==
  ASSUME NEW diffs \in Deviation, NEW n \in Int
  PROVE  /\ AddDiff(diffs, n) \in Deviation
         /\ AddDiff(diffs, n).count = diffs.count + 1
  BY SquareIsNat DEF AddDiff, Deviation

LEMMA NoDiffsType == NoDiffs \in Deviation
  BY DEF NoDiffs, Deviation

LEMMA Int8Range == \A n \in Int : Int8(n) \in -128 .. 127
  BY DEF Int8

LEMMA LastElement ==
  ASSUME NEW S, NEW s \in Seq(S), s # <<>>
  PROVE  Len(s) \in 1 .. Len(s) /\ s[Len(s)] \in S
<1>1. Len(s) \in Nat /\ Len(s) # 0
  BY EmptySeq
<1>2. Len(s) \in 1 .. Len(s)
  BY <1>1
<1> QED BY <1>2

LEMMA PhaseType ==
  ASSUME NEW p \in Phases
  PROVE  /\ p.timeStamp \in TimeStamps /\ p.timeStamp \in Nat
         /\ p.value \in PlanValues /\ p.value \in 0 .. 255
  BY DEF Phases, Byte

LEMMA PlanElements ==
  ASSUME NEW s \in Seq(Phases), NEW j \in 1 .. Len(s)
  PROVE  /\ s[j] \in Phases
         /\ s[j].timeStamp \in TimeStamps /\ s[j].timeStamp \in Nat
         /\ s[j].value \in 0 .. 255
<1>1. s[j] \in Phases
  OBVIOUS
<1> QED BY <1>1, PhaseType

(* std::sort yields a sorted plan of the same phases. *)
LEMMA SortedPlan ==
  ASSUME NEW s \in Seq(Phases), NEW r \in Sorted(s)
  PROVE  /\ r \in Seq(Phases)
         /\ Len(r) = Len(s)
         /\ SortedByTime(r)
         /\ Range(r) = Range(s)
<1>1. PICK order \in Bijection(1 .. Len(s), 1 .. Len(s)) :
             r = [i \in 1 .. Len(s) |-> s[order[i]]]
  BY DEF Sorted
<1>2. /\ order \in [1 .. Len(s) -> 1 .. Len(s)]
      /\ \A j \in 1 .. Len(s) : \E i \in 1 .. Len(s) : order[i] = j
  BY DEF Bijection, Injection, Surjection
<1>3. r \in Seq(Phases) /\ Len(r) = Len(s)
  <2>1. \A i \in 1 .. Len(s) : s[order[i]] \in Phases
    BY <1>2
  <2>2. Len(s) \in Nat
    OBVIOUS
  <2> QED BY <1>1, <2>1, <2>2
<1>4. SortedByTime(r)
  BY DEF Sorted
<1>5. Range(r) = Range(s)
  <2>1. DOMAIN r = 1 .. Len(s) /\ DOMAIN s = 1 .. Len(s)
    BY <1>1
  <2>2. ASSUME NEW i \in DOMAIN r PROVE r[i] \in Range(s)
    BY <2>1, <1>1, <1>2 DEF Range
  <2>3. ASSUME NEW j \in DOMAIN s PROVE s[j] \in Range(r)
    <3>1. PICK i \in 1 .. Len(s) : order[i] = j
      BY <1>2, <2>1
    <3>2. r[i] = s[j]
      BY <1>1, <3>1
    <3> QED BY <2>1, <3>2 DEF Range
  <2> QED BY <2>2, <2>3 DEF Range
<1> QED BY <1>3, <1>4, <1>5

(* Where a LoopStopsAt holds, the plan's phases up to k have started, with *)
(* the possible exception of the first one looked at, and none after k has.*)
LEMMA LoopSplitsPlan ==
  ASSUME NEW s \in Seq(Phases), SortedByTime(s),
         NEW from \in 1 .. Len(s), NEW t \in TimeStamps,
         NEW k \in 1 .. Len(s), LoopStopsAt(s, from, t, k)
  PROVE  /\ \A j \in (k + 1) .. Len(s) : s[j].timeStamp > t
         /\ \A j \in 1 .. k : s[j].timeStamp <= s[k].timeStamp
         /\ k # from => s[k].timeStamp <= t
<1> USE DEF LoopStopsAt, SortedByTime
<1>0. \A j \in 1 .. Len(s) : s[j].timeStamp \in Nat
  BY PlanElements
<1>1. \A j \in (k + 1) .. Len(s) : s[j].timeStamp > t
  <2> SUFFICES ASSUME NEW j \in (k + 1) .. Len(s) PROVE s[j].timeStamp > t
    OBVIOUS
  <2>1. k + 1 \in 1 .. Len(s) /\ s[k + 1].timeStamp > t
    OBVIOUS
  <2>2. s[k + 1].timeStamp <= s[j].timeStamp
    BY <1>0, <2>1
  <2> QED BY <1>0, <2>1, <2>2
<1>2. \A j \in 1 .. k : s[j].timeStamp <= s[k].timeStamp
  BY <1>0
<1>3. k # from => s[k].timeStamp <= t
  BY <1>0
<1> QED BY <1>1, <1>2, <1>3
-----------------------------------------------------------------------------
(* Type correctness: TypeOK is inductive by itself. *)

LEMMA InitTypeOK == Init => TypeOK
  BY NoDiffsType DEF Init, TypeOK

LEMMA SetScheduleTypeOK ==
  ASSUME TypeOK, NEW d \in Devices, NEW s \in Schedules, SetSchedule(d, s)
  PROVE  TypeOK'
<1>1. PICK r \in Sorted(s) : phases' = [phases EXCEPT ![d] = r]
  BY DEF SetSchedule
<1>2. r \in Seq(Phases)
  BY SortedPlan
<1>3. phases' \in [Devices -> Seq(Phases)]
  BY <1>1, <1>2 DEF TypeOK
<1>4. currentPhaseIndex' \in [Devices -> Nat \ {0}]
  BY DEF SetSchedule, TypeOK
<1> QED BY <1>3, <1>4 DEF SetSchedule, TypeOK

LEMMA AnswerType ==
  ASSUME NEW d \in Devices, NEW t \in TimeStamps, NEW m \in Meterages,
         NEW message \in Replies
  PROVE  Answer(d, t, m, message) \in
           [deviceId : Devices, meterage : MeterageMessages, message : Replies]
  BY DEF Answer, MessageMeterage, MeterageMessages

LEMMA ErrorType ==
  ASSUME NEW e \in ErrorTypes
  PROVE  MessageError(e) \in Replies
  BY DEF MessageError, Replies

LEMMA CommandType ==
  ASSUME NEW n \in Int
  PROVE  MessageCommand(n) \in Replies
  BY Int8Range DEF MessageCommand, Replies

LEMMA StatsTypeOK ==
  ASSUME TypeOK, NEW d \in Devices, NEW t \in TimeStamps,
         NEW phase \in Phases, NEW diff \in Int,
         ContinueStats(d, phase, diff) \/ OpenStats(d, phase, t, diff)
  PROVE  /\ squareDiffs' \in [Devices -> Deviation]
         /\ deviationStats' \in [Devices -> Seq([phase : Phases,
                                                firstTimeStamp : TimeStamps,
                                                deviation : Deviation])]
<1>1. AddDiff(squareDiffs[d], diff) \in Deviation
      /\ AddDiff(NoDiffs, diff) \in Deviation
  BY AddDiffType, NoDiffsType DEF TypeOK
<1>2. CASE ContinueStats(d, phase, diff)
  <2> DEFINE Entry == [phase : Phases, firstTimeStamp : TimeStamps,
                       deviation : Deviation]
             old == deviationStats[d]
             last == [old[Len(old)] EXCEPT !.deviation = AddDiff(squareDiffs[d], diff)]
  <2>1. old \in Seq(Entry) /\ old # <<>>
    BY <1>2 DEF TypeOK, ContinueStats, StatsContinue
  <2>2. Len(old) \in 1 .. Len(old) /\ old[Len(old)] \in Entry
    <3> HIDE DEF old, Entry
    <3> QED BY <2>1, LastElement
  <2>3. last \in Entry
    BY <1>1, <2>2
  <2>4. [old EXCEPT ![Len(old)] = last] \in Seq(Entry)
    BY <2>1, <2>3
  <2>5. deviationStats' = [deviationStats EXCEPT ![d] = [old EXCEPT ![Len(old)] = last]]
    BY <1>2 DEF ContinueStats
  <2>6. deviationStats' \in [Devices -> Seq(Entry)]
    <3> HIDE DEF last, old
    <3> QED BY <2>4, <2>5 DEF TypeOK
  <2>7. squareDiffs' \in [Devices -> Deviation]
    BY <1>1, <1>2 DEF ContinueStats, TypeOK
  <2> QED BY <2>6, <2>7
<1>3. CASE OpenStats(d, phase, t, diff)
  <2> DEFINE Entry == [phase : Phases, firstTimeStamp : TimeStamps,
                       deviation : Deviation]
             new == [phase |-> phase, firstTimeStamp |-> t,
                     deviation |-> AddDiff(NoDiffs, diff)]
  <2>1. Append(deviationStats[d], new) \in Seq(Entry)
    <3>1. new \in Entry
      BY <1>1
    <3>2. deviationStats[d] \in Seq(Entry)
      BY DEF TypeOK
    <3> HIDE DEF new, Entry
    <3> QED BY <3>1, <3>2, AppendProperties
  <2>2. deviationStats' = [deviationStats EXCEPT ![d] = Append(deviationStats[d], new)]
    BY <1>3 DEF OpenStats
  <2>3. deviationStats' \in [Devices -> Seq(Entry)]
    <3> HIDE DEF new
    <3> QED BY <2>1, <2>2 DEF TypeOK
  <2>4. squareDiffs' \in [Devices -> Deviation]
    BY <1>1, <1>3 DEF OpenStats, TypeOK
  <2> QED BY <2>3, <2>4
<1> QED BY <1>2, <1>3

LEMMA ProcessMeterageTypeOK ==
  ASSUME TypeOK, NEW d \in Devices, NEW t \in TimeStamps, NEW m \in Meterages,
         ProcessMeterage(d, t, m)
  PROVE  TypeOK'
<1> DEFINE Answers == [deviceId : Devices, meterage : MeterageMessages,
                       message : Replies]
<1>1. ASSUME NEW e \in ErrorTypes
      PROVE  Answer(d, t, m, MessageError(e)) \in Answers
  BY AnswerType, ErrorType
<1>2. {"Obsolete", "NoSchedule", "NoTimestamp"} \subseteq ErrorTypes
  BY DEF ErrorTypes
<1>3. AcceptTimeStamp(d, t) => lastTimeStamp' \in [Devices -> TimeStamps \cup {None}]
  BY DEF AcceptTimeStamp, TypeOK
<1>4. ASSUME NEW k \in 1 .. Len(phases[d]), AdvanceTo(d, t, k)
      PROVE  /\ phases' \in [Devices -> Seq(Phases)]
             /\ currentPhaseIndex' \in [Devices -> Nat \ {0}]
             /\ phases[d][k] \in Phases
             /\ phases[d][k].value - m \in Int
  <2>1. phases[d] \in Seq(Phases)
    BY DEF TypeOK
  <2>2. phases[d][k] \in Phases /\ phases[d][k].value \in 0 .. 255
    BY <2>1, PlanElements
  <2>3. k \in Nat \ {0} /\ m \in 0 .. 255
    BY <2>1 DEF Byte
  <2>4. phases' \in [Devices -> Seq(Phases)]
    BY <1>4 DEF AdvanceTo, TypeOK
  <2>5. currentPhaseIndex' \in [Devices -> Nat \ {0}]
    BY <1>4, <2>3 DEF AdvanceTo, TypeOK
  <2>6. phases[d][k].value - m \in Int
    <3>1. \A a, b \in 0 .. 255 : a - b \in Int
      OBVIOUS
    <3> QED BY <2>2, <2>3, <3>1
  <2> QED BY <2>2, <2>4, <2>5, <2>6
<1> HIDE DEF Answers
<1>5. CASE AnswerObsolete(d, t, m)
  <2>1. answered' \in Answers
    BY <1>1, <1>2, <1>5 DEF AnswerObsolete
  <2> QED BY <1>5, <2>1 DEF AnswerObsolete, TypeOK, Answers
<1>6. CASE AnswerNoSchedule(d, t, m)
  <2>1. answered' \in Answers
    BY <1>1, <1>2, <1>6 DEF AnswerNoSchedule
  <2> QED BY <1>3, <1>6, <2>1 DEF AnswerNoSchedule, TypeOK, Answers
<1>7. CASE AnswerNoTimestamp(d, t, m)
  <2>1. answered' \in Answers
    BY <1>1, <1>2, <1>7 DEF AnswerNoTimestamp
  <2>2. PICK k \in 1 .. Len(phases[d]) : AdvanceTo(d, t, k)
    BY <1>7 DEF AnswerNoTimestamp
  <2>3. /\ phases' \in [Devices -> Seq(Phases)]
        /\ currentPhaseIndex' \in [Devices -> Nat \ {0}]
    BY <1>4, <2>2
  <2> QED BY <1>3, <1>7, <2>1, <2>3 DEF AnswerNoTimestamp, TypeOK, Answers
<1>8. CASE AnswerCommand(d, t, m)
  <2> DEFINE phase(k) == phases[d][k]
             diff(k) == phase(k).value - m
  <2>1. PICK k \in 1 .. Len(phases[d]) :
               /\ AdvanceTo(d, t, k)
               /\ \/ ContinueStats(d, phase(k), diff(k))
                  \/ OpenStats(d, phase(k), t, diff(k))
               /\ answered' = Answer(d, t, m, MessageCommand(diff(k)))
    BY <1>8 DEF AnswerCommand
  <2>2. /\ phases' \in [Devices -> Seq(Phases)]
        /\ currentPhaseIndex' \in [Devices -> Nat \ {0}]
        /\ phase(k) \in Phases /\ diff(k) \in Int
    BY <1>4, <2>1
  <2> HIDE DEF phase, diff
  <2>3. answered' \in Answers
    BY <2>1, <2>2, AnswerType, CommandType DEF Answers
  <2>4. /\ squareDiffs' \in [Devices -> Deviation]
        /\ deviationStats' \in [Devices -> Seq([phase : Phases,
                                               firstTimeStamp : TimeStamps,
                                               deviation : Deviation])]
    BY <2>1, <2>2, StatsTypeOK
  <2>5. lastTimeStamp' \in [Devices -> TimeStamps \cup {None}]
    BY <1>3, <1>8 DEF AnswerCommand
  <2> QED BY <2>2, <2>3, <2>4, <2>5 DEF TypeOK, Answers
<1> QED BY <1>5, <1>6, <1>7, <1>8 DEF ProcessMeterage

LEMMA NextTypeOK == TypeOK /\ [Next]_vars => TypeOK'
<1> SUFFICES ASSUME TypeOK, [Next]_vars PROVE TypeOK'
  OBVIOUS
<1>1. ASSUME NEW d \in Devices, NEW s \in Schedules, SetSchedule(d, s)
      PROVE  TypeOK'
  BY <1>1, SetScheduleTypeOK
<1>2. ASSUME NEW d \in Devices, NEW t \in TimeStamps, NEW m \in Meterages,
             ProcessMeterage(d, t, m)
      PROVE  TypeOK'
  BY <1>2, ProcessMeterageTypeOK
<1>3. CASE UNCHANGED vars
  BY <1>3 DEF vars, TypeOK
<1> QED BY <1>1, <1>2, <1>3 DEF Next

(* All that the class stores stays within its types; above all, every        *)
(* command that is sent is an int8_t.                                        *)
THEOREM TypeCorrect == Spec => []TypeOK
  BY InitTypeOK, NextTypeOK, PTL DEF Spec
-----------------------------------------------------------------------------
(***************************************************************************)
(* The cursor.  CursorInv says why it may be cached: the plan is sorted,   *)
(* and a cursor that has left the first phase stands on a phase that had   *)
(* started when the last meterage was accepted.  Every later meterage that *)
(* is accepted is newer, so no phase up to the cursor can be ruled out.    *)
(***************************************************************************)
CursorInv ==
    \A d \in Devices :
        /\ SortedByTime(phases[d])
        /\ currentPhaseIndex[d] > 1 =>
              /\ currentPhaseIndex[d] <= Len(phases[d])
              /\ lastTimeStamp[d] # None
              /\ phases[d][currentPhaseIndex[d]].timeStamp <= lastTimeStamp[d]

LEMMA InitCursorInv == Init => CursorInv
<1> SUFFICES ASSUME Init, NEW d \in Devices
             PROVE  SortedByTime(phases[d]) /\ ~(currentPhaseIndex[d] > 1)
  BY DEF CursorInv
<1>1. phases[d] = <<>> /\ currentPhaseIndex[d] = 1
  BY DEF Init
<1> QED BY <1>1 DEF SortedByTime

LEMMA SetScheduleCursorInv ==
  ASSUME TypeOK, CursorInv, NEW d \in Devices, NEW s \in Schedules,
         SetSchedule(d, s)
  PROVE  CursorInv'
<1>1. PICK r \in Sorted(s) : phases' = [phases EXCEPT ![d] = r]
  BY DEF SetSchedule
<1>2. SortedByTime(r)
  BY SortedPlan
<1>3. SUFFICES ASSUME NEW e \in Devices
               PROVE  /\ SortedByTime(phases'[e])
                      /\ currentPhaseIndex'[e] > 1 =>
                           /\ currentPhaseIndex'[e] <= Len(phases'[e])
                           /\ lastTimeStamp'[e] # None
                           /\ phases'[e][currentPhaseIndex'[e]].timeStamp
                                <= lastTimeStamp'[e]
  BY DEF CursorInv, SortedByTime
<1>4. CASE e = d
  <2>1. phases'[e] = r /\ currentPhaseIndex'[e] = 1
    BY <1>1, <1>4 DEF SetSchedule, TypeOK
  <2> QED BY <1>2, <2>1
<1>5. CASE e # d
  <2>1. /\ phases'[e] = phases[e]
        /\ currentPhaseIndex'[e] = currentPhaseIndex[e]
        /\ lastTimeStamp' = lastTimeStamp
    BY <1>1, <1>5 DEF SetSchedule, TypeOK
  <2> QED BY <2>1 DEF CursorInv
<1> QED BY <1>4, <1>5

(* What an accepted meterage does to the cursor of its own device. *)
LEMMA AdvanceToCursor ==
  ASSUME TypeOK, CursorInv, NEW d \in Devices, NEW t \in TimeStamps,
         NEW k \in 1 .. Len(phases[d]), AcceptTimeStamp(d, t), AdvanceTo(d, t, k)
  PROVE  /\ k > 1 => phases[d][k].timeStamp <= t
         /\ CursorInv'
<1> DEFINE s == phases[d]
           from == currentPhaseIndex[d]
<1>1. /\ s \in Seq(Phases) /\ SortedByTime(s) /\ from \in Nat \ {0}
      /\ lastTimeStamp[d] \in TimeStamps \cup {None} /\ t \in Nat
      /\ LoopStopsAt(s, from, t, k) /\ k \in 1 .. Len(s)
  BY DEF TypeOK, CursorInv, AdvanceTo
<1>2. from > 1 => s[from].timeStamp <= t
  <2> SUFFICES ASSUME from > 1 PROVE s[from].timeStamp <= t
    OBVIOUS
  <2>1. /\ from \in 1 .. Len(s) /\ lastTimeStamp[d] # None
        /\ s[from].timeStamp <= lastTimeStamp[d]
    BY <1>1 DEF CursorInv
  <2>2. s[from].timeStamp \in Nat /\ lastTimeStamp[d] \in Nat
    BY <1>1, <2>1, PlanElements
  <2>3. ~(lastTimeStamp[d] >= t)
    BY <2>1 DEF AcceptTimeStamp, IsObsolete
  <2> QED BY <1>1, <2>1, <2>2, <2>3
<1>3. from \in 1 .. Len(s)
  BY <1>1 DEF LoopStopsAt
<1>4. k > 1 => s[k].timeStamp <= t
  <2> HIDE DEF s, from
  <2>1. k # from => s[k].timeStamp <= t
    BY <1>1, <1>3, LoopSplitsPlan
  <2> QED BY <1>2, <2>1
<1>5. /\ phases' = phases
      /\ currentPhaseIndex' = [currentPhaseIndex EXCEPT ![d] = k]
      /\ lastTimeStamp' = [lastTimeStamp EXCEPT ![d] = t]
  BY DEF AdvanceTo, AcceptTimeStamp
<1>6. CursorInv'
  <2> SUFFICES ASSUME NEW e \in Devices
               PROVE  /\ SortedByTime(phases'[e])
                      /\ currentPhaseIndex'[e] > 1 =>
                           /\ currentPhaseIndex'[e] <= Len(phases'[e])
                           /\ lastTimeStamp'[e] # None
                           /\ phases'[e][currentPhaseIndex'[e]].timeStamp
                                <= lastTimeStamp'[e]
    BY DEF CursorInv, SortedByTime
  <2>1. CASE e = d
    <3>1. currentPhaseIndex'[e] = k /\ lastTimeStamp'[e] = t /\ phases'[e] = s
      BY <1>5, <2>1 DEF TypeOK
    <3>2. k <= Len(s) /\ t # None
      BY <1>1
    <3> QED BY <1>1, <1>4, <3>1, <3>2
  <2>2. CASE e # d
    <3>1. /\ currentPhaseIndex'[e] = currentPhaseIndex[e]
          /\ lastTimeStamp'[e] = lastTimeStamp[e] /\ phases'[e] = phases[e]
      BY <1>5, <2>2 DEF TypeOK
    <3> QED BY <3>1 DEF CursorInv
  <2> QED BY <2>1, <2>2
<1> QED BY <1>4, <1>6

LEMMA ProcessMeterageCursorInv ==
  ASSUME TypeOK, CursorInv, NEW d \in Devices, NEW t \in TimeStamps,
         NEW m \in Meterages, ProcessMeterage(d, t, m)
  PROVE  CursorInv'
<1>1. CASE AnswerObsolete(d, t, m)
  BY <1>1 DEF AnswerObsolete, CursorInv, SortedByTime
<1>2. CASE AnswerNoSchedule(d, t, m)
  <2>1. /\ phases' = phases /\ currentPhaseIndex' = currentPhaseIndex
        /\ lastTimeStamp' = [lastTimeStamp EXCEPT ![d] = t]
        /\ phases[d] = <<>>
    BY <1>2 DEF AnswerNoSchedule, AcceptTimeStamp
  <2>2. ~(currentPhaseIndex[d] > 1)
    BY <2>1 DEF CursorInv, TypeOK
  <2>3. \A e \in Devices : e # d => lastTimeStamp'[e] = lastTimeStamp[e]
    BY <2>1 DEF TypeOK
  <2> QED BY <2>1, <2>2, <2>3 DEF CursorInv, SortedByTime
<1>3. CASE AnswerNoTimestamp(d, t, m)
  BY <1>3, AdvanceToCursor DEF AnswerNoTimestamp
<1>4. CASE AnswerCommand(d, t, m)
  BY <1>4, AdvanceToCursor DEF AnswerCommand
<1> QED BY <1>1, <1>2, <1>3, <1>4 DEF ProcessMeterage

LEMMA NextCursorInv == TypeOK /\ CursorInv /\ [Next]_vars => CursorInv'
<1> SUFFICES ASSUME TypeOK, CursorInv, [Next]_vars PROVE CursorInv'
  OBVIOUS
<1>1. CASE UNCHANGED vars
  BY <1>1 DEF vars, CursorInv, SortedByTime
<1>2. CASE Next
  BY <1>2, SetScheduleCursorInv, ProcessMeterageCursorInv DEF Next
<1> QED BY <1>1, <1>2

(* Under CursorInv a scan that starts at the cursor stops where a scan of   *)
(* the whole plan stops.                                                    *)
LEMMA CursorInvFindsPhase == TypeOK /\ CursorInv => CursorFindsPhase
<1> SUFFICES ASSUME TypeOK, CursorInv, NEW d \in Devices, NEW t \in TimeStamps,
                    phases[d] # <<>>, ~IsObsolete(d, t)
             PROVE  /\ currentPhaseIndex[d] \in 1 .. Len(phases[d])
                    /\ \A k \in 1 .. Len(phases[d]) :
                          LoopStopsAt(phases[d], currentPhaseIndex[d], t, k)
                            <=> LoopStopsAt(phases[d], 1, t, k)
  BY DEF CursorFindsPhase
<1> DEFINE s == phases[d]
           from == currentPhaseIndex[d]
<1>1. /\ s \in Seq(Phases) /\ SortedByTime(s) /\ from \in Nat \ {0}
      /\ lastTimeStamp[d] \in TimeStamps \cup {None} /\ t \in Nat
      /\ Len(s) \in 1 .. Len(s)
  <2>1. s \in Seq(Phases) /\ s # <<>>
    BY DEF TypeOK
  <2>2. Len(s) \in 1 .. Len(s)
    BY <2>1, LastElement
  <2> QED BY <2>1, <2>2 DEF TypeOK, CursorInv
<1>2. from \in 1 .. Len(s)
  BY <1>1 DEF CursorInv
<1>3. from > 1 => s[from].timeStamp <= t
  <2> SUFFICES ASSUME from > 1 PROVE s[from].timeStamp <= t
    OBVIOUS
  <2>1. /\ lastTimeStamp[d] # None
        /\ s[from].timeStamp <= lastTimeStamp[d]
    BY DEF CursorInv
  <2>2. s[from].timeStamp \in Nat /\ lastTimeStamp[d] \in Nat
    BY <1>1, <1>2, <2>1, PlanElements
  <2>3. ~(lastTimeStamp[d] >= t)
    BY <2>1 DEF IsObsolete
  <2> QED BY <1>1, <2>1, <2>2, <2>3
<1>4. \A j \in 1 .. Len(s) : s[j].timeStamp \in Nat
  BY <1>1, PlanElements
<1>5. \A j \in 2 .. from : s[j].timeStamp <= t
  <2> SUFFICES ASSUME NEW j \in 2 .. from PROVE s[j].timeStamp <= t
    OBVIOUS
  <2>1. j \in 1 .. Len(s) /\ s[j].timeStamp <= s[from].timeStamp
    BY <1>1, <1>2, <1>4 DEF SortedByTime
  <2> QED BY <1>1, <1>2, <1>3, <1>4, <2>1
<1> HIDE DEF s, from
<1>6. ASSUME NEW k \in 1 .. Len(s), LoopStopsAt(s, from, t, k)
      PROVE  LoopStopsAt(s, 1, t, k)
  BY <1>1, <1>2, <1>5, <1>6 DEF LoopStopsAt
<1>7. ASSUME NEW k \in 1 .. Len(s), LoopStopsAt(s, 1, t, k)
      PROVE  LoopStopsAt(s, from, t, k)
  <2>1. k >= from
    <3> SUFFICES ASSUME k < from PROVE FALSE
      BY <1>1, <1>2
    <3>1. k < Len(s) /\ k + 1 \in 2 .. from /\ k + 1 \in 1 .. Len(s)
      BY <1>1, <1>2
    <3>2. s[k + 1].timeStamp > t /\ s[k + 1].timeStamp <= t
      BY <1>5, <1>7, <3>1 DEF LoopStopsAt
    <3> QED BY <1>1, <1>4, <3>1, <3>2
  <2> QED BY <1>1, <1>2, <1>7, <2>1 DEF LoopStopsAt
<1> QED BY <1>2, <1>6, <1>7 DEF s, from

(* In every reachable state the cached cursor gives the phase a full scan   *)
(* would give, for any meterage that can still be accepted.                 *)
THEOREM CursorSound == Spec => []CursorFindsPhase
<1>1. Init => TypeOK /\ CursorInv
  BY InitTypeOK, InitCursorInv
<1>2. TypeOK /\ CursorInv /\ [Next]_vars => (TypeOK /\ CursorInv)'
  BY NextTypeOK, NextCursorInv
<1>3. TypeOK /\ CursorInv => CursorFindsPhase
  BY CursorInvFindsPhase
<1> QED BY <1>1, <1>2, <1>3, PTL DEF Spec
-----------------------------------------------------------------------------
(***************************************************************************)
(* Commands.  A command is computed from the phase at which the loop       *)
(* stopped; in a sorted plan that is a latest started one.                 *)
(***************************************************************************)
LEMMA CommandArithmetic ==
  ASSUME NEW v \in 0 .. 255, NEW m \in 0 .. 255
  PROVE  /\ (m + Int8(v - m)) % 256 = v
         /\ m <= 100 /\ v <= 100 => m + Int8(v - m) = v
  BY DEF Int8

LEMMA AnswerFields ==
  ASSUME NEW d, NEW t, NEW m, NEW message
  PROVE  /\ Answer(d, t, m, message).deviceId = d
         /\ Answer(d, t, m, message).meterage.timeStamp = t
         /\ Answer(d, t, m, message).meterage.meterage = m
         /\ Answer(d, t, m, message).message = message
  BY DEF Answer, MessageMeterage

LEMMA ErrorIsNoCommand ==
  ASSUME NEW d, NEW t, NEW m, NEW e
  PROVE  Answer(d, t, m, MessageError(e)).message.type # "Command"
  BY DEF Answer, MessageError

LEMMA AnswerCommandReachesPlan ==
  ASSUME TypeOK, CursorInv, NEW d \in Devices, NEW t \in TimeStamps,
         NEW m \in Meterages, AnswerCommand(d, t, m)
  PROVE  CommandReachesPlan'
<1> DEFINE plan == phases[d]
<1>1. plan \in Seq(Phases) /\ SortedByTime(plan) /\ currentPhaseIndex[d] \in Nat \ {0}
  BY DEF TypeOK, CursorInv
<1>2. PICK k \in 1 .. Len(plan) :
             /\ AdvanceTo(d, t, k)
             /\ plan[k].timeStamp <= t
             /\ answered' = Answer(d, t, m, MessageCommand(plan[k].value - m))
  BY DEF AnswerCommand
<1>3. phases' = phases /\ LoopStopsAt(plan, currentPhaseIndex[d], t, k)
  BY <1>2 DEF AdvanceTo
<1> HIDE DEF plan
<1>4. currentPhaseIndex[d] \in 1 .. Len(plan)
  BY <1>1, <1>3 DEF LoopStopsAt
<1>5. /\ \A j \in (k + 1) .. Len(plan) : plan[j].timeStamp > t
      /\ \A j \in 1 .. k : plan[j].timeStamp <= plan[k].timeStamp
  BY <1>1, <1>3, <1>4, LoopSplitsPlan
<1>6. \A j \in 1 .. Len(plan) : plan[j].timeStamp \in Nat
  BY <1>1, PlanElements
<1>7. ASSUME NEW j \in 1 .. Len(plan), plan[j].timeStamp <= t
      PROVE  plan[j].timeStamp <= plan[k].timeStamp
  <2>1. CASE j \in 1 .. k
    BY <1>5, <2>1
  <2>2. CASE j \in (k + 1) .. Len(plan)
    BY <1>5, <1>6, <1>7, <2>2
  <2> QED BY <1>1, <2>1, <2>2
<1>8. plan[k].value \in 0 .. 255 /\ m \in 0 .. 255
  BY <1>1, PlanElements DEF Byte
<1> DEFINE command == Int8(plan[k].value - m)
<1>9. /\ (m + command) % 256 = plan[k].value
      /\ m <= 100 /\ plan[k].value <= 100 => m + command = plan[k].value
  <2> DEFINE v == plan[k].value
  <2>1. v \in 0 .. 255 /\ m \in 0 .. 255
    BY <1>8
  <2> HIDE DEF v
  <2>2. /\ (m + Int8(v - m)) % 256 = v
        /\ m <= 100 /\ v <= 100 => m + Int8(v - m) = v
    BY <2>1, CommandArithmetic
  <2> QED BY <2>2 DEF v
<1> HIDE DEF command
<1>10. /\ answered'.deviceId = d
       /\ answered'.meterage.timeStamp = t
       /\ answered'.meterage.meterage = m
       /\ answered'.message.command = command
  BY <1>2, AnswerFields DEF MessageCommand, command
<1>11. \E i \in 1 .. Len(plan) :
          /\ plan[i].timeStamp <= t
          /\ \A j \in 1 .. Len(plan) :
                plan[j].timeStamp <= t => plan[j].timeStamp <= plan[i].timeStamp
          /\ (m + command) % 256 = plan[i].value
          /\ m <= 100 /\ plan[i].value <= 100 => m + command = plan[i].value
  BY <1>2, <1>7, <1>9
<1>12. phases'[answered'.deviceId] = plan
  BY <1>3, <1>10 DEF plan
<1> QED BY <1>10, <1>11, <1>12, Zenon DEF CommandReachesPlan

LEMMA NextCommandReachesPlan ==
  TypeOK /\ CursorInv /\ CommandReachesPlan /\ [Next]_vars => CommandReachesPlan'
<1> SUFFICES ASSUME TypeOK, CursorInv, CommandReachesPlan, [Next]_vars
             PROVE  CommandReachesPlan'
  OBVIOUS
<1>1. CASE UNCHANGED vars
  BY <1>1, Zenon DEF vars, CommandReachesPlan
<1>2. ASSUME NEW d \in Devices, NEW s \in Schedules, SetSchedule(d, s)
      PROVE  CommandReachesPlan'
  BY <1>2, Zenon DEF SetSchedule, CommandReachesPlan
<1>3. ASSUME NEW d \in Devices, NEW t \in TimeStamps, NEW m \in Meterages,
             ProcessMeterage(d, t, m)
      PROVE  CommandReachesPlan'
  <2>1. CASE AnswerCommand(d, t, m)
    BY <2>1, AnswerCommandReachesPlan
  <2>2. CASE \E e : answered' = Answer(d, t, m, MessageError(e))
    BY <2>2, ErrorIsNoCommand, Zenon DEF CommandReachesPlan
  <2> QED BY <1>3, <2>1, <2>2, Zenon
          DEF ProcessMeterage, AnswerObsolete, AnswerNoSchedule, AnswerNoTimestamp
<1> QED BY <1>1, <1>2, <1>3 DEF Next

(* Every command, added to the measured value, gives the value of a latest  *)
(* started phase of the plan: modulo 2^8, and exactly within 0..100.        *)
THEOREM CommandCorrect == Spec => []CommandReachesPlan
<1>1. Init => TypeOK /\ CursorInv /\ CommandReachesPlan
  <2>1. Init => CommandReachesPlan
    BY Zenon DEF Init, CommandReachesPlan
  <2> QED BY <2>1, InitTypeOK, InitCursorInv
<1>2. TypeOK /\ CursorInv /\ CommandReachesPlan /\ [Next]_vars
        => (TypeOK /\ CursorInv /\ CommandReachesPlan)'
  BY NextTypeOK, NextCursorInv, NextCommandReachesPlan
<1> QED BY <1>1, <1>2, PTL DEF Spec
-----------------------------------------------------------------------------
(***************************************************************************)
(* Statistics.  First what a command does to the sequence of its device,   *)
(* as three facts about sequences; then the two properties.                *)
(***************************************************************************)
Entries == [phase : Phases, firstTimeStamp : TimeStamps, deviation : Deviation]

(* new is old with the deviation of its last entry replaced. *)
Continued(old, new) ==
    /\ Len(new) = Len(old) /\ Len(old) > 0
    /\ \A i \in 1 .. Len(old) - 1 : new[i] = old[i]
    /\ new[Len(old)].phase = old[Len(old)].phase
    /\ new[Len(old)].firstTimeStamp = old[Len(old)].firstTimeStamp

(* new is old with one entry for phase, opened at time t. *)
Opened(old, new, phase, t) ==
    /\ Len(new) = Len(old) + 1
    /\ \A i \in 1 .. Len(old) : new[i] = old[i]
    /\ new[Len(old) + 1].phase = phase
    /\ new[Len(old) + 1].firstTimeStamp = t
    /\ Len(old) > 0 => old[Len(old)].phase # phase

LEMMA ContinueStatsEffect ==
  ASSUME TypeOK, NEW d \in Devices, NEW phase \in Phases, NEW diff \in Int,
         ContinueStats(d, phase, diff)
  PROVE  /\ Continued(deviationStats[d], deviationStats'[d])
         /\ deviationStats'[d][Len(deviationStats[d])].deviation
              = AddDiff(squareDiffs[d], diff)
         /\ \A e \in Devices \ {d} : deviationStats'[e] = deviationStats[e]
<1> DEFINE old == deviationStats[d]
           last == [old[Len(old)] EXCEPT !.deviation = AddDiff(squareDiffs[d], diff)]
<1>1. old \in Seq(Entries) /\ old # <<>>
  BY DEF TypeOK, ContinueStats, StatsContinue, Entries
<1>2. deviationStats' = [deviationStats EXCEPT ![d] = [old EXCEPT ![Len(old)] = last]]
  BY DEF ContinueStats
<1>3. /\ deviationStats'[d] = [old EXCEPT ![Len(old)] = last]
      /\ \A e \in Devices \ {d} : deviationStats'[e] = deviationStats[e]
  <2> HIDE DEF last, old
  <2> QED BY <1>2 DEF TypeOK
<1>4. Len(old) \in 1 .. Len(old) /\ old[Len(old)] \in Entries
  <2> HIDE DEF old
  <2> QED BY <1>1, LastElement
<1>5. /\ last.phase = old[Len(old)].phase
      /\ last.firstTimeStamp = old[Len(old)].firstTimeStamp
      /\ last.deviation = AddDiff(squareDiffs[d], diff)
  BY <1>4 DEF Entries
<1> HIDE DEF last, old
<1>6. Continued(old, [old EXCEPT ![Len(old)] = last])
      /\ [old EXCEPT ![Len(old)] = last][Len(old)] = last
  BY <1>1, <1>4, <1>5 DEF Continued
<1> QED BY <1>3, <1>5, <1>6 DEF old

LEMMA OpenStatsEffect ==
  ASSUME TypeOK, NEW d \in Devices, NEW t \in TimeStamps,
         NEW phase \in Phases, NEW diff \in Int, OpenStats(d, phase, t, diff)
  PROVE  /\ Opened(deviationStats[d], deviationStats'[d], phase, t)
         /\ \A e \in Devices \ {d} : deviationStats'[e] = deviationStats[e]
<1> DEFINE old == deviationStats[d]
           new == [phase |-> phase, firstTimeStamp |-> t,
                   deviation |-> AddDiff(NoDiffs, diff)]
<1>1. old \in Seq(Entries)
  BY DEF TypeOK, Entries
<1>2. old # <<>> => old[Len(old)].phase # phase
  BY DEF OpenStats, StatsContinue
<1>3. deviationStats' = [deviationStats EXCEPT ![d] = Append(old, new)]
  BY DEF OpenStats
<1>4. new.phase = phase /\ new.firstTimeStamp = t /\ new \in Entries
  BY AddDiffType, NoDiffsType DEF Entries
<1> HIDE DEF new, old
<1>5. /\ deviationStats'[d] = Append(old, new)
      /\ \A e \in Devices \ {d} : deviationStats'[e] = deviationStats[e]
  BY <1>3 DEF TypeOK
<1>6. Opened(old, Append(old, new), phase, t)
  <2>1. /\ Len(Append(old, new)) = Len(old) + 1
        /\ \A i \in 1 .. Len(old) : Append(old, new)[i] = old[i]
        /\ Append(old, new)[Len(old) + 1] = new
    BY <1>1, <1>4, AppendProperties
  <2>2. Len(old) > 0 => old # <<>>
    BY <1>1, EmptySeq
  <2> QED BY <1>2, <1>4, <2>1, <2>2 DEF Opened
<1> QED BY <1>5, <1>6 DEF old

(* What any step does to the statistics and the last time stamp of e. *)
LEMMA StatsStep ==
  ASSUME TypeOK, [Next]_vars, NEW e \in Devices
  PROVE  \/ /\ deviationStats'[e] = deviationStats[e]
            /\ squareDiffs'[e] = squareDiffs[e]
            /\ lastTimeStamp'[e] = lastTimeStamp[e]
         \/ \E t \in TimeStamps :
              /\ AcceptTimeStamp(e, t)
              /\ lastTimeStamp'[e] = t
              /\ \/ /\ deviationStats'[e] = deviationStats[e]
                    /\ squareDiffs'[e] = squareDiffs[e]
                 \/ \E phase \in Phases, diff \in Int :
                      /\ phase.timeStamp <= t
                      /\ ContinueStats(e, phase, diff) \/ OpenStats(e, phase, t, diff)
<1> DEFINE Same == /\ deviationStats'[e] = deviationStats[e]
                   /\ squareDiffs'[e] = squareDiffs[e]
           Kept == lastTimeStamp'[e] = lastTimeStamp[e]
<1>1. CASE UNCHANGED vars
  BY <1>1 DEF vars
<1>2. ASSUME NEW d \in Devices, NEW s \in Schedules, SetSchedule(d, s)
      PROVE  Same /\ Kept
  BY <1>2 DEF SetSchedule
<1>3. ASSUME NEW d \in Devices, NEW t \in TimeStamps, NEW m \in Meterages,
             ProcessMeterage(d, t, m), ~(Same /\ Kept)
      PROVE  /\ AcceptTimeStamp(e, t)
             /\ lastTimeStamp'[e] = t
             /\ \/ Same
                \/ \E phase \in Phases, diff \in Int :
                     /\ phase.timeStamp <= t
                     /\ ContinueStats(e, phase, diff) \/ OpenStats(e, phase, t, diff)
  <2>1. ~AnswerObsolete(d, t, m)
    BY <1>3 DEF AnswerObsolete
  <2>2. AcceptTimeStamp(d, t)
    BY <1>3, <2>1
       DEF ProcessMeterage, AnswerNoSchedule, AnswerNoTimestamp, AnswerCommand
  <2>3. lastTimeStamp'[d] = t /\ (e # d => Kept)
    BY <2>2 DEF AcceptTimeStamp, TypeOK
  <2>4. CASE AnswerNoSchedule(d, t, m) \/ AnswerNoTimestamp(d, t, m)
    <3>1. Same
      BY <2>4 DEF AnswerNoSchedule, AnswerNoTimestamp
    <3> QED BY <1>3, <2>2, <2>3, <3>1
  <2>5. CASE AnswerCommand(d, t, m)
    <3>1. PICK k \in 1 .. Len(phases[d]) :
                 /\ phases[d][k].timeStamp <= t
                 /\ \/ ContinueStats(d, phases[d][k], phases[d][k].value - m)
                    \/ OpenStats(d, phases[d][k], t, phases[d][k].value - m)
      BY <2>5 DEF AnswerCommand
    <3>2. phases[d] \in Seq(Phases)
      BY DEF TypeOK
    <3>3. phases[d][k] \in Phases /\ phases[d][k].value \in 0 .. 255
      BY <3>2, PlanElements
    <3>4. \A a, b \in 0 .. 255 : a - b \in Int
      OBVIOUS
    <3>5. phases[d][k].value - m \in Int
      BY <3>3, <3>4 DEF Byte
    <3>6. e # d => Same
      <4>1. e # d => deviationStats'[e] = deviationStats[e]
        BY <3>1, <3>3, <3>5, ContinueStatsEffect, OpenStatsEffect
      <4>2. e # d => squareDiffs'[e] = squareDiffs[e]
        BY <3>1 DEF ContinueStats, OpenStats, TypeOK
      <4> QED BY <4>1, <4>2
    <3>7. e = d
      BY <1>3, <2>3, <3>6
    <3> QED BY <2>2, <2>3, <3>1, <3>3, <3>5, <3>7
  <2> QED BY <1>3, <2>1, <2>4, <2>5 DEF ProcessMeterage
<1> QED BY <1>1, <1>2, <1>3 DEF Next

LEMMA InitStatsOrdered == Init => StatsOrdered
<1> SUFFICES ASSUME Init, NEW d \in Devices PROVE Len(deviationStats[d]) = 0
  BY DEF StatsOrdered
<1> QED BY DEF Init

LEMMA NextStatsOrdered == TypeOK /\ StatsOrdered /\ [Next]_vars => StatsOrdered'
<1> SUFFICES ASSUME TypeOK, StatsOrdered, [Next]_vars, NEW d \in Devices,
                    NEW i \in 1 .. Len(deviationStats'[d])
             PROVE  LET stats == deviationStats'[d]
                    IN  /\ stats[i].phase.timeStamp <= stats[i].firstTimeStamp
                        /\ lastTimeStamp'[d] # None
                        /\ stats[i].firstTimeStamp <= lastTimeStamp'[d]
                        /\ i > 1 => /\ stats[i - 1].phase # stats[i].phase
                                   /\ stats[i - 1].firstTimeStamp
                                        < stats[i].firstTimeStamp
  BY DEF StatsOrdered
<1> DEFINE old == deviationStats[d]
           new == deviationStats'[d]
<1>1. old \in Seq(Entries)
  BY DEF TypeOK, Entries
<1>2. \A j \in 1 .. Len(old) : old[j].firstTimeStamp \in Nat
  <2>1. \A j \in 1 .. Len(old) : old[j] \in Entries
    BY <1>1
  <2> QED BY <2>1 DEF Entries
<1>3. \A j \in 1 .. Len(old) :
         /\ old[j].phase.timeStamp <= old[j].firstTimeStamp
         /\ lastTimeStamp[d] # None
         /\ old[j].firstTimeStamp <= lastTimeStamp[d]
         /\ j > 1 => /\ old[j - 1].phase # old[j].phase
                    /\ old[j - 1].firstTimeStamp < old[j].firstTimeStamp
  BY DEF StatsOrdered
<1>4. CASE new = old /\ lastTimeStamp'[d] = lastTimeStamp[d]
  BY <1>3, <1>4
<1>5. ASSUME NEW t \in TimeStamps, AcceptTimeStamp(d, t), lastTimeStamp'[d] = t
      PROVE  /\ lastTimeStamp'[d] \in Nat /\ lastTimeStamp'[d] # None
             /\ \A j \in 1 .. Len(old) : old[j].firstTimeStamp < t
  <2>1. lastTimeStamp[d] # None =>
          lastTimeStamp[d] \in Nat /\ ~(lastTimeStamp[d] >= t)
    BY <1>5 DEF AcceptTimeStamp, IsObsolete, TypeOK
  <2>2. t \in Nat /\ t # None
    OBVIOUS
  <2>3. ASSUME NEW j \in 1 .. Len(old) PROVE old[j].firstTimeStamp < t
    <3> HIDE DEF old, new
    <3> QED BY <1>2, <1>3, <2>1, <2>2
  <2> QED BY <1>5, <2>2, <2>3
<1>6. ASSUME NEW t \in TimeStamps, AcceptTimeStamp(d, t), lastTimeStamp'[d] = t,
             new = old
      PROVE  /\ new[i].phase.timeStamp <= new[i].firstTimeStamp
             /\ lastTimeStamp'[d] # None
             /\ new[i].firstTimeStamp <= lastTimeStamp'[d]
             /\ i > 1 => /\ new[i - 1].phase # new[i].phase
                        /\ new[i - 1].firstTimeStamp < new[i].firstTimeStamp
  BY <1>2, <1>3, <1>5, <1>6
<1>7. ASSUME NEW t \in TimeStamps, AcceptTimeStamp(d, t), lastTimeStamp'[d] = t,
             Continued(old, new)
      PROVE  /\ new[i].phase.timeStamp <= new[i].firstTimeStamp
             /\ lastTimeStamp'[d] # None
             /\ new[i].firstTimeStamp <= lastTimeStamp'[d]
             /\ i > 1 => /\ new[i - 1].phase # new[i].phase
                        /\ new[i - 1].firstTimeStamp < new[i].firstTimeStamp
  <2>1. \A j \in 1 .. Len(old) : /\ new[j].phase = old[j].phase
                                /\ new[j].firstTimeStamp = old[j].firstTimeStamp
    BY <1>1, <1>7 DEF Continued
  <2>2. i \in 1 .. Len(old) /\ (i > 1 => i - 1 \in 1 .. Len(old))
    BY <1>1, <1>7 DEF Continued
  <2> HIDE DEF old, new
  <2> QED BY <1>2, <1>3, <1>5, <1>7, <2>1, <2>2
<1>8. ASSUME NEW t \in TimeStamps, AcceptTimeStamp(d, t), lastTimeStamp'[d] = t,
             NEW phase \in Phases, phase.timeStamp <= t, Opened(old, new, phase, t)
      PROVE  /\ new[i].phase.timeStamp <= new[i].firstTimeStamp
             /\ lastTimeStamp'[d] # None
             /\ new[i].firstTimeStamp <= lastTimeStamp'[d]
             /\ i > 1 => /\ new[i - 1].phase # new[i].phase
                        /\ new[i - 1].firstTimeStamp < new[i].firstTimeStamp
  <2>1. Len(old) \in Nat /\ i \in 1 .. (Len(old) + 1)
    BY <1>1, <1>8 DEF Opened
  <2> HIDE DEF old, new
  <2>2. CASE i \in 1 .. Len(old)
    <3>1. i > 1 => i - 1 \in 1 .. Len(old)
      BY <2>1, <2>2
    <3>2. new[i] = old[i] /\ (i > 1 => new[i - 1] = old[i - 1])
      BY <1>8, <2>2, <3>1 DEF Opened
    <3> QED BY <1>2, <1>3, <1>5, <1>8, <2>2, <3>1, <3>2
  <2>3. CASE i = Len(old) + 1
    <3>1. i > 1 => /\ Len(old) \in 1 .. Len(old) /\ i - 1 = Len(old)
                   /\ new[i - 1] = old[i - 1] /\ old[i - 1].phase # phase
      BY <1>8, <2>1, <2>3 DEF Opened
    <3>2. new[i].phase = phase /\ new[i].firstTimeStamp = t /\ t \in Nat
      BY <1>8, <2>3 DEF Opened
    <3> QED BY <1>2, <1>3, <1>5, <1>8, <3>1, <3>2
  <2> QED BY <2>1, <2>2, <2>3
<1> QED
  <2> HIDE DEF old, new
  <2>1. ASSUME NEW phase \in Phases, NEW diff \in Int, ContinueStats(d, phase, diff)
        PROVE  Continued(old, new)
    BY <2>1, ContinueStatsEffect DEF old, new
  <2>2. ASSUME NEW t \in TimeStamps, NEW phase \in Phases, NEW diff \in Int,
               OpenStats(d, phase, t, diff)
        PROVE  Opened(old, new, phase, t)
    BY <2>2, OpenStatsEffect DEF old, new
  <2> QED BY <1>4, <1>6, <1>7, <1>8, <2>1, <2>2, StatsStep DEF old, new

(* In every reachable state the statistics are a chronicle: their entries   *)
(* follow each other in time and in phase.                                  *)
THEOREM StatsAreChronicle == Spec => []StatsOrdered
<1>1. Init => TypeOK /\ StatsOrdered
  BY InitTypeOK, InitStatsOrdered
<1>2. TypeOK /\ StatsOrdered /\ [Next]_vars => (TypeOK /\ StatsOrdered)'
  BY NextTypeOK, NextStatsOrdered
<1> QED BY <1>1, <1>2, PTL DEF Spec
-----------------------------------------------------------------------------
(* The buffer always belongs to the last entry. *)

LEMMA InitBufferOfLastEntry == Init => BufferOfLastEntry
<1> SUFFICES ASSUME Init, NEW d \in Devices
             PROVE  /\ deviationStats[d] = <<>>
                    /\ \A i \in 1 .. Len(deviationStats[d]) :
                         deviationStats[d][i].deviation.count > 0
  BY DEF BufferOfLastEntry
<1> QED BY DEF Init

LEMMA NextBufferOfLastEntry ==
  TypeOK /\ BufferOfLastEntry /\ [Next]_vars => BufferOfLastEntry'
<1> SUFFICES ASSUME TypeOK, BufferOfLastEntry, [Next]_vars, NEW d \in Devices
             PROVE  LET stats == deviationStats'[d]
                    IN  /\ stats # <<>> =>
                             stats[Len(stats)].deviation = squareDiffs'[d]
                        /\ \A i \in 1 .. Len(stats) : stats[i].deviation.count > 0
  BY DEF BufferOfLastEntry
<1> DEFINE old == deviationStats[d]
           new == deviationStats'[d]
<1>1. /\ old \in Seq(Entries)
      /\ \A i \in 1 .. Len(old) : old[i].deviation.count > 0
      /\ squareDiffs[d] \in Deviation
  BY DEF TypeOK, Entries, BufferOfLastEntry
<1>2. CASE new = old /\ squareDiffs'[d] = squareDiffs[d]
  BY <1>2 DEF BufferOfLastEntry
<1>3. ASSUME NEW diffs \in Deviation, NEW n \in Int
      PROVE  AddDiff(diffs, n).count > 0
  <2>1. diffs.count \in Nat
    BY DEF Deviation
  <2>2. AddDiff(diffs, n).count = diffs.count + 1
    BY DEF AddDiff
  <2> QED BY <2>1, <2>2
<1>4. ASSUME NEW phase \in Phases, NEW diff \in Int, ContinueStats(d, phase, diff)
      PROVE  /\ new[Len(new)].deviation = squareDiffs'[d]
             /\ \A i \in 1 .. Len(new) : new[i].deviation.count > 0
  <2>1. /\ Continued(old, new)
        /\ new[Len(old)].deviation = AddDiff(squareDiffs[d], diff)
    BY <1>4, ContinueStatsEffect
  <2>2. squareDiffs'[d] = AddDiff(squareDiffs[d], diff)
    BY <1>4 DEF ContinueStats, TypeOK
  <2>3. AddDiff(squareDiffs[d], diff).count > 0
    BY <1>1, <1>3
  <2> HIDE DEF old, new
  <2>4. \A i \in 1 .. Len(new) : new[i] = old[i] \/ i = Len(old)
    BY <1>1, <2>1 DEF Continued
  <2> QED BY <1>1, <2>1, <2>2, <2>3, <2>4 DEF Continued
<1>5. ASSUME NEW t \in TimeStamps, NEW phase \in Phases, NEW diff \in Int,
             OpenStats(d, phase, t, diff)
      PROVE  /\ new[Len(new)].deviation = squareDiffs'[d]
             /\ \A i \in 1 .. Len(new) : new[i].deviation.count > 0
  <2>1. Opened(old, new, phase, t)
    BY <1>5, OpenStatsEffect
  <2> DEFINE added == [phase |-> phase, firstTimeStamp |-> t,
                       deviation |-> AddDiff(NoDiffs, diff)]
  <2>2. new = Append(old, added) /\ squareDiffs'[d] = AddDiff(NoDiffs, diff)
    BY <1>5 DEF OpenStats, TypeOK
  <2>3. AddDiff(NoDiffs, diff).count > 0
    BY <1>3, NoDiffsType
  <2>4. added.deviation = AddDiff(NoDiffs, diff) /\ added \in Entries
    BY <1>5, AddDiffType, NoDiffsType DEF Entries
  <2> HIDE DEF old, new, added
  <2>5. new[Len(old) + 1] = added
    BY <1>1, <2>2, <2>4, AppendProperties
  <2>6. Len(old) \in Nat /\ Len(new) = Len(old) + 1
    BY <1>1, <2>1 DEF Opened
  <2>7. ASSUME NEW i \in 1 .. Len(new) PROVE new[i].deviation.count > 0
    <3>1. CASE i \in 1 .. Len(old)
      BY <1>1, <2>1, <3>1 DEF Opened
    <3>2. CASE i = Len(old) + 1
      BY <2>3, <2>4, <2>5, <3>2
    <3> QED BY <2>6, <3>1, <3>2
  <2> QED BY <2>2, <2>4, <2>5, <2>6, <2>7
<1> HIDE DEF old, new
<1> QED BY <1>2, <1>4, <1>5, StatsStep DEF old, new, BufferOfLastEntry

(* The shared buffer holds the differences of the last entry only, and no   *)
(* entry is empty.                                                          *)
THEOREM BufferBelongsToLastEntry == Spec => []BufferOfLastEntry
<1>1. TypeOK /\ BufferOfLastEntry /\ [Next]_vars => (TypeOK /\ BufferOfLastEntry)'
  BY NextTypeOK, NextBufferOfLastEntry
<1> QED BY <1>1, InitTypeOK, InitBufferOfLastEntry, PTL DEF Spec

LEMMA NextStatsOnlyGrow ==
  ASSUME TypeOK, BufferOfLastEntry, [Next]_vars, NEW d \in Devices
  PROVE  GrownFrom(deviationStats[d], deviationStats'[d])
<1> DEFINE old == deviationStats[d]
           new == deviationStats'[d]
<1>1. ASSUME NEW phase \in Phases, NEW diff \in Int, ContinueStats(d, phase, diff)
      PROVE  /\ Continued(old, new)
             /\ new[Len(old)].deviation.count = old[Len(old)].deviation.count + 1
  <2>1. /\ Continued(old, new)
        /\ new[Len(old)].deviation = AddDiff(squareDiffs[d], diff)
    BY <1>1, ContinueStatsEffect
  <2>2. old # <<>> /\ squareDiffs[d] \in Deviation
    BY <1>1 DEF ContinueStats, StatsContinue, TypeOK
  <2>3. old[Len(old)].deviation = squareDiffs[d]
    BY <2>2 DEF BufferOfLastEntry
  <2> QED BY <2>1, <2>2, <2>3, AddDiffType
<1>2. ASSUME NEW t \in TimeStamps, NEW phase \in Phases, NEW diff \in Int,
             OpenStats(d, phase, t, diff)
      PROVE  Opened(old, new, phase, t)
  BY <1>2, OpenStatsEffect
<1> HIDE DEF old, new
<1> QED BY <1>1, <1>2, StatsStep
    DEF old, new, Continued, Opened, GrownFrom

(* No step takes back or rewrites what the statistics already say, but for  *)
(* the deviation of the last entry, which counts one more meterage.         *)
THEOREM StatsNeverRewritten == Spec => StatsOnlyGrow
<1>1. Init => TypeOK /\ BufferOfLastEntry
  BY InitTypeOK, InitBufferOfLastEntry
<1>2. TypeOK /\ BufferOfLastEntry /\ [Next]_vars => (TypeOK /\ BufferOfLastEntry)'
  BY NextTypeOK, NextBufferOfLastEntry
<1>3. TypeOK /\ BufferOfLastEntry /\ [Next]_vars
        => [\A d \in Devices : GrownFrom(deviationStats[d], deviationStats'[d])]_vars
  BY NextStatsOnlyGrow
<1> QED BY <1>1, <1>2, <1>3, PTL DEF Spec, StatsOnlyGrow
=============================================================================
