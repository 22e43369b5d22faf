---------------------- MODULE CommandCenterHistoryProofs ----------------------
(***************************************************************************)
(* CommandCenter, seen through its journal, implements MonitoringPolicy,   *)
(* and its statistics are those of the whole journal: for every set of     *)
(* devices, times, values and plans.                                       *)
(***************************************************************************)
EXTENDS CommandCenterHistory, CommandCenterProofs, FiniteSetTheorems,
        WellFoundedInduction

USE TimeStampsAssumption, PlanValuesAssumption, MeteragesAssumption,
    NoneAssumption, SchedulesAssumption

Accepted == [timeStamp : TimeStamps, meterage : Meterages,
             phase : Phases \cup {None}]

(* The last time stamp is all the code keeps of the past, and it decides   *)
(* obsolescence as the whole journal would.                                *)
JournalInv ==
    /\ journal \in [Devices -> Seq(Accepted)]
    /\ \A d \in Devices, t \in TimeStamps :
          IsObsolete(d, t) <=>
              \E i \in DOMAIN journal[d] : journal[d][i].timeStamp >= t

HistoryInv == TypeOK /\ CursorInv /\ JournalInv

-----------------------------------------------------------------------------
LEMMA InitJournalInv == HistoryInit => JournalInv
<1> SUFFICES ASSUME HistoryInit PROVE JournalInv
  OBVIOUS
<1>1. journal \in [Devices -> Seq(Accepted)]
  BY DEF HistoryInit
<1>2. ASSUME NEW d \in Devices
      PROVE  lastTimeStamp[d] = None /\ journal[d] = <<>>
  BY DEF HistoryInit, Init
<1> QED BY <1>1, <1>2 DEF JournalInv, IsObsolete

(* A history step is a step of the command centre. *)
LEMMA HistoryStepIsStep == [HistoryNext]_historyVars => [Next]_vars
  BY DEF HistoryNext, HistoryProcess, Next, ProcessMeterage, historyVars, vars

LEMMA RecordJournalInv ==
  ASSUME TypeOK, JournalInv, NEW d \in Devices, NEW t \in TimeStamps,
         NEW m \in Meterages, NEW phase \in Phases \cup {None},
         AcceptTimeStamp(d, t), Record(d, t, m, phase)
  PROVE  JournalInv'
<1> DEFINE entry == [timeStamp |-> t, meterage |-> m, phase |-> phase]
           log == journal[d]
<1>1. entry \in Accepted /\ entry.timeStamp = t
  BY DEF Accepted
<1>2. log \in Seq(Accepted)
  BY DEF JournalInv
<1>3. journal' = [journal EXCEPT ![d] = Append(log, entry)]
  BY DEF Record
<1> HIDE DEF entry
<1>4. Append(log, entry) \in Seq(Accepted)
  BY <1>1, <1>2, AppendProperties
<1>5. journal' \in [Devices -> Seq(Accepted)]
  BY <1>3, <1>4 DEF JournalInv
<1>6. lastTimeStamp' = [lastTimeStamp EXCEPT ![d] = t]
  BY DEF AcceptTimeStamp
<1>7. ASSUME NEW e \in Devices, NEW u \in TimeStamps
      PROVE  IsObsolete(e, u)' <=>
               \E i \in DOMAIN journal'[e] : journal'[e][i].timeStamp >= u
  <2>1. CASE e # d
    <3>1. journal'[e] = journal[e] /\ lastTimeStamp'[e] = lastTimeStamp[e]
      BY <1>3, <1>6, <2>1 DEF JournalInv, TypeOK
    <3>2. IsObsolete(e, u)' <=> IsObsolete(e, u)
      BY <3>1 DEF IsObsolete
    <3> QED BY <3>1, <3>2 DEF JournalInv
  <2>2. CASE e = d
    <3>1. journal'[e] = Append(log, entry) /\ lastTimeStamp'[e] = t
      BY <1>3, <1>6, <2>2 DEF JournalInv, TypeOK
    <3>2. IsObsolete(e, u)' <=> t >= u
      <4>1. lastTimeStamp'[e] = t /\ t # None
        BY <3>1
      <4> QED BY <4>1, Zenon DEF IsObsolete
    <3>3. /\ Len(log) \in Nat
          /\ DOMAIN log = 1 .. Len(log)
          /\ DOMAIN Append(log, entry) = 1 .. (Len(log) + 1)
          /\ \A i \in 1 .. Len(log) : Append(log, entry)[i] = log[i]
          /\ Append(log, entry)[Len(log) + 1] = entry
      BY <1>1, <1>2, AppendProperties, LenProperties
    <3>4. (\E i \in DOMAIN Append(log, entry) : Append(log, entry)[i].timeStamp >= u)
            <=> \/ \E i \in DOMAIN log : log[i].timeStamp >= u
                \/ t >= u
      <4> HIDE DEF log
      <4> QED BY <1>1, <3>3
    <3>5. (\E i \in DOMAIN log : log[i].timeStamp >= u) <=> IsObsolete(d, u)
      BY DEF JournalInv
    <3>6. IsObsolete(d, u) => t >= u
      <4> SUFFICES ASSUME lastTimeStamp[d] # None, lastTimeStamp[d] >= u
                   PROVE  t >= u
        BY DEF IsObsolete
      <4>1. lastTimeStamp[d] \in Nat /\ t \in Nat /\ u \in Nat
        BY DEF TypeOK
      <4>2. ~(lastTimeStamp[d] >= t)
        BY DEF IsObsolete, AcceptTimeStamp
      <4> QED BY <4>1, <4>2
    <3> QED BY <3>1, <3>2, <3>4, <3>5, <3>6
  <2> QED BY <2>1, <2>2
<1> QED BY <1>5, <1>7 DEF JournalInv

LEMMA UnchangedJournalInv ==
  ASSUME JournalInv, journal' = journal, lastTimeStamp' = lastTimeStamp
  PROVE  JournalInv'
  BY DEF JournalInv, IsObsolete

LEMMA NextJournalInv ==
  TypeOK /\ JournalInv /\ [HistoryNext]_historyVars => JournalInv'
<1> SUFFICES ASSUME TypeOK, JournalInv, [HistoryNext]_historyVars
             PROVE  JournalInv'
  OBVIOUS
<1>1. CASE UNCHANGED historyVars
  BY <1>1, UnchangedJournalInv DEF historyVars
<1>2. ASSUME NEW d \in Devices, NEW s \in Schedules,
             SetSchedule(d, s), UNCHANGED journal
      PROVE  JournalInv'
  BY <1>2, UnchangedJournalInv DEF SetSchedule
<1>3. ASSUME NEW d \in Devices, NEW t \in TimeStamps, NEW m \in Meterages,
             HistoryProcess(d, t, m)
      PROVE  JournalInv'
  <2>1. CASE AnswerObsolete(d, t, m) /\ UNCHANGED journal
    BY <2>1, UnchangedJournalInv DEF AnswerObsolete
  <2>2. CASE /\ AnswerNoSchedule(d, t, m) \/ AnswerNoTimestamp(d, t, m)
             /\ Record(d, t, m, None)
    BY <2>2, RecordJournalInv DEF AnswerNoSchedule, AnswerNoTimestamp
  <2>3. CASE /\ AnswerCommand(d, t, m)
             /\ Record(d, t, m, phases[d][currentPhaseIndex'[d]])
    <3>1. PICK k \in 1 .. Len(phases[d]) : AdvanceTo(d, t, k)
      BY <2>3 DEF AnswerCommand
    <3>2. currentPhaseIndex'[d] = k /\ phases[d] \in Seq(Phases)
      BY <3>1 DEF AdvanceTo, TypeOK
    <3>3. phases[d][k] \in Phases
      BY <3>2, PlanElements
    <3> QED BY <2>3, <3>2, <3>3, RecordJournalInv DEF AnswerCommand
  <2> QED BY <1>3, <2>1, <2>2, <2>3 DEF HistoryProcess
<1> QED BY <1>1, <1>2, <1>3 DEF HistoryNext

LEMMA HistoryInvariant == HistorySpec => []HistoryInv
<1>1. HistoryInit => HistoryInv
  BY InitTypeOK, InitCursorInv, InitJournalInv DEF HistoryInit, HistoryInv
<1>2. HistoryInv /\ [HistoryNext]_historyVars => HistoryInv'
  BY HistoryStepIsStep, NextTypeOK, NextCursorInv, NextJournalInv DEF HistoryInv
<1> QED BY <1>1, <1>2, PTL DEF HistorySpec
-----------------------------------------------------------------------------
(***************************************************************************)
(* The refinement: initial states map to initial states, and every step    *)
(* maps to a step of the policy or leaves its variables unchanged.         *)
(***************************************************************************)
LEMMA SameRange == \A f : Policy!Range(f) = Range(f)
  BY DEF Policy!Range, Range

LEMMA PlanOf ==
  ASSUME TypeOK, NEW d \in Devices
  PROVE  /\ Range(phases[d]) = {phases[d][i] : i \in 1 .. Len(phases[d])}
         /\ Range(phases[d]) = {} <=> phases[d] = <<>>
<1>1. phases[d] \in Seq(Phases)
  BY DEF TypeOK
<1>2. DOMAIN phases[d] = 1 .. Len(phases[d]) /\ Len(phases[d]) \in Nat
  BY <1>1
<1>3. Len(phases[d]) = 0 <=> phases[d] = <<>>
  BY <1>1, EmptySeq
<1>4. phases[d] # <<>> => 1 \in 1 .. Len(phases[d])
  BY <1>2, <1>3
<1>5. Range(phases[d]) = {phases[d][i] : i \in 1 .. Len(phases[d])}
  BY <1>2 DEF Range
<1>6. phases[d] = <<>> => 1 .. Len(phases[d]) = {}
  BY <1>2, <1>3
<1> QED BY <1>4, <1>5, <1>6

LEMMA PlanMember ==
  ASSUME TypeOK, NEW d \in Devices, NEW p \in Range(phases[d])
  PROVE  \E j \in 1 .. Len(phases[d]) : p = phases[d][j]
<1>1. p \in {phases[d][i] : i \in 1 .. Len(phases[d])}
  BY PlanOf
<1> QED BY <1>1

LEMMA OutdatedIsObsolete ==
  ASSUME JournalInv, NEW d \in Devices, NEW t \in TimeStamps
  PROVE  Policy!Outdated(d, t) <=> IsObsolete(d, t)
  BY DEF Policy!Outdated, JournalInv

LEMMA SameAnswers ==
  ASSUME NEW d, NEW t, NEW m, NEW n, NEW e
  PROVE  /\ Policy!Answer(d, t, m, Policy!MessageError(e))
              = Answer(d, t, m, MessageError(e))
         /\ Policy!Answer(d, t, m, Policy!MessageCommand(n))
              = Answer(d, t, m, MessageCommand(n))
  BY DEF Policy!Answer, Answer, Policy!MessageMeterage, MessageMeterage,
         Policy!MessageError, MessageError, Policy!MessageCommand,
         MessageCommand, Policy!Int8, Int8

LEMMA RecordIsAccept ==
  ASSUME NEW d, NEW t, NEW m, NEW phase, Record(d, t, m, phase)
  PROVE  Policy!Accept(d, t, m, phase)
  BY DEF Record, Policy!Accept

LEMMA InitRefines == HistoryInit => Policy!Init
<1> SUFFICES ASSUME HistoryInit PROVE Policy!Init
  OBVIOUS
<1>1. ASSUME NEW d \in Devices PROVE Range(phases[d]) = {}
  BY DEF HistoryInit, Init, Range
<1> QED BY <1>1, SameRange DEF HistoryInit, Init, Policy!Init

LEMMA AssignRefines ==
  ASSUME TypeOK, NEW d \in Devices, NEW s \in Schedules,
         SetSchedule(d, s), UNCHANGED journal
  PROVE  Policy!Assign(d, Policy!Range(s))
<1>1. PICK r \in Sorted(s) : phases' = [phases EXCEPT ![d] = r]
  BY DEF SetSchedule
<1>2. Range(r) = Range(s)
  BY SortedPlan
<1>3. [e \in Devices |-> Range(phases'[e])]
        = [[e \in Devices |-> Range(phases[e])] EXCEPT ![d] = Range(s)]
  BY <1>1, <1>2 DEF TypeOK
<1> QED BY <1>3, SameRange DEF Policy!Assign, SetSchedule

(* The phases a stopped loop splits the plan into are those that have       *)
(* started and those that have not.                                         *)
LEMMA StoppedLoop ==
  ASSUME TypeOK, CursorInv, NEW d \in Devices, NEW t \in TimeStamps,
         NEW k \in 1 .. Len(phases[d]), AcceptTimeStamp(d, t), AdvanceTo(d, t, k)
  PROVE  /\ phases[d][k] \in Phases
         /\ phases[d][k].timeStamp > t =>
               \A j \in 1 .. Len(phases[d]) : phases[d][j].timeStamp > t
         /\ \A j \in 1 .. Len(phases[d]) :
               phases[d][j].timeStamp <= t =>
                   phases[d][j].timeStamp <= phases[d][k].timeStamp
<1> DEFINE s == phases[d]
           from == currentPhaseIndex[d]
<1>1. /\ s \in Seq(Phases) /\ SortedByTime(s) /\ from \in Nat \ {0}
      /\ LoopStopsAt(s, from, t, k) /\ k \in 1 .. Len(s)
  BY DEF TypeOK, CursorInv, AdvanceTo
<1>2. k > 1 => s[k].timeStamp <= t
  BY AdvanceToCursor
<1> HIDE DEF s, from
<1>3. from \in 1 .. Len(s)
  BY <1>1 DEF LoopStopsAt
<1>4. /\ \A j \in (k + 1) .. Len(s) : s[j].timeStamp > t
      /\ \A j \in 1 .. k : s[j].timeStamp <= s[k].timeStamp
  BY <1>1, <1>3, LoopSplitsPlan
<1>5. s[k] \in Phases /\ \A j \in 1 .. Len(s) : s[j].timeStamp \in Nat
  BY <1>1, PlanElements
<1>6. t \in Nat
  OBVIOUS
<1>7. ASSUME s[k].timeStamp > t, NEW j \in 1 .. Len(s)
      PROVE  s[j].timeStamp > t
  <2>1. k = 1
    BY <1>1, <1>2, <1>5, <1>6, <1>7
  <2>2. CASE j = 1
    BY <1>7, <2>1, <2>2
  <2>3. CASE j \in (k + 1) .. Len(s)
    BY <1>4, <2>3
  <2> QED BY <1>1, <2>1, <2>2, <2>3
<1>8. ASSUME NEW j \in 1 .. Len(s), s[j].timeStamp <= t
      PROVE  s[j].timeStamp <= s[k].timeStamp
  <2>1. j \in 1 .. k
    BY <1>1, <1>4, <1>5, <1>6, <1>8
  <2> QED BY <1>4, <2>1
<1> QED BY <1>5, <1>7, <1>8 DEF s

LEMMA ProcessRefines ==
  ASSUME HistoryInv, NEW d \in Devices, NEW t \in TimeStamps, NEW m \in Meterages,
         HistoryProcess(d, t, m)
  PROVE  \/ Policy!AnswerObsolete(d, t, m)
         \/ Policy!AnswerNoSchedule(d, t, m)
         \/ Policy!AnswerNoTimestamp(d, t, m)
         \/ Policy!AnswerCommand(d, t, m)
<1> USE DEF HistoryInv
<1> DEFINE plan == [e \in Devices |-> Range(phases[e])]
<1>1. CASE AnswerObsolete(d, t, m) /\ UNCHANGED journal
  BY <1>1, OutdatedIsObsolete, SameAnswers
     DEF AnswerObsolete, Policy!AnswerObsolete
<1>2. CASE AnswerNoSchedule(d, t, m) /\ Record(d, t, m, None)
  <2>1. ~Policy!Outdated(d, t)
    BY <1>2, OutdatedIsObsolete DEF AnswerNoSchedule, AcceptTimeStamp
  <2>2. Range(phases[d]) = {}
    BY <1>2, PlanOf DEF AnswerNoSchedule
  <2>3. Policy!Accept(d, t, m, None)
    BY <1>2, RecordIsAccept
  <2>4. answered' = Policy!Answer(d, t, m, Policy!MessageError("NoSchedule"))
    BY <1>2, SameAnswers DEF AnswerNoSchedule
  <2>5. phases' = phases
    BY <1>2 DEF AnswerNoSchedule
  <2> QED BY <2>1, <2>2, <2>3, <2>4, <2>5, SameRange DEF Policy!AnswerNoSchedule
<1>3. CASE AnswerNoTimestamp(d, t, m) /\ Record(d, t, m, None)
  <2>1. ~Policy!Outdated(d, t) /\ AcceptTimeStamp(d, t)
    BY <1>3, OutdatedIsObsolete DEF AnswerNoTimestamp, AcceptTimeStamp
  <2>2. PICK k \in 1 .. Len(phases[d]) :
               AdvanceTo(d, t, k) /\ phases[d][k].timeStamp > t
    BY <1>3 DEF AnswerNoTimestamp
  <2>3. phases[d] # <<>> /\ phases' = phases
    BY <2>2 DEF AdvanceTo
  <2>4. Range(phases[d]) # {}
    BY <2>3, PlanOf
  <2>5. ASSUME NEW p \in Range(phases[d]) PROVE p.timeStamp > t
    <3>1. PICK j \in 1 .. Len(phases[d]) : p = phases[d][j]
      BY PlanMember
    <3>2. \A i \in 1 .. Len(phases[d]) : phases[d][i].timeStamp > t
      BY <2>1, <2>2, StoppedLoop
    <3> QED BY <3>1, <3>2
  <2>6. Policy!Accept(d, t, m, None)
    BY <1>3, RecordIsAccept
  <2>7. answered' = Policy!Answer(d, t, m, Policy!MessageError("NoTimestamp"))
    BY <1>3, SameAnswers DEF AnswerNoTimestamp
  <2> QED BY <2>1, <2>3, <2>4, <2>5, <2>6, <2>7, SameRange
          DEF Policy!AnswerNoTimestamp
<1>4. CASE /\ AnswerCommand(d, t, m)
           /\ Record(d, t, m, phases[d][currentPhaseIndex'[d]])
  <2>1. ~Policy!Outdated(d, t) /\ AcceptTimeStamp(d, t)
    BY <1>4, OutdatedIsObsolete DEF AnswerCommand, AcceptTimeStamp
  <2>2. PICK k \in 1 .. Len(phases[d]) :
               /\ AdvanceTo(d, t, k)
               /\ phases[d][k].timeStamp <= t
               /\ answered' = Answer(d, t, m, MessageCommand(phases[d][k].value - m))
    BY <1>4 DEF AnswerCommand
  <2> DEFINE p == phases[d][k]
  <2>3. phases' = phases /\ currentPhaseIndex'[d] = k
    BY <2>2 DEF AdvanceTo, TypeOK
  <2>4. p \in Policy!InForce(Range(phases[d]), t)
    <3>1. p \in Range(phases[d])
      <4>1. Range(phases[d]) = {phases[d][i] : i \in 1 .. Len(phases[d])}
        BY PlanOf
      <4> QED BY <4>1
    <3>2. ASSUME NEW q \in Range(phases[d]), q.timeStamp <= t
          PROVE  q.timeStamp <= p.timeStamp
      <4>1. PICK j \in 1 .. Len(phases[d]) : q = phases[d][j]
        BY PlanMember
      <4>2. phases[d][j].timeStamp <= t => phases[d][j].timeStamp <= p.timeStamp
        BY <2>1, <2>2, StoppedLoop
      <4> QED BY <3>2, <4>1, <4>2
    <3> QED BY <2>2, <3>1, <3>2 DEF Policy!InForce
  <2>5. Policy!Accept(d, t, m, p)
    BY <1>4, <2>3, RecordIsAccept
  <2>6. answered' = Policy!Answer(d, t, m, Policy!MessageCommand(p.value - m))
    BY <2>2, SameAnswers
  <2> HIDE DEF p
  <2> QED BY <2>1, <2>3, <2>4, <2>5, <2>6, SameRange DEF Policy!AnswerCommand
<1> QED BY <1>1, <1>2, <1>3, <1>4 DEF HistoryProcess

LEMMA NextRefines ==
  HistoryInv /\ [HistoryNext]_historyVars => [Policy!Next]_(Policy!policyVars)
<1> SUFFICES ASSUME HistoryInv, [HistoryNext]_historyVars
             PROVE  [Policy!Next]_(Policy!policyVars)
  OBVIOUS
<1>1. CASE UNCHANGED historyVars
  BY <1>1 DEF historyVars, Policy!policyVars
<1>2. ASSUME NEW d \in Devices, NEW s \in Schedules,
             SetSchedule(d, s), UNCHANGED journal
      PROVE  Policy!Next
  BY <1>2, AssignRefines DEF HistoryInv, Policy!Next
<1>3. ASSUME NEW d \in Devices, NEW t \in TimeStamps, NEW m \in Meterages,
             HistoryProcess(d, t, m)
      PROVE  Policy!Next
  BY <1>3, ProcessRefines DEF Policy!Next
<1> QED BY <1>1, <1>2, <1>3 DEF HistoryNext

(* The command centre answers every sequence of plans and meterages as the  *)
(* policy does: which error is sent when, and which phase is in force.      *)
THEOREM CommandCenterImplementsPolicy == HistorySpec => RefinesPolicy
  BY HistoryInvariant, InitRefines, NextRefines, PTL
     DEF HistorySpec, RefinesPolicy, Policy!Spec
-----------------------------------------------------------------------------
(***************************************************************************)
(* Sums over finite sets: that the fold of the community modules exists,   *)
(* depends on the summands only, and gets the value of an element more     *)
(* when that is added to the set.                                          *)
(***************************************************************************)
(* Induction over the natural numbers, for a set instead of a predicate. *)
LEMMA SetInduction ==
  ASSUME NEW S, 0 \in S, \A n \in Nat : n \in S => n + 1 \in S
  PROVE  \A n \in Nat : n \in S
<1> DEFINE T == Nat \ S
<1> SUFFICES ASSUME T # {} PROVE FALSE
  OBVIOUS
<1>1. PICK m \in T : \A k \in T : <<k, m>> \notin OpToRel(<, Nat)
  <2>1. T \subseteq Nat
    OBVIOUS
  <2> HIDE DEF T
  <2> QED BY <2>1, NatLessThanWellFounded, WFMin
<1>2. m - 1 \in Nat /\ m - 1 < m /\ (m - 1) + 1 = m
  OBVIOUS
<1>3. m - 1 \notin T
  BY <1>1, <1>2 DEF OpToRel
<1> QED BY <1>2, <1>3

(* The fold of the community modules takes the elements of a set one by one. *)
First(s) == CHOOSE x \in s : TRUE

SumsOn(D, sq, g) ==
    g = [s \in D |-> IF s = {} THEN 0 ELSE sq[First(s)] + g[s \ {First(s)}]]

Sums(S, sq, g) == SumsOn(SUBSET S, sq, g)

LEMMA SmallerSet ==
  ASSUME NEW S, IsFiniteSet(S), NEW s \in SUBSET S
  PROVE  /\ IsFiniteSet(s) /\ Cardinality(s) \in Nat
         /\ Cardinality(s) <= Cardinality(S)
         /\ s # {} => First(s) \in s
         /\ \A x \in s : /\ s \ {x} \in SUBSET S
                         /\ Cardinality(s \ {x}) = Cardinality(s) - 1
<1>1. IsFiniteSet(s) /\ Cardinality(s) <= Cardinality(S)
  BY FS_Subset
<1>2. Cardinality(s) \in Nat
  BY <1>1, FS_CardinalityType
<1>3. s # {} => First(s) \in s
  BY DEF First
<1>4. ASSUME NEW x \in s PROVE Cardinality(s \ {x}) = Cardinality(s) - 1
  BY <1>1, FS_RemoveElement
<1> QED BY <1>1, <1>2, <1>3, <1>4

LEMMA SumsExist ==
  ASSUME NEW S, IsFiniteSet(S), NEW sq
  PROVE  \E g : Sums(S, sq, g)
<1> DEFINE D(n) == {s \in SUBSET S : Cardinality(s) <= n}
           P == {n \in Nat : \E g : SumsOn(D(n), sq, g)}
<1>1. 0 \in P
  <2> DEFINE g == [s \in D(0) |-> 0]
  <2>1. ASSUME NEW s \in D(0) PROVE s = {}
    <3>1. Cardinality(s) = 0 /\ IsFiniteSet(s)
      BY SmallerSet
    <3> QED BY <3>1, FS_EmptySet
  <2>2. SumsOn(D(0), sq, g)
    <3> HIDE DEF D
    <3> QED BY <2>1 DEF Sums, SumsOn
  <2> QED BY <2>2
<1>2. ASSUME NEW n \in Nat, n \in P PROVE n + 1 \in P
  <2>1. PICK h : SumsOn(D(n), sq, h)
    BY <1>2
  <2> DEFINE g == [s \in D(n + 1) |->
                     IF s = {} THEN 0 ELSE sq[First(s)] + h[s \ {First(s)}]]
  <2>2. ASSUME NEW s \in D(n + 1), s # {}
        PROVE  s \ {First(s)} \in D(n) /\ s \ {First(s)} \in D(n + 1)
    BY <2>2, SmallerSet
  <2> HIDE DEF D
  <2>3. ASSUME NEW r \in D(n), r \in D(n + 1) PROVE g[r] = h[r]
    BY <2>1, <2>3 DEF Sums, SumsOn
  <2>4. ASSUME NEW s \in D(n + 1)
        PROVE  g[s] = IF s = {} THEN 0 ELSE sq[First(s)] + g[s \ {First(s)}]
    <3>1. CASE s = {}
      BY <3>1
    <3>2. CASE s # {}
      <4>1. g[s \ {First(s)}] = h[s \ {First(s)}]
        BY <2>2, <2>3, <3>2
      <4>2. g[s] = sq[First(s)] + h[s \ {First(s)}]
        BY <3>2
      <4> HIDE DEF g
      <4> QED BY <3>2, <4>1, <4>2
    <3> QED BY <3>1, <3>2
  <2>5. g = [s \in D(n + 1) |-> g[s]]
    OBVIOUS
  <2> HIDE DEF g
  <2>6. SumsOn(D(n + 1), sq, g)
    BY <2>4, <2>5 DEF Sums, SumsOn
  <2> QED BY <2>6
<1> HIDE DEF P
<1>3. Cardinality(S) \in P
  BY <1>1, <1>2, SetInduction, FS_CardinalityType
<1> USE DEF P
<1>4. D(Cardinality(S)) = SUBSET S
  BY SmallerSet
<1> HIDE DEF D
<1> QED BY <1>3, <1>4 DEF Sums

LEMMA SumsAgree ==
  ASSUME NEW S, IsFiniteSet(S), NEW sq, NEW g, Sums(S, sq, g),
         NEW T, IsFiniteSet(T), NEW sr, NEW h, Sums(T, sr, h),
         NEW U, U \in SUBSET S, U \in SUBSET T, \A i \in U : sq[i] = sr[i]
  PROVE  g[U] = h[U]
<1> DEFINE P == {n \in Nat : \A u \in SUBSET U : Cardinality(u) = n => g[u] = h[u]}
<1>1. 0 \in P
  <2> SUFFICES ASSUME NEW u \in SUBSET U, Cardinality(u) = 0 PROVE g[u] = h[u]
    OBVIOUS
  <2>1. u = {} /\ u \in SUBSET S /\ u \in SUBSET T
    BY SmallerSet, FS_EmptySet
  <2> QED BY <2>1 DEF Sums, SumsOn
<1>2. ASSUME NEW n \in Nat, n \in P PROVE n + 1 \in P
  <2> SUFFICES ASSUME NEW u \in SUBSET U, Cardinality(u) = n + 1 PROVE g[u] = h[u]
    OBVIOUS
  <2> DEFINE x == First(u)
             r == u \ {x}
  <2>1. u # {} /\ u \in SUBSET S /\ u \in SUBSET T
    <3>1. Cardinality(u) # 0
      OBVIOUS
    <3> QED BY <3>1, FS_EmptySet
  <2>2. x \in u
    BY <2>1 DEF First
  <2>3. Cardinality(r) = n /\ r \in SUBSET U
    BY <2>1, <2>2, SmallerSet
  <2>4. g[r] = h[r]
    BY <1>2, <2>3
  <2>5. g[u] = sq[x] + g[r] /\ h[u] = sr[x] + h[r]
    BY <2>1 DEF Sums, SumsOn
  <2>6. sq[x] = sr[x]
    BY <2>2
  <2> HIDE DEF x, r
  <2> QED BY <2>4, <2>5, <2>6
<1>3. IsFiniteSet(U) /\ Cardinality(U) \in Nat
  BY SmallerSet
<1> HIDE DEF P
<1>4. Cardinality(U) \in P
  BY <1>1, <1>2, <1>3, SetInduction
<1> QED BY <1>4 DEF P

LEMMA SumsType ==
  ASSUME NEW S, IsFiniteSet(S), NEW sq, \A i \in S : sq[i] \in Nat,
         NEW g, Sums(S, sq, g)
  PROVE  \A s \in SUBSET S : g[s] \in Nat
<1> DEFINE P == {n \in Nat : \A s \in SUBSET S : Cardinality(s) = n => g[s] \in Nat}
<1>1. 0 \in P
  <2> SUFFICES ASSUME NEW s \in SUBSET S, Cardinality(s) = 0 PROVE g[s] \in Nat
    OBVIOUS
  <2>1. s = {}
    BY SmallerSet, FS_EmptySet
  <2> QED BY <2>1 DEF Sums, SumsOn
<1>2. ASSUME NEW n \in Nat, n \in P PROVE n + 1 \in P
  <2> SUFFICES ASSUME NEW s \in SUBSET S, Cardinality(s) = n + 1 PROVE g[s] \in Nat
    OBVIOUS
  <2>0. \A r \in SUBSET S : Cardinality(r) = n => g[r] \in Nat
    BY <1>2
  <2> HIDE DEF P
  <2> DEFINE y == First(s)
             r == s \ {y}
  <2>1. s # {}
    <3>1. Cardinality(s) # 0
      OBVIOUS
    <3> QED BY <3>1, FS_EmptySet
  <2>2. y \in s
    BY <2>1 DEF First
  <2>3. Cardinality(r) = n /\ r \in SUBSET S
    <3> HIDE DEF y
    <3> QED BY <2>1, <2>2, SmallerSet
  <2>4. g[r] \in Nat /\ sq[y] \in Nat
    BY <2>0, <2>2, <2>3
  <2>5. g[s] = sq[y] + g[r]
    BY <2>1 DEF Sums, SumsOn
  <2> QED BY <2>4, <2>5
<1> HIDE DEF P
<1>3. \A n \in Nat : n \in P
  BY <1>1, <1>2, SetInduction
<1> SUFFICES ASSUME NEW s \in SUBSET S PROVE g[s] \in Nat
  OBVIOUS
<1>4. Cardinality(s) \in P
  BY <1>3, SmallerSet
<1> QED BY <1>4 DEF P

(* The order in which they are taken does not matter. *)
LEMMA SumsAdd ==
  ASSUME NEW S, IsFiniteSet(S), NEW sq, \A i \in S : sq[i] \in Nat,
         NEW g, Sums(S, sq, g)
  PROVE  \A s \in SUBSET S : \A x \in s : g[s] = g[s \ {x}] + sq[x]
<1> DEFINE Good(s) == \A x \in s : g[s] = g[s \ {x}] + sq[x]
           P == {n \in Nat : \A s \in SUBSET S : Cardinality(s) = n => Good(s)}
<1>1. 0 \in P
  <2> SUFFICES ASSUME NEW s \in SUBSET S, Cardinality(s) = 0 PROVE Good(s)
    OBVIOUS
  <2>1. s = {}
    BY SmallerSet, FS_EmptySet
  <2> QED BY <2>1
<1>2. ASSUME NEW n \in Nat, n \in P PROVE n + 1 \in P
  <2> SUFFICES ASSUME NEW s \in SUBSET S, Cardinality(s) = n + 1 PROVE Good(s)
    OBVIOUS
  <2>0. \A t \in SUBSET S : Cardinality(t) = n => Good(t)
    BY <1>2
  <2> HIDE DEF P
  <2> DEFINE y == First(s)
             r == s \ {y}
  <2>1. s # {}
    <3>1. Cardinality(s) # 0
      OBVIOUS
    <3> QED BY <3>1, FS_EmptySet
  <2>2. y \in s
    BY <2>1 DEF First
  <2>3. Cardinality(r) = n /\ r \in SUBSET S
    <3> HIDE DEF Good, y
    <3> QED BY <2>1, <2>2, SmallerSet
  <2>4. Good(r)
    BY <2>0, <2>3
  <2>5. g[s] = sq[y] + g[r]
    BY <2>1 DEF Sums, SumsOn
  <2>8. \A u \in SUBSET S : g[u] \in Nat
    BY SumsType
  <2>6. g[r] \in Nat /\ sq[y] \in Nat
    BY <2>2, <2>3, <2>8
  <2>7. ASSUME NEW x \in s PROVE g[s] = g[s \ {x}] + sq[x]
    <3>1. CASE x = y
      <4> HIDE DEF y, r
      <4>1. s \ {x} = r
        BY <3>1 DEF r
      <4>2. g[s \ {x}] = g[r] /\ sq[x] = sq[y]
        BY <3>1, <4>1
      <4> HIDE DEF Good
      <4> QED BY <2>5, <2>6, <4>2
    <3>2. CASE x # y
      <4> DEFINE q == s \ {x}
                 p == r \ {x}
      <4>1. Cardinality(q) = n /\ q \in SUBSET S
        BY SmallerSet
      <4>2. Good(q)
        BY <2>0, <4>1
      <4>3. y \in q /\ q \ {y} = p /\ x \in r
        BY <2>2, <3>2
      <4>4. g[q] = g[q \ {y}] + sq[y]
        BY <4>2, <4>3
      <4>5. g[r] = g[p] + sq[x]
        BY <2>4, <4>3
      <4>6. Cardinality(p) = n - 1 /\ p \in SUBSET S
        <5> HIDE DEF Good, r
        <5> QED BY <2>3, <4>3, SmallerSet
      <4>7. n - 1 \in Nat /\ g[q] \in Nat /\ sq[x] \in Nat
        <5>1. Cardinality(p) \in Nat
          <6> HIDE DEF Good, r, p
          <6> QED BY <4>6, SmallerSet
        <5> QED BY <2>8, <4>1, <4>6, <5>1
      <4> HIDE DEF y, r, p, q
      <4>8. g[q] = g[p] + sq[y]
        BY <4>3, <4>4
      <4>9. g[p] \in Nat
        <5>1. p \in SUBSET S /\ Cardinality(p) = n - 1
          BY <4>6
        <5> QED BY <5>1, <2>8
      <4> QED BY <2>5, <2>6, <4>5, <4>7, <4>8, <4>9 DEF q
    <3> QED BY <3>1, <3>2
  <2> QED BY <2>7
<1> HIDE DEF Good
<1>3. \A n \in Nat : n \in P
  <2> HIDE DEF P
  <2> QED BY <1>1, <1>2, SetInduction
<1> SUFFICES ASSUME NEW s \in SUBSET S PROVE Good(s)
  BY DEF Good
<1>4. Cardinality(s) \in P
  BY <1>3, SmallerSet
<1> QED BY <1>4

LEMMA SumUnfolds ==
  ASSUME NEW S, IsFiniteSet(S), NEW sq
  PROVE  \E g : Sums(S, sq, g) /\ Policy!SumFunctionOnSet(sq, S) = g[S]
<1> DEFINE g == CHOOSE g : Sums(S, sq, g)
<1>1. \E h : Sums(S, sq, h)
  BY SumsExist
<1>2. Sums(S, sq, g)
  BY <1>1
<1>3. Policy!SumFunctionOnSet(sq, S) = g[S]
  BY DEF Policy!SumFunctionOnSet, Policy!FoldFunctionOnSet, Policy!MapThenFoldSet,
         Sums, SumsOn, First
<1> QED BY <1>2, <1>3

LEMMA EmptySum ==
  ASSUME NEW sq
  PROVE  Policy!SumFunctionOnSet(sq, {}) = 0
<1>1. IsFiniteSet({})
  BY FS_EmptySet
<1>2. PICK g : Sums({}, sq, g) /\ Policy!SumFunctionOnSet(sq, {}) = g[{}]
  BY <1>1, SumUnfolds
<1> QED BY <1>2 DEF Sums, SumsOn

LEMMA SameSum ==
  ASSUME NEW S, IsFiniteSet(S), NEW sq, NEW sr, \A i \in S : sq[i] = sr[i]
  PROVE  Policy!SumFunctionOnSet(sq, S) = Policy!SumFunctionOnSet(sr, S)
<1>1. PICK g : Sums(S, sq, g) /\ Policy!SumFunctionOnSet(sq, S) = g[S]
  BY SumUnfolds
<1>2. PICK h : Sums(S, sr, h) /\ Policy!SumFunctionOnSet(sr, S) = h[S]
  BY SumUnfolds
<1>3. S \in SUBSET S
  OBVIOUS
<1>4. g[S] = h[S]
  BY <1>1, <1>2, <1>3, SumsAgree
<1> QED BY <1>1, <1>2, <1>4

(* T is S with the element x more, over which sr has natural values and    *)
(* agrees with sq except at x.                                             *)
OneMore(S, x, T, sq, sr) ==
  /\ IsFiniteSet(S) /\ x \notin S /\ T = S \cup {x}
  /\ \A i \in S : sq[i] = sr[i]
  /\ \A i \in T : sr[i] \in Nat

LEMMA OneMoreSummand ==
  ASSUME NEW S, NEW x, NEW T, NEW sq, NEW sr, OneMore(S, x, T, sq, sr)
  PROVE  Policy!SumFunctionOnSet(sr, T) = Policy!SumFunctionOnSet(sq, S) + sr[x]
<1>1. IsFiniteSet(T) /\ S \in SUBSET S /\ S \in SUBSET T /\ T \ {x} = S /\ x \in T
  BY FS_AddElement DEF OneMore
<1>2. PICK g : Sums(S, sq, g) /\ Policy!SumFunctionOnSet(sq, S) = g[S]
  BY SumUnfolds DEF OneMore
<1>3. PICK h : Sums(T, sr, h) /\ Policy!SumFunctionOnSet(sr, T) = h[T]
  BY <1>1, SumUnfolds
<1>4. g[S] = h[S]
  <2>1. IsFiniteSet(S) /\ \A i \in S : sq[i] = sr[i]
    BY DEF OneMore
  <2> QED BY <1>1, <1>2, <1>3, <2>1, SumsAgree
<1>5. \A i \in T : sr[i] \in Nat
  BY DEF OneMore
<1>6. h[T] = h[T \ {x}] + sr[x]
  BY <1>1, <1>3, <1>5, SumsAdd
<1> QED BY <1>1, <1>2, <1>3, <1>4, <1>6

(***************************************************************************)
(* The statistics.  What one more meterage does to the runs of a journal.  *)
(***************************************************************************)
LEMMA SameCardinality == \A S : Policy!Cardinality(S) = Cardinality(S)
  BY DEF Policy!Cardinality, Cardinality

LEMMA Appended ==
  ASSUME NEW log \in Seq(Accepted), NEW e \in Accepted
  PROVE  /\ Len(log) \in Nat
         /\ DOMAIN log = 1 .. Len(log)
         /\ DOMAIN Append(log, e) = 1 .. Len(log) + 1
         /\ \A i \in 1 .. Len(log) : Append(log, e)[i] = log[i]
         /\ Append(log, e)[Len(log) + 1] = e
  BY AppendProperties, LenProperties

LEMMA CommandedNow ==
  ASSUME NEW log \in Seq(Accepted), NEW e \in Accepted
  PROVE  Policy!Commanded(Append(log, e)) =
            IF e.phase = None THEN Policy!Commanded(log)
            ELSE Policy!Commanded(log) \cup {Len(log) + 1}
<1> DEFINE new == Append(log, e)
           last == Len(log) + 1
<1>1. /\ DOMAIN log = 1 .. Len(log) /\ Len(log) \in Nat
      /\ DOMAIN new = 1 .. last
      /\ \A i \in 1 .. Len(log) : new[i] = log[i]
      /\ new[last] = e
  BY Appended
<1> HIDE DEF new
<1>2. \A i \in 1 .. last : i \in 1 .. Len(log) \/ i = last
  BY <1>1
<1> QED BY <1>1, <1>2 DEF Policy!Commanded, new

LEMMA RunFacts ==
  ASSUME NEW log \in Seq(Accepted)
  PROVE  /\ Policy!Commanded(log) \subseteq 1 .. Len(log)
         /\ Policy!RunStarts(log) \subseteq Policy!Commanded(log)
         /\ IsFiniteSet(Policy!Commanded(log)) /\ IsFiniteSet(Policy!RunStarts(log))
         /\ Cardinality(Policy!RunStarts(log)) \in Nat
         /\ \A i : /\ Policy!RunOf(log, i) \in Nat
                   /\ Policy!RunOf(log, i) <= Cardinality(Policy!RunStarts(log))
         /\ \A n : /\ IsFiniteSet(Policy!Run(log, n))
                   /\ Policy!Run(log, n) \subseteq Policy!Commanded(log)
<1> DEFINE C == Policy!Commanded(log)
           S == Policy!RunStarts(log)
<1>1. C \subseteq 1 .. Len(log) /\ Len(log) \in Nat
  BY LenProperties DEF Policy!Commanded
<1>2. S \subseteq C
  BY DEF Policy!RunStarts
<1>3. IsFiniteSet(1 .. Len(log))
  BY <1>1, FS_Interval
<1>4. IsFiniteSet(C) /\ IsFiniteSet(S)
  <2> HIDE DEF C, S
  <2> QED BY <1>1, <1>2, <1>3, FS_Subset
<1>5. Cardinality(S) \in Nat
  BY <1>4, FS_CardinalityType
<1>6. ASSUME NEW i
      PROVE  Policy!RunOf(log, i) \in Nat /\ Policy!RunOf(log, i) <= Cardinality(S)
  <2> DEFINE B == {j \in S : j <= i}
  <2>1. B \in SUBSET S
    OBVIOUS
  <2>2. Policy!RunOf(log, i) = Cardinality(B)
    BY SameCardinality DEF Policy!RunOf
  <2> HIDE DEF B, S
  <2>3. IsFiniteSet(B) /\ Cardinality(B) <= Cardinality(S)
    BY <1>4, <2>1, FS_Subset
  <2> QED BY <2>2, <2>3, FS_CardinalityType
<1>7. ASSUME NEW n
      PROVE  IsFiniteSet(Policy!Run(log, n)) /\ Policy!Run(log, n) \subseteq C
  <2> DEFINE R == Policy!Run(log, n)
  <2>1. R \in SUBSET C
    BY DEF Policy!Run
  <2> HIDE DEF R, C
  <2>2. IsFiniteSet(R)
    BY <1>4, <2>1, FS_Subset
  <2> QED BY <2>1, <2>2 DEF R
<1> QED BY <1>1, <1>2, <1>4, <1>5, <1>6, <1>7

(* What was recorded keeps its place in the runs. *)
LEMMA PastStays ==
  ASSUME NEW log \in Seq(Accepted), NEW e \in Accepted
  PROVE  \A i \in 1 .. Len(log) :
            /\ i \in Policy!RunStarts(Append(log, e)) <=> i \in Policy!RunStarts(log)
            /\ Policy!RunOf(Append(log, e), i) = Policy!RunOf(log, i)
            /\ i \in Policy!Commanded(log) =>
                  Policy!Squares(Append(log, e))[i] = Policy!Squares(log)[i]
<1> DEFINE new == Append(log, e)
           last == Len(log) + 1
           C == Policy!Commanded(log)
           D == Policy!Commanded(new)
<1>1. /\ DOMAIN log = 1 .. Len(log) /\ Len(log) \in Nat
      /\ \A i \in 1 .. Len(log) : new[i] = log[i]
  BY Appended
<1>2. C \subseteq 1 .. Len(log) /\ (D = C \/ D = C \cup {last})
  BY CommandedNow, RunFacts
<1> HIDE DEF new, C, D
<1>3. ASSUME NEW i \in 1 .. Len(log)
      PROVE  i \in Policy!RunStarts(new) <=> i \in Policy!RunStarts(log)
  <2> DEFINE JustBefore(X, j) == j < i /\ \A k \in X : ~(j < k /\ k < i)
  <2>1. i \in D <=> i \in C
    BY <1>1, <1>2
  <2>2. ASSUME NEW j \in C PROVE JustBefore(C, j) <=> JustBefore(D, j)
    <3>1. ~(last < i)
      BY <1>1
    <3> HIDE DEF last
    <3> QED BY <1>2, <3>1
  <2>3. ~ JustBefore(D, last)
    BY <1>1
  <2>4. new[i] = log[i] /\ \A j \in C : new[j] = log[j]
    BY <1>1, <1>2
  <2>5. i \in Policy!RunStarts(new) <=>
           i \in D /\ \A j \in D : JustBefore(D, j) => new[j].phase # new[i].phase
    BY DEF Policy!RunStarts, D
  <2>6. i \in Policy!RunStarts(log) <=>
           i \in C /\ \A j \in C : JustBefore(C, j) => log[j].phase # log[i].phase
    BY DEF Policy!RunStarts, C
  <2> HIDE DEF JustBefore
  <2> QED BY <1>2, <2>1, <2>2, <2>3, <2>4, <2>5, <2>6
<1>4. ASSUME NEW i \in 1 .. Len(log)
      PROVE  Policy!RunOf(new, i) = Policy!RunOf(log, i)
  <2>1. Policy!RunStarts(new) \subseteq D /\ Policy!RunStarts(log) \subseteq C
    BY DEF Policy!RunStarts, C, D
  <2>2. \A j \in D : j <= i => j \in 1 .. Len(log)
    <3>1. \A j \in C : j \in 1 .. Len(log)
      BY <1>2
    <3>2. ~(last <= i)
      BY <1>1
    <3> QED BY <1>2, <3>1, <3>2
  <2>3. \A j \in C : j \in 1 .. Len(log)
    BY <1>2
  <2>4. {j \in Policy!RunStarts(new) : j <= i} = {j \in Policy!RunStarts(log) : j <= i}
    BY <1>3, <2>1, <2>2, <2>3
  <2> QED BY <2>4 DEF Policy!RunOf
<1>5. ASSUME NEW i \in C
      PROVE  Policy!Squares(new)[i] = Policy!Squares(log)[i]
  BY <1>1, <1>2 DEF Policy!Squares, C, D
<1> QED BY <1>3, <1>4, <1>5 DEF new, C

(* A command opens a run unless the one before it served the same phase. *)
LEMMA CommandRuns ==
  ASSUME NEW log \in Seq(Accepted), NEW e \in Accepted, e.phase # None
  PROVE  LET new == Append(log, e)
             last == Len(log) + 1
             starts == Policy!RunStarts(log)
         IN  /\ Policy!RunStarts(new) =
                   IF last \in Policy!RunStarts(new) THEN starts \cup {last} ELSE starts
             /\ Cardinality(Policy!RunStarts(new)) = Cardinality(starts) +
                   IF last \in Policy!RunStarts(new) THEN 1 ELSE 0
             /\ Policy!RunOf(new, last) = Cardinality(Policy!RunStarts(new))
<1> DEFINE new == Append(log, e)
           last == Len(log) + 1
           S == Policy!RunStarts(log)
           T == Policy!RunStarts(new)
<1>1. Len(log) \in Nat /\ S \subseteq 1 .. Len(log) /\ IsFiniteSet(S)
  BY RunFacts, LenProperties
<1>2. T \subseteq 1 .. last
  <2>1. T \subseteq Policy!Commanded(new)
    BY DEF Policy!RunStarts
  <2>2. Policy!Commanded(log) \subseteq 1 .. Len(log)
    BY RunFacts
  <2> HIDE DEF T, new
  <2> QED BY <1>1, <2>1, <2>2, CommandedNow DEF new
<1>3. \A i \in 1 .. Len(log) : i \in T <=> i \in S
  BY PastStays
<1>4. Policy!RunOf(new, last) = Cardinality({j \in T : j <= last})
  BY SameCardinality DEF Policy!RunOf
<1> HIDE DEF new, S, T
<1>5. T = IF last \in T THEN S \cup {last} ELSE S
  <2>1. \A i \in 1 .. last : i \in 1 .. Len(log) \/ i = last
    BY <1>1
  <2>2. \A i \in T : i \in S \/ i = last
    BY <1>2, <1>3, <2>1
  <2>3. S \subseteq T
    BY <1>1, <1>3
  <2> HIDE DEF last
  <2>4. CASE last \in T
    BY <2>2, <2>3, <2>4
  <2>5. CASE last \notin T
    <3>1. T \subseteq S
      BY <2>2, <2>5
    <3>2. T = S
      BY <2>3, <3>1
    <3> QED BY <2>5, <3>2
  <2> QED BY <2>4, <2>5
<1>6. last \notin S
  BY <1>1
<1>7. Cardinality(T) = Cardinality(S) + IF last \in T THEN 1 ELSE 0
  <2>1. Cardinality(S) \in Nat
    BY <1>1, FS_CardinalityType
  <2>2. CASE last \in T
    <3>1. Cardinality(S \cup {last}) = Cardinality(S) + 1
      <4> HIDE DEF last
      <4> QED BY <1>1, <1>6, FS_AddElement
    <3> QED BY <1>5, <2>2, <3>1
  <2>3. CASE last \notin T
    BY <1>5, <2>1, <2>3
  <2> QED BY <2>2, <2>3
<1>8. {j \in T : j <= last} = T
  <2>1. \A j \in T : j <= last
    BY <1>1, <1>2
  <2> QED BY <2>1
<1> QED BY <1>4, <1>5, <1>7, <1>8 DEF new, S, T

LEMMA LeastElement ==
  ASSUME NEW R, R \subseteq Nat, R # {}
  PROVE  Policy!Min(R) \in R /\ \A x \in R : Policy!Min(R) <= x
<1>1. PICK m \in R : \A k \in R : <<k, m>> \notin OpToRel(<, Nat)
  BY NatLessThanWellFounded, WFMin
<1>2. \A k \in R : m <= k
  <2>1. \A k \in R : ~(k < m)
    BY <1>1 DEF OpToRel
  <2>2. \A k \in R : k \in Nat /\ m \in Nat
    OBVIOUS
  <2> QED BY <2>1, <2>2
<1> QED BY <1>2 DEF Policy!Min

LEMMA LeastIs ==
  ASSUME NEW R, R \subseteq Nat, NEW m \in R, \A x \in R : m <= x
  PROVE  Policy!Min(R) = m
<1>1. R # {}
  OBVIOUS
<1>2. Policy!Min(R) \in R /\ Policy!Min(R) <= m
  BY <1>1, LeastElement
<1>3. m <= Policy!Min(R) /\ m \in Nat /\ Policy!Min(R) \in Nat
  BY <1>2
<1> QED BY <1>2, <1>3

(* An entry whose run stays as it is stays as it is. *)
LEMMA EntryStays ==
  ASSUME NEW log \in Seq(Accepted), NEW e \in Accepted, NEW n,
         Policy!Run(Append(log, e), n) = Policy!Run(log, n),
         Policy!Run(log, n) # {}
  PROVE  Policy!Entry(Append(log, e), n) = Policy!Entry(log, n)
<1> DEFINE new == Append(log, e)
           R == Policy!Run(log, n)
           first == Policy!Min(R)
<1>1. R \subseteq Policy!Commanded(log) /\ Policy!Commanded(log) \subseteq 1 .. Len(log)
      /\ IsFiniteSet(R) /\ Len(log) \in Nat
  BY RunFacts, LenProperties
<1>2. \A i \in 1 .. Len(log) : new[i] = log[i]
  BY Appended
<1>3. \A i \in R : Policy!Squares(new)[i] = Policy!Squares(log)[i]
  BY <1>1, PastStays
<1>4. Policy!SumFunctionOnSet(Policy!Squares(new), R)
        = Policy!SumFunctionOnSet(Policy!Squares(log), R)
  <2> DEFINE sq == Policy!Squares(new)
             sr == Policy!Squares(log)
  <2>1. \A i \in R : sq[i] = sr[i]
    BY <1>3
  <2> HIDE DEF sq, sr, R
  <2>2. Policy!SumFunctionOnSet(sq, R) = Policy!SumFunctionOnSet(sr, R)
    BY <1>1, <2>1, SameSum
  <2> QED BY <2>2 DEF sq, sr
<1>5. first \in R
  <2> HIDE DEF R
  <2>1. R \subseteq Nat /\ R # {}
    BY <1>1 DEF R
  <2> QED BY <2>1, LeastElement
<1>6. new[first] = log[first]
  BY <1>1, <1>2, <1>5
<1>7. Policy!Run(new, n) = R
  OBVIOUS
<1> HIDE DEF new, R, first
<1> QED BY <1>4, <1>6, <1>7 DEF Policy!Entry, new, R, first

LEMMA Difference ==
  ASSUME NEW p \in Phases, NEW m \in Meterages
  PROVE  p.value - m \in Int
<1>1. p.value \in 0 .. 255 /\ m \in 0 .. 255
  BY PhaseType DEF Byte
<1>2. \A a, b \in 0 .. 255 : a - b \in Int
  OBVIOUS
<1> QED BY <1>1, <1>2

LEMMA SquareOfLast ==
  ASSUME NEW log \in Seq(Accepted), NEW e \in Accepted, e.phase \in Phases
  PROVE  Policy!Squares(Append(log, e))[Len(log) + 1] =
            (e.phase.value - e.meterage) * (e.phase.value - e.meterage)
<1>1. Len(log) + 1 \in Policy!Commanded(Append(log, e))
  BY CommandedNow, NoPhaseAssumption
<1>2. Append(log, e)[Len(log) + 1] = e
  BY Appended
<1> QED BY <1>1, <1>2 DEF Policy!Squares

LEMMA SquaresAreNat ==
  ASSUME NEW log \in Seq(Accepted)
  PROVE  \A i \in Policy!Commanded(log) : Policy!Squares(log)[i] \in Nat
<1> SUFFICES ASSUME NEW i \in Policy!Commanded(log)
             PROVE  Policy!Squares(log)[i] \in Nat
  OBVIOUS
<1> DEFINE diff == log[i].phase.value - log[i].meterage
<1>1. log[i] \in Accepted /\ log[i].phase # None
  BY DEF Policy!Commanded
<1>2. log[i].phase \in Phases /\ log[i].meterage \in Meterages
  BY <1>1 DEF Accepted
<1>4. diff \in Int
  BY <1>2, Difference
<1>5. Policy!Squares(log)[i] = diff * diff
  BY DEF Policy!Squares
<1> HIDE DEF diff
<1> QED BY <1>4, <1>5, SquareIsNat

(* An entry whose run gets one more command. *)
LEMMA EntryGrows ==
  ASSUME NEW log \in Seq(Accepted), NEW e \in Accepted, e.phase \in Phases, NEW n,
         Policy!Run(Append(log, e), n) = Policy!Run(log, n) \cup {Len(log) + 1},
         Policy!Run(log, n) # {}
  PROVE  LET old == Policy!Entry(log, n)
         IN  Policy!Entry(Append(log, e), n) =
               [phase |-> old.phase, firstTimeStamp |-> old.firstTimeStamp,
                deviation |-> AddDiff(old.deviation, e.phase.value - e.meterage)]
<1> DEFINE new == Append(log, e)
           last == Len(log) + 1
           R == Policy!Run(log, n)
           S == R \cup {last}
           sq == Policy!Squares(log)
           sr == Policy!Squares(new)
           diff == e.phase.value - e.meterage
<1>1. R \subseteq Policy!Commanded(log) /\ Policy!Commanded(log) \subseteq 1 .. Len(log)
      /\ IsFiniteSet(R) /\ Len(log) \in Nat
  BY RunFacts, LenProperties
<1>2. last \notin R /\ \A x \in R : x <= last
  BY <1>1
<1>3. \A i \in 1 .. Len(log) : new[i] = log[i]
  BY Appended
<1>4. Policy!Run(new, n) = S
  OBVIOUS
<1>5. \A i \in R : sq[i] = sr[i]
  BY <1>1, PastStays
<1>6. S \subseteq Policy!Commanded(new) /\ new \in Seq(Accepted)
  <2>1. new \in Seq(Accepted)
    OBVIOUS
  <2> HIDE DEF new, S
  <2> QED BY <1>4, <2>1, RunFacts
<1>7. \A i \in S : sr[i] \in Nat
  <2> HIDE DEF new, S
  <2> QED BY <1>6, SquaresAreNat
<1>8. sr[last] = diff * diff
  BY SquareOfLast
<1>9. Policy!Min(S) = Policy!Min(R) /\ Policy!Min(R) \in R
  <2> HIDE DEF R, last
  <2>1. R \subseteq Nat /\ R # {} /\ last \in Nat
    BY <1>1 DEF R, last
  <2>2. Policy!Min(R) \in R /\ \A x \in R : Policy!Min(R) <= x
    BY <2>1, LeastElement
  <2>3. Policy!Min(R) \in S /\ S \subseteq Nat /\ \A x \in S : Policy!Min(R) <= x
    BY <1>2, <2>1, <2>2
  <2> DEFINE m == Policy!Min(R)
  <2> HIDE DEF m, S
  <2>4. Policy!Min(S) = m
    BY <2>3, LeastIs DEF m
  <2> QED BY <2>2, <2>4 DEF m
<1>10. new[Policy!Min(R)] = log[Policy!Min(R)]
  BY <1>1, <1>3, <1>9
<1>11. Policy!SumFunctionOnSet(sr, S) = Policy!SumFunctionOnSet(sq, R) + diff * diff
  <2>1. OneMore(R, last, S, sq, sr)
    BY <1>1, <1>2, <1>5, <1>7 DEF OneMore
  <2> HIDE DEF R, last, S, sq, sr, diff
  <2>2. Policy!SumFunctionOnSet(sr, S) = Policy!SumFunctionOnSet(sq, R) + sr[last]
    BY <2>1, OneMoreSummand
  <2> QED BY <1>8, <2>2
<1>12. Cardinality(S) = Cardinality(R) + 1
  <2> HIDE DEF R, last
  <2> QED BY <1>1, <1>2, FS_AddElement
<1> DEFINE old == Policy!Entry(log, n)
<1>13. /\ old.phase = log[Policy!Min(R)].phase
       /\ old.firstTimeStamp = log[Policy!Min(R)].timeStamp
       /\ old.deviation.sum = Policy!SumFunctionOnSet(sq, R)
       /\ old.deviation.count = Cardinality(R)
  BY SameCardinality DEF Policy!Entry
<1>14. Policy!Entry(new, n) =
         [phase |-> new[Policy!Min(S)].phase,
          firstTimeStamp |-> new[Policy!Min(S)].timeStamp,
          deviation |-> [sum |-> Policy!SumFunctionOnSet(sr, S), count |-> Cardinality(S)]]
  <2> HIDE DEF new, S
  <2> QED BY <1>4, SameCardinality DEF Policy!Entry, sr
<1>15. AddDiff(old.deviation, diff) =
         [sum |-> old.deviation.sum + diff * diff, count |-> old.deviation.count + 1]
  BY DEF AddDiff
<1> HIDE DEF new, R, S, sq, sr, old, diff
<1>16. Policy!Entry(new, n) =
         [phase |-> old.phase, firstTimeStamp |-> old.firstTimeStamp,
          deviation |-> AddDiff(old.deviation, diff)]
  BY <1>9, <1>10, <1>11, <1>12, <1>13, <1>14, <1>15
<1> QED BY <1>16 DEF new, old, diff

(* The entry of a run that has just been opened. *)
LEMMA EntryOpens ==
  ASSUME NEW log \in Seq(Accepted), NEW e \in Accepted, e.phase \in Phases, NEW n,
         Policy!Run(Append(log, e), n) = {Len(log) + 1}
  PROVE  Policy!Entry(Append(log, e), n) =
           [phase |-> e.phase, firstTimeStamp |-> e.timeStamp,
            deviation |-> AddDiff(NoDiffs, e.phase.value - e.meterage)]
<1> DEFINE new == Append(log, e)
           last == Len(log) + 1
           sr == Policy!Squares(new)
           diff == e.phase.value - e.meterage
<1>1. last \in Nat /\ new[last] = e
  BY Appended
<1>2. Policy!Min({last}) = last
  <2> HIDE DEF last
  <2>1. {last} \subseteq Nat /\ last \in {last} /\ \A x \in {last} : last <= x
    BY <1>1
  <2> DEFINE R == {last}
  <2> HIDE DEF R
  <2>2. Policy!Min(R) = last
    BY <2>1, LeastIs DEF R
  <2> QED BY <2>2 DEF R
<1>3. sr[last] = diff * diff /\ diff * diff \in Nat
  <2>1. diff \in Int
    BY Difference DEF Accepted
  <2> QED BY <2>1, SquareOfLast, SquareIsNat
<1>4. Policy!SumFunctionOnSet(sr, {last}) = 0 + diff * diff
  <2> HIDE DEF last, sr, diff
  <2> DEFINE none == {}
             one == {last}
  <2>1. OneMore(none, last, one, sr, sr)
    BY <1>3, FS_EmptySet DEF OneMore
  <2>2. Policy!SumFunctionOnSet(sr, none) = 0
    BY EmptySum
  <2> HIDE DEF none, one
  <2>3. Policy!SumFunctionOnSet(sr, one) = Policy!SumFunctionOnSet(sr, none) + sr[last]
    BY <2>1, OneMoreSummand
  <2> QED BY <1>3, <2>2, <2>3 DEF one
<1>5. Cardinality({last}) = 0 + 1
  <2> HIDE DEF last
  <2>1. Cardinality({last}) = 1
    BY FS_Singleton
  <2> QED BY <2>1
<1>6. Policy!Entry(new, n) =
         [phase |-> new[last].phase, firstTimeStamp |-> new[last].timeStamp,
          deviation |-> [sum |-> Policy!SumFunctionOnSet(sr, {last}),
                         count |-> Cardinality({last})]]
  <2>1. Policy!Run(new, n) = {last}
    OBVIOUS
  <2> HIDE DEF new, last
  <2> QED BY <1>2, <2>1, SameCardinality DEF Policy!Entry, sr
<1>7. AddDiff(NoDiffs, diff) = [sum |-> 0 + diff * diff, count |-> 0 + 1]
  BY DEF AddDiff, NoDiffs
<1> HIDE DEF new, last, sr, diff
<1> QED BY <1>1, <1>4, <1>5, <1>6, <1>7 DEF new, diff
-----------------------------------------------------------------------------
(***************************************************************************)
(* The entries are those of the runs of the journal, and every command     *)
(* served the phase of the entry of its run.                               *)
(***************************************************************************)
EntriesAreRuns(stats, log) ==
    /\ stats = Policy!Statistics(log)
    /\ \A i \in Policy!Commanded(log) :
          /\ Policy!RunOf(log, i) \in 1 .. Len(stats)
          /\ stats[Policy!RunOf(log, i)].phase = log[i].phase

StatsInv == \A d \in Devices : EntriesAreRuns(deviationStats[d], journal[d])

Recorded(t, m, phase) == [timeStamp |-> t, meterage |-> m, phase |-> phase]

LEMMA StatisticsLength ==
  ASSUME NEW log \in Seq(Accepted), NEW stats \in Seq(Entries),
         stats = Policy!Statistics(log)
  PROVE  /\ Len(stats) = Cardinality(Policy!RunStarts(log))
         /\ Len(stats) \in Nat
         /\ DOMAIN stats = 1 .. Len(stats)
         /\ \A n \in 1 .. Len(stats) : stats[n] = Policy!Entry(log, n)
<1> DEFINE k == Cardinality(Policy!RunStarts(log))
<1>1. stats = [n \in 1 .. k |-> Policy!Entry(log, n)] /\ k \in Nat
  BY SameCardinality, RunFacts DEF Policy!Statistics
<1>2. DOMAIN stats = 1 .. Len(stats) /\ Len(stats) \in Nat
  BY LenProperties
<1> HIDE DEF k
<1>3. DOMAIN stats = 1 .. k
  BY <1>1
<1>4. Len(stats) = k
  <2>1. \A i \in Nat : i \in 1 .. k <=> i \in 1 .. Len(stats)
    BY <1>2, <1>3
  <2> QED BY <1>1, <1>2, <2>1
<1> QED BY <1>1, <1>2, <1>4 DEF k

(* No run is empty, as no entry is without a meterage. *)
LEMMA RunsNotEmpty ==
  ASSUME NEW log \in Seq(Accepted), NEW stats \in Seq(Entries),
         stats = Policy!Statistics(log),
         \A i \in 1 .. Len(stats) : stats[i].deviation.count > 0
  PROVE  \A n \in 1 .. Len(stats) : Policy!Run(log, n) # {}
<1> SUFFICES ASSUME NEW n \in 1 .. Len(stats), Policy!Run(log, n) = {} PROVE FALSE
  OBVIOUS
<1>1. stats[n] = Policy!Entry(log, n) /\ stats[n].deviation.count > 0
  BY StatisticsLength
<1>2. stats[n].deviation.count = Cardinality({})
  BY <1>1, SameCardinality DEF Policy!Entry
<1> QED BY <1>1, <1>2, FS_EmptySet

(* A meterage that was not answered with a command changes no run. *)
LEMMA IdleKeepsRuns ==
  ASSUME NEW log \in Seq(Accepted), NEW stats \in Seq(Entries),
         EntriesAreRuns(stats, log),
         \A i \in 1 .. Len(stats) : stats[i].deviation.count > 0,
         NEW e \in Accepted, e.phase = None
  PROVE  EntriesAreRuns(stats, Append(log, e))
<1> DEFINE new == Append(log, e)
           k == Cardinality(Policy!RunStarts(log))
<1>1. /\ stats = Policy!Statistics(log)
      /\ \A i \in Policy!Commanded(log) :
            /\ Policy!RunOf(log, i) \in 1 .. Len(stats)
            /\ stats[Policy!RunOf(log, i)].phase = log[i].phase
  BY DEF EntriesAreRuns
<1>2. Policy!Commanded(new) = Policy!Commanded(log)
      /\ Policy!Commanded(log) \subseteq 1 .. Len(log)
  BY CommandedNow, RunFacts
<1>3. \A i \in 1 .. Len(log) :
        /\ i \in Policy!RunStarts(new) <=> i \in Policy!RunStarts(log)
        /\ Policy!RunOf(new, i) = Policy!RunOf(log, i)
        /\ new[i] = log[i]
  BY PastStays, Appended
<1> HIDE DEF new
<1>4. Policy!RunStarts(new) = Policy!RunStarts(log)
  <2>1. Policy!RunStarts(new) \subseteq Policy!Commanded(new)
        /\ Policy!RunStarts(log) \subseteq Policy!Commanded(log)
    BY DEF Policy!RunStarts
  <2> QED BY <1>2, <1>3, <2>1
<1>5. ASSUME NEW n \in 1 .. k PROVE Policy!Entry(new, n) = Policy!Entry(log, n)
  <2>1. Policy!Run(new, n) = Policy!Run(log, n)
    BY <1>2, <1>3 DEF Policy!Run
  <2>2. Policy!Run(log, n) # {}
    BY <1>1, StatisticsLength, RunsNotEmpty
  <2> QED BY <2>1, <2>2, EntryStays DEF new
<1>6. Policy!Statistics(new) = Policy!Statistics(log)
  BY <1>4, <1>5, SameCardinality DEF Policy!Statistics
<1> QED BY <1>1, <1>2, <1>3, <1>6 DEF EntriesAreRuns, new

(* A command opens a run exactly when the code opens an entry for it. *)
LEMMA RunOpensWithEntry ==
  ASSUME NEW log \in Seq(Accepted), NEW stats \in Seq(Entries),
         EntriesAreRuns(stats, log), NEW e \in Accepted, e.phase # None
  PROVE  Len(log) + 1 \in Policy!RunStarts(Append(log, e)) <=>
            ~ (stats # <<>> /\ stats[Len(stats)].phase = e.phase)
<1> DEFINE new == Append(log, e)
           last == Len(log) + 1
           C == Policy!Commanded(log)
           S == Policy!RunStarts(log)
<1>1. /\ stats = Policy!Statistics(log)
      /\ \A i \in C : /\ Policy!RunOf(log, i) \in 1 .. Len(stats)
                      /\ stats[Policy!RunOf(log, i)].phase = log[i].phase
  BY DEF EntriesAreRuns
<1>2. C \subseteq 1 .. Len(log) /\ S \subseteq C /\ IsFiniteSet(C) /\ Len(log) \in Nat
  BY RunFacts, LenProperties
<1>3. Policy!Commanded(new) = C \cup {last}
  BY CommandedNow
<1>4. new[last] = e /\ \A i \in 1 .. Len(log) : new[i] = log[i]
  BY Appended
<1>5. last \in Policy!RunStarts(new) <=>
         \A j \in C : (\A k \in C : ~(j < k)) => log[j].phase # e.phase
  <2> DEFINE D == Policy!Commanded(new)
  <2>1. last \in Policy!RunStarts(new) <=>
           last \in D /\ \A j \in D :
             j < last /\ (\A k \in D : ~(j < k /\ k < last))
                 => new[j].phase # new[last].phase
    BY DEF Policy!RunStarts
  <2>2. \A j \in C : j < last /\ new[j] = log[j]
    BY <1>2, <1>4
  <2>3. ~(last < last)
    BY <1>2
  <2> HIDE DEF D, C, new, last
  <2> QED BY <1>3, <1>4, <2>1, <2>2, <2>3 DEF D
<1>6. Len(stats) = Cardinality(S) /\ Len(stats) \in Nat
  BY <1>1, StatisticsLength
<1>7. stats # <<>> <=> Len(stats) # 0
  BY EmptySeq
<1>8. CASE C = {}
  <2>1. Len(stats) = 0
    <3>1. S = {}
      BY <1>2, <1>8
    <3> QED BY <1>6, <3>1, FS_EmptySet
  <2> QED BY <1>5, <1>7, <1>8, <2>1
<1>9. CASE C # {}
  <2>1. PICK j \in C : \A k \in C : k <= j
    <3> DEFINE T == {n \in Nat : \A k \in C : k <= n}
    <3>1. Len(log) \in T
      BY <1>2
    <3>2. T \subseteq Nat /\ T # {}
      BY <3>1
    <3> HIDE DEF T
    <3>3. Policy!Min(T) \in T /\ \A n \in T : Policy!Min(T) <= n
      BY <3>2, LeastElement
    <3> DEFINE m == Policy!Min(T)
    <3>4. m \in Nat /\ (\A k \in C : k <= m) /\ (m - 1 \in Nat => m - 1 \notin T)
      <4>1. m \in T
        BY <3>3
      <4>2. m - 1 \in T => m <= m - 1
        BY <3>3
      <4>3. m \in Nat /\ \A k \in C : k <= m
        BY <4>1 DEF T
      <4> HIDE DEF m
      <4> QED BY <4>2, <4>3
    <3> HIDE DEF m
    <3>5. PICK i \in C : TRUE
      BY <1>9
    <3>6. m \in C
      <4> SUFFICES ASSUME m \notin C PROVE FALSE
        OBVIOUS
      <4>1. \A k \in C : k \in Nat /\ k >= 1 /\ k <= m - 1
        BY <1>2, <3>4
      <4>2. m - 1 \in Nat
        BY <3>4, <3>5, <4>1
      <4>3. m - 1 \in T
        BY <4>1, <4>2 DEF T
      <4> QED BY <3>4, <4>2, <4>3
    <3> QED BY <3>4, <3>6
  <2>2. {i \in S : i <= j} = S
    BY <1>2, <2>1
  <2>3. Policy!RunOf(log, j) = Cardinality(S)
    BY <2>2, SameCardinality DEF Policy!RunOf
  <2>4. stats[Len(stats)].phase = log[j].phase /\ Len(stats) # 0
    <3> HIDE DEF C, S
    <3> QED BY <1>1, <1>6, <2>1, <2>3
  <2>5. \A k \in C : ~(j < k) /\ (k # j => k < j)
    BY <1>2, <2>1
  <2> HIDE DEF C, S, new, last
  <2>6. last \in Policy!RunStarts(new) <=> log[j].phase # e.phase
    BY <1>5, <2>1, <2>5
  <2> QED BY <1>7, <2>4, <2>6 DEF new, last
<1> QED BY <1>8, <1>9

(* The command joins the last run, which may be a new one. *)
LEMMA RunsNow ==
  ASSUME NEW log \in Seq(Accepted), NEW e \in Accepted, e.phase # None
  PROVE  LET new == Append(log, e)
             k == Cardinality(Policy!RunStarts(new))
         IN  \A n : Policy!Run(new, n) =
               IF n = k THEN Policy!Run(log, n) \cup {Len(log) + 1} ELSE Policy!Run(log, n)
<1> DEFINE new == Append(log, e)
           last == Len(log) + 1
           k == Cardinality(Policy!RunStarts(new))
           C == Policy!Commanded(log)
<1>1. Policy!Commanded(new) = C \cup {last} /\ C \subseteq 1 .. Len(log)
  BY CommandedNow, RunFacts
<1>2. \A i \in C : Policy!RunOf(new, i) = Policy!RunOf(log, i)
  BY <1>1, PastStays
<1>3. Policy!RunOf(new, last) = k
  BY CommandRuns
<1> HIDE DEF new, k, last, C
<1>4. \A n : Policy!Run(new, n) =
         IF n = k THEN Policy!Run(log, n) \cup {last} ELSE Policy!Run(log, n)
  BY <1>1, <1>2, <1>3 DEF Policy!Run, C
<1> QED BY <1>4 DEF new, k, last

LEMMA StatisticsAre ==
  ASSUME NEW log \in Seq(Accepted), NEW stats \in Seq(Entries),
         Len(stats) = Cardinality(Policy!RunStarts(log)),
         \A n \in 1 .. Len(stats) : stats[n] = Policy!Entry(log, n)
  PROVE  stats = Policy!Statistics(log)
<1>1. stats = [n \in 1 .. Len(stats) |-> stats[n]]
  OBVIOUS
<1>2. Policy!Statistics(log) = [n \in 1 .. Len(stats) |-> Policy!Entry(log, n)]
  BY SameCardinality DEF Policy!Statistics
<1> QED BY <1>1, <1>2

LEMMA ContinueKeepsRuns ==
  ASSUME NEW log \in Seq(Accepted), NEW stats \in Seq(Entries), NEW stats2 \in Seq(Entries),
         EntriesAreRuns(stats, log),
         \A i \in 1 .. Len(stats) : stats[i].deviation.count > 0,
         NEW e \in Accepted, e.phase \in Phases,
         stats # <<>>, stats[Len(stats)].phase = e.phase,
         Continued(stats, stats2),
         stats2[Len(stats)].deviation =
            AddDiff(stats[Len(stats)].deviation, e.phase.value - e.meterage)
  PROVE  EntriesAreRuns(stats2, Append(log, e))
<1> DEFINE new == Append(log, e)
           last == Len(log) + 1
           L == Len(stats)
<1>1. /\ stats = Policy!Statistics(log)
      /\ \A i \in Policy!Commanded(log) :
            /\ Policy!RunOf(log, i) \in 1 .. L
            /\ stats[Policy!RunOf(log, i)].phase = log[i].phase
  BY DEF EntriesAreRuns
<1>2. e.phase # None
  BY NoPhaseAssumption
<1>3. L = Cardinality(Policy!RunStarts(log)) /\ L \in Nat /\ L # 0
      /\ \A n \in 1 .. L : stats[n] = Policy!Entry(log, n)
  BY <1>1, StatisticsLength, EmptySeq
<1>4. last \notin Policy!RunStarts(new)
  BY <1>2, RunOpensWithEntry
<1>5. Cardinality(Policy!RunStarts(new)) = L /\ Policy!RunOf(new, last) = L
  BY <1>2, <1>3, <1>4, CommandRuns
<1>6. \A n : Policy!Run(new, n) =
         IF n = L THEN Policy!Run(log, n) \cup {last} ELSE Policy!Run(log, n)
  BY <1>2, <1>5, RunsNow
<1>7. \A n \in 1 .. L : Policy!Run(log, n) # {}
  BY <1>1, RunsNotEmpty
<1>8. /\ Len(stats2) = L
      /\ \A i \in 1 .. L - 1 : stats2[i] = stats[i]
      /\ stats2[L].phase = stats[L].phase
      /\ stats2[L].firstTimeStamp = stats[L].firstTimeStamp
  BY DEF Continued
<1>9. new \in Seq(Accepted) /\ L \in 1 .. L
  BY <1>3
<1>10. ASSUME NEW n \in 1 .. L PROVE stats2[n] = Policy!Entry(new, n)
  <2>1. CASE n = L
    <3> DEFINE old == Policy!Entry(log, n)
    <3>1. Policy!Entry(new, n) =
            [phase |-> old.phase, firstTimeStamp |-> old.firstTimeStamp,
             deviation |-> AddDiff(old.deviation, e.phase.value - e.meterage)]
      BY <1>6, <1>7, <2>1, EntryGrows
    <3>2. old = stats[L]
      BY <1>3, <2>1
    <3>3. stats2[L] \in Entries
      BY <1>8, <1>9
    <3>4. stats2[L] = [phase |-> stats2[L].phase, firstTimeStamp |-> stats2[L].firstTimeStamp,
                       deviation |-> stats2[L].deviation]
      BY <3>3 DEF Entries
    <3> HIDE DEF old, new
    <3> QED BY <1>8, <2>1, <3>1, <3>2, <3>4
  <2>2. CASE n # L
    <3>1. Policy!Entry(new, n) = Policy!Entry(log, n)
      BY <1>6, <1>7, <2>2, EntryStays
    <3>2. n \in 1 .. L - 1
      BY <1>3, <2>2
    <3> QED BY <1>3, <1>8, <3>1, <3>2
  <2> QED BY <2>1, <2>2
<1> HIDE DEF new
<1>11. stats2 = Policy!Statistics(new)
  BY <1>5, <1>8, <1>9, <1>10, StatisticsAre
<1>12. ASSUME NEW i \in Policy!Commanded(new)
       PROVE  /\ Policy!RunOf(new, i) \in 1 .. Len(stats2)
              /\ stats2[Policy!RunOf(new, i)].phase = new[i].phase
  <2>1. Policy!Commanded(new) = Policy!Commanded(log) \cup {last}
        /\ Policy!Commanded(log) \subseteq 1 .. Len(log)
    BY <1>2, CommandedNow, RunFacts DEF new
  <2>2. CASE i = last
    <3>1. new[i] = e
      BY <2>2, Appended DEF new
    <3> QED BY <1>5, <1>8, <1>9, <2>2, <3>1
  <2>3. CASE i \in Policy!Commanded(log)
    <3>1. Policy!RunOf(new, i) = Policy!RunOf(log, i) /\ new[i] = log[i]
      BY <2>1, <2>3, PastStays, Appended DEF new
    <3>2. \A n \in 1 .. L : stats2[n].phase = stats[n].phase
      <4>1. \A n \in 1 .. L : n = L \/ n \in 1 .. L - 1
        BY <1>3
      <4> QED BY <1>8, <4>1
    <3> HIDE DEF L
    <3> QED BY <1>1, <1>8, <2>3, <3>1, <3>2
  <2> QED BY <2>1, <2>2, <2>3
<1> QED BY <1>11, <1>12 DEF EntriesAreRuns, new

LEMMA OpenKeepsRuns ==
  ASSUME NEW log \in Seq(Accepted), NEW stats \in Seq(Entries),
         EntriesAreRuns(stats, log),
         \A i \in 1 .. Len(stats) : stats[i].deviation.count > 0,
         NEW e \in Accepted, e.phase \in Phases,
         ~ (stats # <<>> /\ stats[Len(stats)].phase = e.phase),
         NEW entry \in Entries,
         entry = [phase |-> e.phase, firstTimeStamp |-> e.timeStamp,
                  deviation |-> AddDiff(NoDiffs, e.phase.value - e.meterage)]
  PROVE  EntriesAreRuns(Append(stats, entry), Append(log, e))
<1> DEFINE new == Append(log, e)
           last == Len(log) + 1
           L == Len(stats)
           stats2 == Append(stats, entry)
<1>1. /\ stats = Policy!Statistics(log)
      /\ \A i \in Policy!Commanded(log) :
            /\ Policy!RunOf(log, i) \in 1 .. L
            /\ stats[Policy!RunOf(log, i)].phase = log[i].phase
  BY DEF EntriesAreRuns
<1>2. e.phase # None
  BY NoPhaseAssumption
<1>3. L = Cardinality(Policy!RunStarts(log)) /\ L \in Nat
      /\ \A n \in 1 .. L : stats[n] = Policy!Entry(log, n)
  BY <1>1, StatisticsLength
<1>4. last \in Policy!RunStarts(new)
  BY <1>2, RunOpensWithEntry
<1>5. Cardinality(Policy!RunStarts(new)) = L + 1 /\ Policy!RunOf(new, last) = L + 1
  BY <1>2, <1>3, <1>4, CommandRuns
<1>6. \A n : Policy!Run(new, n) =
         IF n = L + 1 THEN Policy!Run(log, n) \cup {last} ELSE Policy!Run(log, n)
  BY <1>2, <1>5, RunsNow
<1>7. Policy!Run(log, L + 1) = {}
  <2>1. \A i \in Policy!Commanded(log) : Policy!RunOf(log, i) # L + 1
    BY <1>1, <1>3
  <2> QED BY <2>1 DEF Policy!Run
<1>8. \A n \in 1 .. L : Policy!Run(log, n) # {}
  BY <1>1, RunsNotEmpty
<1>9. /\ stats2 \in Seq(Entries) /\ new \in Seq(Accepted)
      /\ Len(stats2) = L + 1
      /\ \A i \in 1 .. L : stats2[i] = stats[i]
      /\ stats2[L + 1] = entry
  BY AppendProperties
<1>10. \A n \in 1 .. L + 1 : n = L + 1 \/ n \in 1 .. L
  BY <1>3
<1> HIDE DEF stats2
<1>11. ASSUME NEW n \in 1 .. L + 1 PROVE stats2[n] = Policy!Entry(new, n)
  <2>1. CASE n = L + 1
    <3>1. Policy!Run(new, n) = {last}
      BY <1>6, <1>7, <2>1
    <3>2. Policy!Entry(new, n) = entry
      BY <3>1, EntryOpens
    <3> QED BY <1>9, <2>1, <3>2
  <2>2. CASE n \in 1 .. L
    <3>1. n # L + 1
      BY <1>3, <2>2
    <3>2. Policy!Entry(new, n) = Policy!Entry(log, n)
      BY <1>6, <1>8, <2>2, <3>1, EntryStays
    <3> QED BY <1>3, <1>9, <2>2, <3>2
  <2> QED BY <1>10, <2>1, <2>2
<1> HIDE DEF new
<1>12. stats2 = Policy!Statistics(new)
  BY <1>5, <1>9, <1>11, StatisticsAre
<1>13. ASSUME NEW i \in Policy!Commanded(new)
       PROVE  /\ Policy!RunOf(new, i) \in 1 .. Len(stats2)
              /\ stats2[Policy!RunOf(new, i)].phase = new[i].phase
  <2>1. Policy!Commanded(new) = Policy!Commanded(log) \cup {last}
        /\ Policy!Commanded(log) \subseteq 1 .. Len(log)
    BY <1>2, CommandedNow, RunFacts DEF new
  <2>2. CASE i = last
    <3>1. new[i] = e
      BY <2>2, Appended DEF new
    <3>2. L + 1 \in 1 .. L + 1
      BY <1>3
    <3> QED BY <1>5, <1>9, <2>2, <3>1, <3>2
  <2>3. CASE i \in Policy!Commanded(log)
    <3>1. Policy!RunOf(new, i) = Policy!RunOf(log, i) /\ new[i] = log[i]
      BY <2>1, <2>3, PastStays, Appended DEF new
    <3>2. Policy!RunOf(log, i) \in 1 .. L + 1
      BY <1>1, <1>3, <2>3
    <3> HIDE DEF L
    <3> QED BY <1>1, <1>9, <2>3, <3>1, <3>2
  <2> QED BY <2>1, <2>2, <2>3
<1> QED BY <1>12, <1>13 DEF EntriesAreRuns, new, stats2

LEMMA InitStatsInv == HistoryInit => StatsInv
<1> SUFFICES ASSUME HistoryInit, NEW d \in Devices
             PROVE  EntriesAreRuns(deviationStats[d], journal[d])
  BY DEF StatsInv
<1>1. deviationStats[d] = <<>> /\ journal[d] = <<>>
  BY DEF HistoryInit, Init
<1>2. Policy!Commanded(<<>>) = {}
  BY DEF Policy!Commanded
<1>3. Policy!RunStarts(<<>>) = {}
  BY <1>2 DEF Policy!RunStarts
<1>4. <<>> \in Seq(Accepted) /\ <<>> \in Seq(Entries) /\ Len(<<>>) = 0
  OBVIOUS
<1>5. Cardinality(Policy!RunStarts(<<>>)) = 0
  BY <1>3, FS_EmptySet
<1> DEFINE none == <<>>
<1>6. none \in Seq(Accepted) /\ none \in Seq(Entries)
      /\ Len(none) = Cardinality(Policy!RunStarts(none))
      /\ \A n \in 1 .. Len(none) : none[n] = Policy!Entry(none, n)
  BY <1>4, <1>5
<1> HIDE DEF none
<1>7. none = Policy!Statistics(none)
  BY <1>6, StatisticsAre
<1> QED BY <1>1, <1>2, <1>7 DEF EntriesAreRuns, none

LEMMA NextStatsInv ==
  TypeOK /\ BufferOfLastEntry /\ JournalInv /\ StatsInv /\ [HistoryNext]_historyVars
    => StatsInv'
<1> SUFFICES ASSUME TypeOK, BufferOfLastEntry, JournalInv, StatsInv,
                    [HistoryNext]_historyVars, NEW d \in Devices
             PROVE  EntriesAreRuns(deviationStats'[d], journal'[d])
  BY DEF StatsInv
<1> DEFINE log == journal[d]
           stats == deviationStats[d]
<1>1. /\ log \in Seq(Accepted) /\ stats \in Seq(Entries)
      /\ EntriesAreRuns(stats, log)
      /\ \A i \in 1 .. Len(stats) : stats[i].deviation.count > 0
      /\ stats # <<>> => stats[Len(stats)].deviation = squareDiffs[d]
  BY DEF TypeOK, BufferOfLastEntry, JournalInv, StatsInv, Entries
<1>2. stats' \in Seq(Entries)
  <2>1. TypeOK'
    BY HistoryStepIsStep, NextTypeOK
  <2> QED BY <2>1 DEF TypeOK, Entries
<1>3. CASE deviationStats'[d] = stats /\ journal'[d] = log
  BY <1>1, <1>3
<1>4. ASSUME NEW c \in Devices, NEW t \in TimeStamps, NEW m \in Meterages,
             NEW phase \in Phases \cup {None}, Record(c, t, m, phase)
      PROVE  /\ c # d => journal'[d] = log
             /\ c = d => journal'[d] = Append(log, Recorded(t, m, phase))
             /\ Recorded(t, m, phase) \in Accepted
  BY <1>4 DEF Record, Recorded, JournalInv, Accepted
<1>5. ASSUME NEW c \in Devices, NEW t \in TimeStamps, NEW m \in Meterages,
             Record(c, t, m, None), deviationStats' = deviationStats
      PROVE  EntriesAreRuns(deviationStats'[d], journal'[d])
  <2> DEFINE e == Recorded(t, m, None)
  <2>1. e \in Accepted /\ e.phase = None
    BY <1>4, <1>5 DEF Recorded
  <2>2. CASE c = d
    <3> HIDE DEF e, log, stats
    <3>1. EntriesAreRuns(stats, Append(log, e))
      BY <1>1, <2>1, IdleKeepsRuns
    <3>2. journal'[d] = Append(log, e)
      BY <1>4, <1>5, <2>2 DEF e
    <3> QED BY <1>5, <3>1, <3>2 DEF stats
  <2>3. CASE c # d
    BY <1>1, <1>4, <1>5, <2>3
  <2> QED BY <2>2, <2>3
<1>6. ASSUME NEW c \in Devices, NEW t \in TimeStamps, NEW m \in Meterages,
             AnswerCommand(c, t, m), Record(c, t, m, phases[c][currentPhaseIndex'[c]])
      PROVE  EntriesAreRuns(deviationStats'[d], journal'[d])
  <2>1. PICK k \in 1 .. Len(phases[c]) :
               /\ AdvanceTo(c, t, k)
               /\ \/ ContinueStats(c, phases[c][k], phases[c][k].value - m)
                  \/ OpenStats(c, phases[c][k], t, phases[c][k].value - m)
    BY <1>6 DEF AnswerCommand
  <2> DEFINE phase == phases[c][k]
             e == Recorded(t, m, phase)
             diff == phase.value - m
  <2>2. currentPhaseIndex'[c] = k /\ phases[c] \in Seq(Phases)
    BY <2>1 DEF AdvanceTo, TypeOK
  <2>3. phase \in Phases
    BY <2>2, PlanElements
  <2>4. diff \in Int
    BY <2>3, Difference
  <2> HIDE DEF phase
  <2>5. /\ Record(c, t, m, phase)
        /\ ContinueStats(c, phase, diff) \/ OpenStats(c, phase, t, diff)
    BY <1>6, <2>1, <2>2 DEF phase
  <2> HIDE DEF diff
  <2>6. /\ e \in Accepted
        /\ c # d => journal'[d] = log
        /\ c = d => journal'[d] = Append(log, e)
    BY <1>4, <2>3, <2>5
  <2>7. e.phase = phase /\ e.meterage = m /\ e.timeStamp = t
        /\ e.phase.value - e.meterage = diff
    BY DEF Recorded, diff
  <2>8. CASE c # d
    <3>1. deviationStats'[d] = stats
      BY <2>3, <2>4, <2>5, <2>8, ContinueStatsEffect, OpenStatsEffect
    <3> QED BY <1>3, <2>6, <2>8, <3>1
  <2>9. CASE c = d /\ ContinueStats(c, phase, diff)
    <3>1. stats # <<>> /\ stats[Len(stats)].phase = e.phase
      BY <2>7, <2>9 DEF ContinueStats, StatsContinue
    <3> DEFINE stats2 == deviationStats'[d]
    <3>2. /\ Continued(stats, stats2)
          /\ stats2[Len(stats)].deviation = AddDiff(squareDiffs[d], diff)
      BY <2>3, <2>4, <2>9, ContinueStatsEffect
    <3>3. stats2 \in Seq(Entries)
      BY <1>2
    <3> HIDE DEF stats, stats2, log, e
    <3>4. stats2[Len(stats)].deviation =
             AddDiff(stats[Len(stats)].deviation, e.phase.value - e.meterage)
      BY <1>1, <2>7, <3>1, <3>2
    <3>5. e.phase \in Phases
      BY <2>3, <2>7
    <3>6. EntriesAreRuns(stats2, Append(log, e))
      BY <1>1, <2>6, <3>1, <3>2, <3>3, <3>4, <3>5, ContinueKeepsRuns
    <3> QED BY <2>6, <2>9, <3>6 DEF stats2
  <2>10. CASE c = d /\ OpenStats(c, phase, t, diff)
    <3>1. ~ (stats # <<>> /\ stats[Len(stats)].phase = e.phase)
      BY <2>7, <2>10 DEF OpenStats, StatsContinue
    <3> DEFINE entry == [phase |-> phase, firstTimeStamp |-> t,
                         deviation |-> AddDiff(NoDiffs, diff)]
    <3>2. entry \in Entries
      BY <2>3, <2>4, AddDiffType, NoDiffsType DEF Entries
    <3>3. entry = [phase |-> e.phase, firstTimeStamp |-> e.timeStamp,
                   deviation |-> AddDiff(NoDiffs, e.phase.value - e.meterage)]
      BY <2>7
    <3>4. deviationStats'[d] = Append(stats, entry)
      BY <2>10 DEF OpenStats, TypeOK
    <3>5. e.phase \in Phases
      BY <2>3, <2>7
    <3> HIDE DEF stats, log, e, entry
    <3>6. EntriesAreRuns(Append(stats, entry), Append(log, e))
      BY <1>1, <2>6, <3>1, <3>2, <3>3, <3>5, OpenKeepsRuns
    <3> QED BY <2>6, <2>10, <3>4, <3>6
  <2> QED BY <2>5, <2>8, <2>9, <2>10
<1>7. CASE UNCHANGED historyVars
  BY <1>3, <1>7 DEF historyVars
<1>8. ASSUME NEW c \in Devices, NEW s \in Schedules,
             SetSchedule(c, s), UNCHANGED journal
      PROVE  EntriesAreRuns(deviationStats'[d], journal'[d])
  BY <1>3, <1>8 DEF SetSchedule
<1>9. ASSUME NEW c \in Devices, NEW t \in TimeStamps, NEW m \in Meterages,
             HistoryProcess(c, t, m)
      PROVE  EntriesAreRuns(deviationStats'[d], journal'[d])
  <2>1. CASE AnswerObsolete(c, t, m) /\ UNCHANGED journal
    BY <1>3, <2>1 DEF AnswerObsolete
  <2>2. CASE /\ AnswerNoSchedule(c, t, m) \/ AnswerNoTimestamp(c, t, m)
             /\ Record(c, t, m, None)
    BY <1>5, <2>2 DEF AnswerNoSchedule, AnswerNoTimestamp
  <2>3. CASE /\ AnswerCommand(c, t, m)
             /\ Record(c, t, m, phases[c][currentPhaseIndex'[c]])
    BY <1>6, <2>3
  <2> QED BY <1>9, <2>1, <2>2, <2>3 DEF HistoryProcess
<1> QED BY <1>7, <1>8, <1>9 DEF HistoryNext

(* The statistics are those of the whole past: one entry for every maximal   *)
(* run of commands that served one phase, with the deviation of exactly its  *)
(* meterages, although the code adds them up one at a time, clears one       *)
(* buffer between runs and replaces plans in between                         *)
(* (command_center.cpp:18-26, 64-76).                                        *)
THEOREM StatisticsAreOfRuns == HistorySpec => []StatsAreRuns
<1>1. HistoryInit => BufferOfLastEntry /\ StatsInv
  BY InitBufferOfLastEntry, InitStatsInv DEF HistoryInit
<1>2. HistoryInv /\ BufferOfLastEntry /\ StatsInv /\ [HistoryNext]_historyVars
        => (BufferOfLastEntry /\ StatsInv)'
  BY HistoryStepIsStep, NextBufferOfLastEntry, NextStatsInv DEF HistoryInv
<1>3. StatsInv => StatsAreRuns
  BY DEF StatsInv, EntriesAreRuns, StatsAreRuns
<1> QED BY <1>1, <1>2, <1>3, HistoryInvariant, PTL DEF HistorySpec
==============================================================================
