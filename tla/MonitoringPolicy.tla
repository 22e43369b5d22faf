-------------------------- MODULE MonitoringPolicy --------------------------
(***************************************************************************)
(* What the command centre promises to a device (README.md section 7 of    *)
(* the repository), without the data structures that keep the promise: no  *)
(* sorted vector, no cursor into it, no buffer of squared differences.     *)
(* A plan is a set of phases, and the journal remembers every meterage     *)
(* that was accepted with the phase it was compared to.                    *)
(***************************************************************************)
EXTENDS DeviceMessages, SequencesExt

CONSTANT Schedules    \* work plans that may be assigned

VARIABLES
    plan,       \* [Devices -> set of phases]
    journal,    \* [Devices -> sequence of accepted meterages]
    answered    \* the last meterage with its answer, None after a new plan

policyVars == <<plan, journal, answered>>

Answer(d, t, m, message) ==
    [deviceId |-> d, meterage |-> MessageMeterage(t, m), message |-> message]

(* The phases that rule time t: the latest of those that have started.     *)
(* They are several when a plan has two phases with one time stamp.        *)
InForce(P, t) ==
    {p \in P : /\ p.timeStamp <= t
               /\ \A q \in P : q.timeStamp <= t => q.timeStamp <= p.timeStamp}

Outdated(d, t) ==
    \E i \in DOMAIN journal[d] : journal[d][i].timeStamp >= t

Accept(d, t, m, phase) ==
    journal' = [journal EXCEPT ![d] =
                  Append(@, [timeStamp |-> t, meterage |-> m, phase |-> phase])]
-----------------------------------------------------------------------------
Init == /\ plan = [d \in Devices |-> {}]
        /\ journal = [d \in Devices |-> <<>>]
        /\ answered = None

Assign(d, P) == /\ plan' = [plan EXCEPT ![d] = P]
                /\ answered' = None
                /\ UNCHANGED journal

AnswerObsolete(d, t, m) ==
    /\ Outdated(d, t)
    /\ answered' = Answer(d, t, m, MessageError("Obsolete"))
    /\ UNCHANGED <<plan, journal>>

AnswerNoSchedule(d, t, m) ==
    /\ ~Outdated(d, t)
    /\ plan[d] = {}
    /\ Accept(d, t, m, None)
    /\ answered' = Answer(d, t, m, MessageError("NoSchedule"))
    /\ UNCHANGED plan

AnswerNoTimestamp(d, t, m) ==
    /\ ~Outdated(d, t)
    /\ plan[d] # {}
    /\ \A p \in plan[d] : p.timeStamp > t
    /\ Accept(d, t, m, None)
    /\ answered' = Answer(d, t, m, MessageError("NoTimestamp"))
    /\ UNCHANGED plan

AnswerCommand(d, t, m) ==
    /\ ~Outdated(d, t)
    /\ \E p \in InForce(plan[d], t) :
          /\ Accept(d, t, m, p)
          /\ answered' = Answer(d, t, m, MessageCommand(p.value - m))
    /\ UNCHANGED plan

Next == \E d \in Devices :
           \/ \E s \in Schedules : Assign(d, Range(s))
           \/ \E t \in TimeStamps, m \in Meterages :
                 \/ AnswerObsolete(d, t, m)
                 \/ AnswerNoSchedule(d, t, m)
                 \/ AnswerNoTimestamp(d, t, m)
                 \/ AnswerCommand(d, t, m)

Spec == Init /\ [][Next]_policyVars
-----------------------------------------------------------------------------
(***************************************************************************)
(* The statistics a journal calls for: one entry for every maximal run of  *)
(* commands that served one phase, with the sum of the squared differences *)
(* to the plan and their number (the deviation is sqrt(sum / count)).      *)
(***************************************************************************)
Commanded(log) == {i \in DOMAIN log : log[i].phase # None}

(* The commands that served another phase than the command before them.    *)
RunStarts(log) ==
    {i \in Commanded(log) :
        \A j \in Commanded(log) :
            j < i /\ (\A k \in Commanded(log) : ~(j < k /\ k < i))
                => log[j].phase # log[i].phase}

RunOf(log, i) == Cardinality({j \in RunStarts(log) : j <= i})

Run(log, n) == {i \in Commanded(log) : RunOf(log, i) = n}

Squares(log) ==
    [i \in Commanded(log) |->
       (log[i].phase.value - log[i].meterage) * (log[i].phase.value - log[i].meterage)]

Entry(log, n) ==
    LET first == Min(Run(log, n))
    IN  [phase |-> log[first].phase,
         firstTimeStamp |-> log[first].timeStamp,
         deviation |-> [sum |-> SumFunctionOnSet(Squares(log), Run(log, n)),
                        count |-> Cardinality(Run(log, n))]]

Statistics(log) == [n \in 1 .. Cardinality(RunStarts(log)) |-> Entry(log, n)]
=============================================================================
