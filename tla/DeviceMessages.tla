--------------------------- MODULE DeviceMessages ---------------------------
(***************************************************************************)
(* The data that devices, server and command centre exchange: work plans   *)
(* (deviceworkschedule.h) and the three message classes (message_*.h).     *)
(* A message is a record; the byte-level form of a message is not needed   *)
(* here.                                                                   *)
(***************************************************************************)
EXTENDS Bytes

CONSTANTS
    Devices,      \* identifiers of monitored devices
    TimeStamps,   \* time stamps of phases and meterages (uint64_t)
    PlanValues,   \* target values a phase may ask for (uint8_t)
    Meterages,    \* values a device may measure (uint8_t)
    None          \* stands for an absent map entry

ASSUME TimeStampsAssumption == TimeStamps \subseteq Nat
ASSUME PlanValuesAssumption == PlanValues \subseteq Byte
ASSUME MeteragesAssumption == Meterages \subseteq Byte
ASSUME NoneAssumption == None \notin TimeStamps

(* A stage of a work plan: from timeStamp on, the device must hold value. *)
Phases == [timeStamp : TimeStamps, value : PlanValues]

ErrorTypes == {"NoSchedule", "NoTimestamp", "Obsolete"}

MessageMeterage(t, m) == [type |-> "Meterage", timeStamp |-> t, meterage |-> m]

(* Mutant: the constructor of MessageCommand takes an int. *)
MessageCommandAsInt(n) == [type |-> "Command", command |-> n]

MessageCommand(n) == [type |-> "Command", command |-> Int8(n)]
MessageError(e) == [type |-> "Error", errorType |-> e]

MeterageMessages ==
    [type : {"Meterage"}, timeStamp : TimeStamps, meterage : Meterages]

(* What the server may send back to a device. *)
Replies ==
         [type : {"Command"}, command : -128 .. 127]
    \cup [type : {"Error"}, errorType : ErrorTypes]
=============================================================================
