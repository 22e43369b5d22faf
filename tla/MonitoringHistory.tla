--------------------------- MODULE MonitoringHistory ---------------------------
(***************************************************************************)
(* The program with the history variable "lastOrigin": which meterage of   *)
(* which device gave the command centre the time stamp it keeps for an     *)
(* identifier.  The code does not remember that, so that a device may be   *)
(* measured by the clock of another one, or of its own past.               *)
(***************************************************************************)
EXTENDS Monitoring

(* An identifier without a filed meterage is told from the others.         *)
ASSUME NoOriginAssumption == None \notin Origins

VARIABLE lastOrigin     \* [ClientIds -> origin of the meterage filed last, or None]

historyVars == <<vars, lastOrigin>>
-----------------------------------------------------------------------------
HistoryInit == Init /\ lastOrigin = [d \in ClientIds |-> None]

ObsoleteAnswer == Center!MessageError("Obsolete")

(* Every answer but "Obsolete" comes after the meterage was filed.         *)
Files(d) ==
    /\ ServerReceives
    /\ peerId[Receiver] = d
    /\ answered'.message # ObsoleteAnswer

(* The command centre is gone with the server. *)
HistoryNext ==
    /\ Next
    /\ lastOrigin' = [d \in ClientIds |->
                        IF servers' = {} THEN None
                        ELSE IF Files(d) THEN Text.origin
                        ELSE lastOrigin[d]]

HistorySpec == HistoryInit /\ [][HistoryNext]_historyVars

(* The driver of the program empties the queue: while (processTask()) ;    *)
FairSpec == HistorySpec /\ WF_vars(ProcessTask)
-----------------------------------------------------------------------------
(* A device is told "Obsolete" only for a reason: the time stamp in its way  *)
(* was left under its identifier by another device, or by an earlier list of *)
(* its own, since setMeterages starts again at 0.  Neither its own exchanges *)
(* nor devices under other identifiers nor a former server are ever in its   *)
(* way (command_center.cpp:30-38, devicemock.cpp:122-126, 143-161).          *)
ObsoleteForAReason ==
    [][ServerReceives
         /\ answered'.message = ObsoleteAnswer
         /\ Text.origin.device \in clients =>
            LET last == lastOrigin[clientId[Text.origin.device]]
            IN  /\ last # None
                /\ last.timeStamp >= Text.origin.timeStamp
                /\ \/ last.device # Text.origin.device
                   \/ last.list < Text.origin.list]_historyVars
=============================================================================
