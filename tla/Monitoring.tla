------------------------------ MODULE Monitoring ------------------------------
(***************************************************************************)
(* The whole program: DeviceMonitoringServer (devicemonitoringserver.cpp)  *)
(* and DeviceMock (devicemock.cpp) on top of the transport and the command *)
(* centre.  A device owns the client connection it was constructed with    *)
(* and is identified with it; likewise the server and its connections.     *)
(*                                                                         *)
(* A text is a message together with the algorithm that encoded it.  It is *)
(* understood by the receiver that has selected the same algorithm and by  *)
(* nobody else: that is what Codec shows of strings.  The origin of a text *)
(* is no part of the string: it remembers which meterage of which device   *)
(* the exchange is about.                                                  *)
(***************************************************************************)
EXTENDS Naturals, Sequences, FiniteSets

CONSTANTS
    Clients, Servers, ClientIds, ServerIds, Links, MaxQueue,    \* Transport
    TimeStamps, PlanValues, Meterages, Schedules,           \* CommandCenter
    None,
    Algorithms,     \* names of the algorithms a MessageEncoder knows
    Lists,          \* lists of meterages setMeterages may be given
    MaxLists,       \* bound: calls of setMeterages on one device
    MaxStarts       \* bound: calls of startMeterageSending on a busy device

ASSUME OneServer == Cardinality(Servers) = 1
ASSUME ListsAssumption ==
    Lists \subseteq Seq(Meterages) /\ None \notin Seq(Meterages)
ASSUME StampsSuffice ==
    \A list \in Lists : \A i \in DOMAIN list : i - 1 \in TimeStamps
ASSUME AlgorithmsAssumption == None \notin Algorithms
ASSUME BoundsAssumption == MaxLists \in Nat /\ MaxStarts \in Nat \ {0}

(* What Transport and CommandCenter assume of their constants.              *)
ASSUME TransportAssumption ==
    /\ Links \subseteq Nat /\ MaxQueue \in Nat /\ IsFiniteSet(ClientIds)
    /\ Clients \cap Servers = {}
    /\ None \notin Clients \cup Servers \cup ClientIds \cup ServerIds
    /\ None \notin Links \X {"client", "server"}
    /\ Cardinality(Links) >
          Cardinality(Clients) + Cardinality(Servers) * Cardinality(ClientIds)
ASSUME CenterAssumption ==
    /\ TimeStamps \subseteq Nat /\ None \notin TimeStamps
    /\ PlanValues \subseteq 0 .. 255 /\ Meterages \subseteq 0 .. 255
    /\ Schedules \subseteq Seq([timeStamp : TimeStamps, value : PlanValues])

VARIABLES
    net, clients, clientId, clientChannel, clientsMap,
    servers, serverId, connections, serversMap, owner, peerId,
    phases, currentPhaseIndex, lastTimeStamp, squareDiffs, deviationStats, answered,
    meterages,        \* DeviceMock::m_meterages, None before its construction
    timeStamp,        \* DeviceMock::m_time_stamp
    messages,         \* DeviceMock::m_messages, each with its origin
    deviceEncoder,    \* algorithm a device has selected, or None
    serverEncoder,    \* algorithm the server has selected, or None
    lists,            \* history: how often setMeterages was called
    starts            \* history: startMeterageSending since the device was idle

clientVars == <<clients, clientId, clientChannel, clientsMap>>
serverVars == <<servers, serverId, connections, serversMap>>
channelVars == <<owner, peerId>>
transportVars == <<net, clientVars, serverVars, channelVars>>
centerVars == <<phases, currentPhaseIndex, lastTimeStamp, squareDiffs,
                deviationStats, answered>>
encoderVars == <<deviceEncoder, serverEncoder>>
callVars == <<meterages, lists, starts>>
deviceVars == <<callVars, timeStamp, messages>>
vars == <<transportVars, centerVars, encoderVars, deviceVars>>

Center == INSTANCE CommandCenter WITH Devices <- ClientIds

Origins == [device : Clients, list : Nat, timeStamp : TimeStamps,
            algorithm : Algorithms \cup {None}]

Letters == [algorithm : Algorithms \cup {None}, origin : Origins,
            message : Center!MeterageMessages \cup Center!Replies]

Net == INSTANCE Transport WITH Texts <- Letters

Letter(algorithm, message, origin) ==
    [algorithm |-> algorithm, message |-> message, origin |-> origin]
-----------------------------------------------------------------------------
Init ==
    /\ Net!Init
    /\ Center!Init
    /\ meterages = [c \in Clients |-> None]
    /\ timeStamp = [c \in Clients |-> 0]
    /\ messages = [c \in Clients |-> <<>>]
    /\ deviceEncoder = [c \in Clients |-> None]
    /\ serverEncoder = None
    /\ lists = [c \in Clients |-> 0]
    /\ starts = [c \in Clients |-> 0]

(* The texts on their way to a channel that exists. *)
IsLetter(i) == net.queue[i].task = "message" /\ net.queue[i].channel # None

InFlight(c) ==
    {i \in DOMAIN net.queue : IsLetter(i) /\ net.queue[i].text.origin.device = c}
-----------------------------------------------------------------------------
(* Calls to a device. *)

(* Each object is constructed once (bound). *)
NewDevice(c) ==
    /\ meterages[c] = None
    /\ Net!NewClient(c)
    /\ meterages' = [meterages EXCEPT ![c] = <<>>]
    /\ UNCHANGED <<centerVars, encoderVars, lists, starts, timeStamp, messages>>

DeleteDevice(c) ==
    /\ Net!DeleteClient(c)
    /\ meterages' = [meterages EXCEPT ![c] = <<>>]
    /\ timeStamp' = [timeStamp EXCEPT ![c] = 0]
    /\ messages' = [messages EXCEPT ![c] = <<>>]
    /\ deviceEncoder' = [deviceEncoder EXCEPT ![c] = None]
    /\ lists' = [lists EXCEPT ![c] = 0]
    /\ starts' = [starts EXCEPT ![c] = 0]
    /\ UNCHANGED <<centerVars, serverEncoder>>

BindDevice(c, id) ==
    Net!Bind(c, id) /\ UNCHANGED <<centerVars, encoderVars, deviceVars>>

ConnectDevice(c, sid) ==
    Net!ConnectToHost(c, sid) /\ UNCHANGED <<centerVars, encoderVars, deviceVars>>

SelectDeviceEncoder(c, a) ==
    /\ c \in clients
    /\ deviceEncoder' = [deviceEncoder EXCEPT ![c] = a]
    /\ UNCHANGED <<transportVars, centerVars, serverEncoder, deviceVars>>

SetMeterages(c, list) ==
    /\ c \in clients
    /\ lists[c] < MaxLists
    /\ meterages' = [meterages EXCEPT ![c] = list]
    /\ timeStamp' = [timeStamp EXCEPT ![c] = 0]
    /\ lists' = [lists EXCEPT ![c] = @ + 1]
    /\ UNCHANGED <<transportVars, centerVars, encoderVars, starts, messages>>

NextMeterage(c) ==
    LET t == timeStamp[c]
    IN  Letter(deviceEncoder[c],
               Center!MessageMeterage(t, meterages[c][t + 1]),
               [device |-> c, list |-> lists[c], timeStamp |-> t,
                algorithm |-> deviceEncoder[c]])

(* ClientConnectionMock::sendMessage drops the text without a channel. *)
SendMessage(n, c, text) ==
    IF clientChannel[c] = None THEN n ELSE Net!Send(n, clientChannel[c], text)

ListSent(c) == meterages[c] # None /\ timeStamp[c] >= Len(meterages[c])

(* Mutant: the time stamp does not move on. *)
SendNextMeterageRepeats(n, c) ==
    /\ net' = IF ListSent(c) THEN n ELSE SendMessage(n, c, NextMeterage(c))
    /\ UNCHANGED timeStamp

(* The time stamp moves on whether the meterage was sent or dropped. *)
SendNextMeterage(n, c) ==
    \/ /\ ~ListSent(c)
       /\ net' = SendMessage(n, c, NextMeterage(c))
       /\ timeStamp' = [timeStamp EXCEPT ![c] = @ + 1]
    \/ /\ ListSent(c)
       /\ net' = n
       /\ UNCHANGED timeStamp

StartMeterageSending(c) ==
    /\ c \in clients
    /\ starts[c] < MaxStarts \/ InFlight(c) = {}
    /\ SendNextMeterage(net, c)
    /\ Net!RoomInQueue
    /\ starts' = [starts EXCEPT ![c] = IF InFlight(c) = {} THEN 1 ELSE @ + 1]
    /\ UNCHANGED <<clientVars, serverVars, channelVars, centerVars,
                   encoderVars, meterages, lists, messages>>
-----------------------------------------------------------------------------
(* Calls to the server. *)

NewMonitoringServer(s) ==
    Net!NewServer(s) /\ UNCHANGED <<centerVars, encoderVars, deviceVars>>

(* Mutant: the time stamps are kept for the next server. *)
DeleteMonitoringServerKeepsStamps(s) ==
    /\ Net!DeleteServer(s)
    /\ phases' = [d \in ClientIds |-> <<>>]
    /\ currentPhaseIndex' = [d \in ClientIds |-> 1]
    /\ squareDiffs' = [d \in ClientIds |-> Center!NoDiffs]
    /\ deviationStats' = [d \in ClientIds |-> <<>>]
    /\ answered' = None
    /\ serverEncoder' = None
    /\ UNCHANGED <<lastTimeStamp, deviceEncoder, deviceVars>>

(* The command centre and the encoder are members: they are gone with the  *)
(* server, and the next one starts with empty ones.                        *)
DeleteMonitoringServer(s) ==
    /\ Net!DeleteServer(s)
    /\ phases' = [d \in ClientIds |-> <<>>]
    /\ currentPhaseIndex' = [d \in ClientIds |-> 1]
    /\ lastTimeStamp' = [d \in ClientIds |-> None]
    /\ squareDiffs' = [d \in ClientIds |-> Center!NoDiffs]
    /\ deviationStats' = [d \in ClientIds |-> <<>>]
    /\ answered' = None
    /\ serverEncoder' = None
    /\ UNCHANGED <<deviceEncoder, deviceVars>>

ListenServer(s, sid) ==
    Net!Listen(s, sid) /\ UNCHANGED <<centerVars, encoderVars, deviceVars>>

SelectServerEncoder(a) ==
    /\ servers # {}
    /\ serverEncoder' = a
    /\ UNCHANGED <<transportVars, centerVars, deviceEncoder, deviceVars>>

SetDeviceWorkSchedule(d, schedule) ==
    /\ servers # {}
    /\ Center!SetSchedule(d, schedule)
    /\ UNCHANGED <<transportVars, encoderVars, deviceVars>>
-----------------------------------------------------------------------------
(* Tasks of the queue. *)

ProcessConnection ==
    /\ \/ Net!ConnectInVain
       \/ Net!ConnectToServer
       \/ Net!DisconnectDeleted
       \/ Net!DisconnectClientSide
       \/ Net!DisconnectServerSide
    /\ UNCHANGED <<centerVars, encoderVars, deviceVars>>

Receiver == Net!NextTask.channel
Text == Net!NextTask.text

Arrives(owners) ==
    Net!IsNext("message") /\ Receiver # None /\ owner[Receiver] \in owners

(* The message a receiver that has selected this algorithm makes of it. *)
Understood(algorithm, types) ==
    /\ algorithm # None
    /\ Text.algorithm = algorithm
    /\ Text.message.type \in types

DropMessage ==
    /\ Net!IsNext("message")
    /\ Receiver = None
    /\ Net!DeliverMessage
    /\ UNCHANGED <<centerVars, encoderVars, deviceVars>>

(* A string that is no meterage to the server is ignored. *)
ServerIgnores ==
    /\ Arrives(Servers)
    /\ ~Understood(serverEncoder, {"Meterage"})
    /\ Net!DeliverMessage
    /\ UNCHANGED <<centerVars, encoderVars, deviceVars>>

(* Mutant: the server sends the meterage back. *)
ReplyEchoes(d, n, message) ==
    Net!Send(n, connections[owner[Receiver]][d],
             Letter(serverEncoder, Text.message, Text.origin))

(* Mutant: the test of the pointer is inverted. *)
ReplyDrops(d, n, message) == n

(* sendMessage: the connection is looked up by the identifier again. *)
Reply(d, n, message) ==
    LET conn == connections[owner[Receiver]][d]
    IN  IF conn = None THEN n
        ELSE Net!Send(n, conn, Letter(serverEncoder, message, Text.origin))

(* Mutant: process_meterage goes on after the callback and calls it again. *)
ServerReceivesTwice ==
    /\ Arrives(Servers)
    /\ Understood(serverEncoder, {"Meterage"})
    /\ LET d == peerId[Receiver]
       IN  /\ Center!ProcessMeterage(d, Text.message.timeStamp, Text.message.meterage)
           /\ net' = Reply(d, Reply(d, Net!Popped, answered'.message),
                           answered'.message)
    /\ UNCHANGED <<clientVars, serverVars, channelVars, encoderVars, deviceVars>>

(* Mutant: a meterage is understood whatever algorithm encoded it. *)
ServerReceivesUndecoded ==
    /\ Arrives(Servers)
    /\ serverEncoder # None
    /\ LET d == peerId[Receiver]
       IN  /\ Center!ProcessMeterage(d, Text.message.timeStamp, Text.message.meterage)
           /\ net' = Reply(d, Net!Popped, answered'.message)
    /\ UNCHANGED <<clientVars, serverVars, channelVars, encoderVars, deviceVars>>

(* The handler of the connection has kept the identifier of its peer. *)
ServerReceives ==
    /\ Arrives(Servers)
    /\ Understood(serverEncoder, {"Meterage"})
    /\ LET d == peerId[Receiver]
       IN  /\ Center!ProcessMeterage(d, Text.message.timeStamp, Text.message.meterage)
           /\ net' = Reply(d, Net!Popped, answered'.message)
    /\ UNCHANGED <<clientVars, serverVars, channelVars, encoderVars, deviceVars>>

(* An answer that is not understood: the exception leaves processTask, and *)
(* the device does nothing more.                                           *)
DeviceThrows ==
    /\ Arrives(Clients)
    /\ ~Understood(deviceEncoder[owner[Receiver]], {"Command", "Error"})
    /\ Net!DeliverMessage
    /\ UNCHANGED <<centerVars, encoderVars, deviceVars>>

(* Mutant: the device sends nothing after an error. *)
DeviceReceivesStopsOnError ==
    /\ Arrives(Clients)
    /\ LET c == owner[Receiver]
       IN  /\ Understood(deviceEncoder[c], {"Command", "Error"})
           /\ messages' = [messages EXCEPT ![c] =
                Append(@, [message |-> Text.message, origin |-> Text.origin])]
           /\ IF Text.message.type = "Command"
              THEN SendNextMeterage(Net!Popped, c)
              ELSE net' = Net!Popped /\ UNCHANGED timeStamp
    /\ UNCHANGED <<clientVars, serverVars, channelVars, centerVars, encoderVars, callVars>>

DeviceReceives ==
    /\ Arrives(Clients)
    /\ LET c == owner[Receiver]
       IN  /\ Understood(deviceEncoder[c], {"Command", "Error"})
           /\ messages' = [messages EXCEPT ![c] =
                Append(@, [message |-> Text.message, origin |-> Text.origin])]
           /\ SendNextMeterage(Net!Popped, c)
    /\ UNCHANGED <<clientVars, serverVars, channelVars, centerVars, encoderVars, callVars>>

ProcessTask ==
    \/ ProcessConnection
    \/ DropMessage
    \/ ServerIgnores
    \/ ServerReceives
    \/ DeviceThrows
    \/ DeviceReceives
-----------------------------------------------------------------------------
DeviceCall(c) ==
    \/ NewDevice(c)
    \/ DeleteDevice(c)
    \/ \E id \in ClientIds : BindDevice(c, id)
    \/ \E sid \in ServerIds : ConnectDevice(c, sid)
    \/ \E a \in Algorithms : SelectDeviceEncoder(c, a)
    \/ \E list \in Lists : SetMeterages(c, list)
    \/ StartMeterageSending(c)

MonitoringServerCall(s) ==
    \/ NewMonitoringServer(s)
    \/ DeleteMonitoringServer(s)
    \/ \E sid \in ServerIds : ListenServer(s, sid)

Next ==
    \/ \E c \in Clients : DeviceCall(c)
    \/ \E s \in Servers : MonitoringServerCall(s)
    \/ \E a \in Algorithms : SelectServerEncoder(a)
    \/ \E d \in ClientIds, s \in Schedules : SetDeviceWorkSchedule(d, s)
    \/ ProcessTask

Spec == Init /\ [][Next]_vars
-----------------------------------------------------------------------------
(* Every variable holds what its C++ type and the calls above can put there; *)
(* only meterages travel to the server, and only answers to a device.        *)
TypeOK ==
    /\ Net!TypeOK
    /\ Center!TypeOK
    /\ meterages \in [Clients -> Lists \cup {<<>>, None}]
    /\ timeStamp \in [Clients -> Nat]
    /\ messages \in [Clients -> Seq([message : Center!Replies, origin : Origins])]
    /\ deviceEncoder \in [Clients -> Algorithms \cup {None}]
    /\ serverEncoder \in Algorithms \cup {None}
    /\ lists \in [Clients -> 0 .. MaxLists]
    /\ starts \in [Clients -> 0 .. MaxStarts]
    /\ \A i \in DOMAIN net.queue : IsLetter(i) =>
          (net.queue[i].text.message.type = "Meterage"
              <=> net.queue[i].channel[2] = "server")

(* An answer is addressed by an identifier that other devices may bind, and  *)
(* it waits in the queue while devices are deleted and created.  It reaches  *)
(* the device that measured, or nobody (devicemonitoringserver.cpp:55-60).   *)
AnswersReachAsker ==
    /\ \A i \in DOMAIN net.queue :
          IsLetter(i) /\ owner[net.queue[i].channel] \in Clients =>
              net.queue[i].text.origin.device = owner[net.queue[i].channel]
    /\ \A c \in Clients : \A i \in DOMAIN messages[c] :
          messages[c][i].origin.device = c

(* The meterages of one device are answered in the order in which it took    *)
(* them, each at most once, although several exchanges may be under way and  *)
(* lists are replaced meanwhile (devicemock.cpp:109, 122-131).               *)
Before(x, y) ==
    \/ x.list < y.list
    \/ x.list = y.list /\ x.timeStamp < y.timeStamp

ExchangesInOrder ==
    \A c \in clients :
        /\ \A i, j \in DOMAIN messages[c] : i < j =>
              Before(messages[c][i].origin, messages[c][j].origin)
        /\ \A i \in InFlight(c) :
              /\ \A j \in DOMAIN messages[c] :
                    Before(messages[c][j].origin, net.queue[i].text.origin)
              /\ \A j \in InFlight(c) :
                    owner[net.queue[i].channel] = c
                        /\ (i < j \/ owner[net.queue[j].channel] # c)
                      => i = j \/ Before(net.queue[i].text.origin,
                                        net.queue[j].text.origin)

(* A device has no more meterages and answers under way than it was asked to *)
(* start: no answer starts a second exchange (devicemock.cpp:109, 128-131).  *)
OneExchangePerStart ==
    \A c \in clients : Cardinality(InFlight(c)) <= starts[c]

(* The exchange of a device ends only when the list is sent, the connection  *)
(* broke, or the two sides do not use the algorithm of the text: as long as  *)
(* a device is connected none of its meterages is left without an answer     *)
(* (devicemonitoringserver.cpp:57-69, devicemock.cpp:79-110).                *)
Connected(c) == clientChannel[c] # None /\ clientChannel[c] \in net.connected

ExchangesEndForAReason ==
    [][\A c \in clients \cap clients' :
         Cardinality(InFlight(c)') < Cardinality(InFlight(c)) =>
             \/ ~Connected(c)
             \/ ~Connected(c)'
             \/ ListSent(c)
             \/ {Text.algorithm, deviceEncoder[c], serverEncoder} # {deviceEncoder[c]}
             \/ deviceEncoder[c] = None]_vars

(* The handler of a device throws only if the device selected another        *)
(* algorithm while its meterage was under way, whatever the server selects   *)
(* (devicemock.cpp:81-107, message_encoder.cpp:60-70).                       *)
OnlyChangedDeviceThrows ==
    [][DeviceThrows =>
         Text.origin.algorithm # deviceEncoder[owner[Receiver]]]_vars

(* A meterage is filed under the identifier of the device that measured it,  *)
(* although the handler of a connection keeps the identifier of its peer and *)
(* a device may bind another one (devicemonitoringserver.cpp:62-68, 83-102,  *)
(* clientconnectionmock.cpp:81-89).                                          *)
FiledUnderOwner ==
    [][ServerReceives /\ Text.origin.device \in clients =>
         answered'.deviceId = clientId[Text.origin.device]]_vars

(* To the command centre the whole program is one of its users, until the    *)
(* server is deleted: what CommandCenter promises holds for the program.     *)
UsesCenter == [][Center!Next \/ Center!Init']_centerVars

(* A list that is not replaced any more is sent to its end by the answers    *)
(* alone, as long as the device stays connected and both sides keep the      *)
(* algorithm of the text under way (devicemock.cpp:109, 143-161).            *)
Healthy(c) == Connected(c) /\ deviceEncoder[c] = serverEncoder

ListIsSent ==
    \A c \in Clients :
        /\ Healthy(c) /\ deviceEncoder[c] # None /\ lists[c] = MaxLists
        /\ \E i \in InFlight(c) : net.queue[i].text.algorithm = deviceEncoder[c]
        ~> ListSent(c) \/ ~Healthy(c)
=============================================================================
