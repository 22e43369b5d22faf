--------------------------- MODULE MonitoringProofs ---------------------------
(***************************************************************************)
(* Theorems about Monitoring for every number of devices, identifiers,     *)
(* meterages and algorithms.  They rest on the lemmas about Transport and  *)
(* CommandCenter, which are instantiated here with the constants of the    *)
(* program.                                                                *)
(***************************************************************************)
EXTENDS MonitoringHistory, Integers, FiniteSetTheorems, TLAPS

NP == INSTANCE TransportProofs WITH Texts <- Letters
CP == INSTANCE CommandCenterProofs WITH Devices <- ClientIds

-----------------------------------------------------------------------------
(* The assumptions of the two modules hold of the constants given to them.  *)
LEMMA FiniteAgain == \A S : NP!IsFiniteSet(S) <=> IsFiniteSet(S)
  BY DEF NP!IsFiniteSet, IsFiniteSet

LEMMA CardinalityAgain == \A S : NP!Cardinality(S) = Cardinality(S)
  BY DEF NP!Cardinality, Cardinality

LEMMA NetAssumed ==
  /\ NP!LinksAssumption /\ NP!NoneAssumption /\ NP!NullAssumption
  /\ NP!OwnersAssumption /\ NP!ClassesAssumption /\ NP!MaxQueueAssumption
  /\ NP!ClientIdsAssumption /\ NP!LinksSuffice
<1>1. NP!LinksAssumption /\ NP!NoneAssumption
  BY TransportAssumption DEF NP!LinksAssumption, NP!NoneAssumption
<1>2. NP!NullAssumption
  BY TransportAssumption DEF NP!NullAssumption, NP!Channels
<1>3. NP!OwnersAssumption /\ NP!ClassesAssumption /\ NP!MaxQueueAssumption
  BY TransportAssumption
     DEF NP!OwnersAssumption, NP!ClassesAssumption, NP!MaxQueueAssumption
<1>4. NP!ClientIdsAssumption
  BY TransportAssumption, FiniteAgain DEF NP!ClientIdsAssumption
<1>5. NP!LinksSuffice
  BY TransportAssumption, CardinalityAgain DEF NP!LinksSuffice
<1> QED BY <1>1, <1>2, <1>3, <1>4, <1>5

LEMMA CenterAssumed ==
  /\ CP!TimeStampsAssumption /\ CP!PlanValuesAssumption
  /\ CP!MeteragesAssumption /\ CP!NoneAssumption /\ CP!SchedulesAssumption
  BY CenterAssumption
     DEF CP!TimeStampsAssumption, CP!PlanValuesAssumption, CP!MeteragesAssumption,
         CP!NoneAssumption, CP!SchedulesAssumption, CP!Byte, CP!Phases
-----------------------------------------------------------------------------
(* What Monitoring calls Net and Center are the modules of the lemmas.       *)
LEMMA SameDelete == \A n, ch : Net!Delete(n, ch) = NP!Delete(n, ch)
  BY DEF Net!Delete, NP!Delete, Net!Disconnect, NP!Disconnect, Net!Close, NP!Close,
         Net!Schedule, NP!Schedule, Net!DisconnectTask, NP!DisconnectTask,
         Net!Peer, NP!Peer, Net!Forget, NP!Forget

LEMMA SameDeleteAll == \A n, chs : Net!DeleteAll(n, chs) = NP!DeleteAll(n, chs)
  BY SameDelete DEF Net!DeleteAll, NP!DeleteAll

LEMMA SameSend == \A n, ch, text : Net!Send(n, ch, text) = NP!Send(n, ch, text)
  BY DEF Net!Send, NP!Send, Net!MessageTask, NP!MessageTask, Net!Peer, NP!Peer,
         Net!Schedule, NP!Schedule

LEMMA SameOrders == \A s : Net!Orders(s) = NP!Orders(s)
<1>1. \A S, T : Net!Bijection(S, T) = NP!Bijection(S, T)
  BY DEF NP!Bijection, Net!Bijection, NP!Injection, Net!Injection,
         NP!Surjection, Net!Surjection, NP!IsInjective, Net!IsInjective
<1>2. \A S : Net!Cardinality(S) = NP!Cardinality(S)
  BY DEF NP!Cardinality, Net!Cardinality
<1> QED BY <1>1, <1>2 DEF Net!Orders, NP!Orders

LEMMA SameTask ==
  /\ Net!Popped = NP!Popped /\ Net!NextTask = NP!NextTask
  /\ \A kind : Net!IsNext(kind) <=> NP!IsNext(kind)
  /\ Net!RoomInQueue <=> NP!RoomInQueue
  BY DEF Net!Popped, NP!Popped, Net!NextTask, NP!NextTask, Net!IsNext, NP!IsNext,
         Net!RoomInQueue, NP!RoomInQueue

LEMMA SameState ==
  /\ Net!Init <=> NP!Init
  /\ Net!TypeOK <=> NP!TypeOK
  /\ Net!ForgetDead <=> NP!ForgetDead
  BY DEF Net!Init, NP!Init, Net!EmptyNet, NP!EmptyNet, Net!Channels, NP!Channels,
         Net!TypeOK, NP!TypeOK, Net!Nets, NP!Nets, Net!Tasks, NP!Tasks,
         Net!ForgetDead, NP!ForgetDead

LEMMA SameCalls ==
  /\ \A c : Net!NewClient(c) => NP!NewClient(c)
  /\ \A c : Net!DeleteClient(c) => NP!DeleteClient(c)
  /\ \A c, id : Net!Bind(c, id) => NP!Bind(c, id)
  /\ \A c, sid : Net!ConnectToHost(c, sid) => NP!ConnectToHost(c, sid)
  /\ \A s : Net!NewServer(s) => NP!NewServer(s)
  /\ \A s : Net!DeleteServer(s) => NP!DeleteServer(s)
  /\ \A s, sid : Net!Listen(s, sid) => NP!Listen(s, sid)
<1> USE DEF Net!clientVars, NP!clientVars, Net!serverVars, NP!serverVars,
            Net!channelVars, NP!channelVars, Net!Unregister, NP!Unregister
<1>1. \A c : Net!NewClient(c) => NP!NewClient(c)
  BY DEF Net!NewClient, NP!NewClient
<1>2. \A c : Net!DeleteClient(c) => NP!DeleteClient(c)
  BY SameDelete, SameState, SameTask DEF Net!DeleteClient, NP!DeleteClient
<1>3. \A c, id : Net!Bind(c, id) => NP!Bind(c, id)
  BY DEF Net!Bind, NP!Bind
<1>4. \A c, sid : Net!ConnectToHost(c, sid) => NP!ConnectToHost(c, sid)
  BY SameTask DEF Net!ConnectToHost, NP!ConnectToHost, Net!Schedule, NP!Schedule,
         Net!ConnectTask, NP!ConnectTask
<1>5. \A s : Net!NewServer(s) => NP!NewServer(s)
  BY DEF Net!NewServer, NP!NewServer
<1>6. \A s : Net!DeleteServer(s) => NP!DeleteServer(s)
  BY SameDeleteAll, SameOrders, SameState, SameTask
     DEF Net!DeleteServer, NP!DeleteServer
<1>7. \A s, sid : Net!Listen(s, sid) => NP!Listen(s, sid)
  BY DEF Net!Listen, NP!Listen
<1> QED BY <1>1, <1>2, <1>3, <1>4, <1>5, <1>6, <1>7

LEMMA SameConnect == Net!ConnectToServer => NP!ConnectToServer
<1> SUFFICES ASSUME Net!ConnectToServer PROVE NP!ConnectToServer
  OBVIOUS
<1> DEFINE cid == NP!NextTask.clientId
           sid == NP!NextTask.serverId
           s == serversMap[sid]
           c == clientsMap[cid]
           serverSide(link) == <<link, "server">>
           clientSide(link) == <<link, "client">>
           set(link) ==
             NP!ClientAfterSet(
               NP!ServerAfterAdd(NP!Connect(NP!Popped, link), s, cid, serverSide(link)),
               c, clientSide(link))
           netSet(link) ==
             Net!ClientAfterSet(
               Net!ServerAfterAdd(Net!Connect(NP!Popped, link), s, cid, serverSide(link)),
               c, clientSide(link))
           kept(link) == {serverSide(link), clientSide(link)} \cap set(link).alive
<1>1. \A link : netSet(link) = set(link)
  <2>1. \A n, link : Net!Connect(n, link) = NP!Connect(n, link)
    BY DEF Net!Connect, NP!Connect
  <2>2. \A n, x, id, ch : Net!ServerAfterAdd(n, x, id, ch) = NP!ServerAfterAdd(n, x, id, ch)
    BY SameDelete DEF Net!ServerAfterAdd, NP!ServerAfterAdd, Net!Filed, NP!Filed
  <2>3. \A n, x, ch : Net!ClientAfterSet(n, x, ch) = NP!ClientAfterSet(n, x, ch)
    BY SameDelete DEF Net!ClientAfterSet, NP!ClientAfterSet
  <2> QED BY <2>1, <2>2, <2>3
<1>2. /\ Net!FreeLinks(net) = NP!FreeLinks(net)
      /\ Net!Channels = NP!Channels
      /\ \A x, id, ch : Net!Filed(x, id, ch) = NP!Filed(x, id, ch)
  BY DEF Net!FreeLinks, NP!FreeLinks, Net!Channels, NP!Channels, Net!Filed, NP!Filed
<1> DEFINE bound(link, links, n, chs) ==
             /\ \A l \in links : link <= l
             /\ s # None /\ c # None
             /\ net' = n
             /\ connections' = [connections EXCEPT
                                  ![s][cid] = NP!Filed(s, cid, serverSide(link))]
             /\ clientChannel' = [clientChannel EXCEPT
                                    ![c] = IF @ = None THEN clientSide(link) ELSE @]
             /\ owner' = [ch \in chs |->
                            IF ch \notin {serverSide(link), clientSide(link)} \cap n.alive
                            THEN owner[ch]
                            ELSE IF ch = serverSide(link) THEN s ELSE c]
             /\ peerId' = [ch \in chs |->
                             IF ch \notin {serverSide(link), clientSide(link)} \cap n.alive
                             THEN peerId[ch]
                             ELSE IF ch = serverSide(link) THEN cid ELSE sid]
<1>3. PICK link \in Net!FreeLinks(net) :
             bound(link, Net!FreeLinks(net), netSet(link), Net!Channels)
  BY DEF Net!ConnectToServer, Net!Popped, NP!Popped, Net!NextTask, NP!NextTask,
         Net!Filed, NP!Filed
<1>4. bound(link, NP!FreeLinks(net), set(link), NP!Channels)
  <2> HIDE DEF bound, set, netSet
  <2> QED BY <1>1, <1>2, <1>3
<1>5. link \in NP!FreeLinks(net)
  BY <1>2, <1>3
<1>6. NP!IsNext("connect")
      /\ UNCHANGED <<clients, clientId, clientsMap, servers, serverId, serversMap>>
  BY SameTask DEF Net!ConnectToServer
<1> QED BY Zenon, <1>4, <1>5, <1>6 DEF NP!ConnectToServer

LEMMA SameTasks ==
  /\ Net!ConnectInVain => NP!ConnectInVain
  /\ Net!ConnectToServer => NP!ConnectToServer
  /\ Net!DeliverMessage => NP!DeliverMessage
  /\ Net!DisconnectDeleted => NP!DisconnectDeleted
  /\ Net!DisconnectClientSide => NP!DisconnectClientSide
  /\ Net!DisconnectServerSide => NP!DisconnectServerSide
<1> USE DEF Net!clientVars, NP!clientVars, Net!serverVars, NP!serverVars,
            Net!channelVars, NP!channelVars, Net!Popped, NP!Popped,
            Net!NextTask, NP!NextTask, Net!IsNext, NP!IsNext
<1>1. Net!ConnectInVain => NP!ConnectInVain
  BY DEF Net!ConnectInVain, NP!ConnectInVain
<1>2. Net!DeliverMessage => NP!DeliverMessage
  BY DEF Net!DeliverMessage, NP!DeliverMessage
<1>3. Net!DisconnectDeleted => NP!DisconnectDeleted
  BY DEF Net!DisconnectDeleted, NP!DisconnectDeleted
<1>4. Net!DisconnectClientSide => NP!DisconnectClientSide
  BY SameDelete, SameState DEF Net!DisconnectClientSide, NP!DisconnectClientSide
<1>5. Net!DisconnectServerSide => NP!DisconnectServerSide
  BY SameDelete, SameState DEF Net!DisconnectServerSide, NP!DisconnectServerSide
<1> QED BY SameConnect, <1>1, <1>2, <1>3, <1>4, <1>5

LEMMA SameAnswers ==
  /\ \A e : Center!MessageError(e) = CP!MessageError(e)
  /\ \A n : Center!MessageCommand(n) = CP!MessageCommand(n)
  /\ \A d, t, m, x : Center!Answer(d, t, m, x) = CP!Answer(d, t, m, x)
  BY DEF Center!MessageError, CP!MessageError, Center!MessageCommand, CP!MessageCommand,
         Center!Int8, CP!Int8, Center!Answer, CP!Answer,
         Center!MessageMeterage, CP!MessageMeterage

LEMMA SameSchedule == \A d, s : Center!SetSchedule(d, s) => CP!SetSchedule(d, s)
<1>1. \A S, T : Center!Bijection(S, T) = CP!Bijection(S, T)
  BY DEF CP!Bijection, Center!Bijection, CP!Injection, Center!Injection,
         CP!Surjection, Center!Surjection, CP!IsInjective, Center!IsInjective
<1>2. \A s : Center!Sorted(s) = CP!Sorted(s)
  BY <1>1 DEF Center!Sorted, CP!Sorted, Center!SortedByTime, CP!SortedByTime
<1> QED BY <1>2 DEF Center!SetSchedule, CP!SetSchedule

LEMMA SameMeterage == \A d, t, m : Center!ProcessMeterage(d, t, m) => CP!ProcessMeterage(d, t, m)
<1>1. \A d, t : Center!AcceptTimeStamp(d, t) => CP!AcceptTimeStamp(d, t)
  BY DEF Center!AcceptTimeStamp, CP!AcceptTimeStamp, Center!IsObsolete, CP!IsObsolete
<1>2. \A d, t, k : Center!AdvanceTo(d, t, k) => CP!AdvanceTo(d, t, k)
  BY DEF Center!AdvanceTo, CP!AdvanceTo, Center!LoopStopsAt, CP!LoopStopsAt
<1>3. \A d, t, m : Center!AnswerObsolete(d, t, m) => CP!AnswerObsolete(d, t, m)
  BY SameAnswers DEF Center!AnswerObsolete, CP!AnswerObsolete,
                     Center!IsObsolete, CP!IsObsolete
<1>4. \A d, t, m : Center!AnswerNoSchedule(d, t, m) => CP!AnswerNoSchedule(d, t, m)
  BY SameAnswers, <1>1 DEF Center!AnswerNoSchedule, CP!AnswerNoSchedule
<1>5. \A d, t, m : Center!AnswerNoTimestamp(d, t, m) => CP!AnswerNoTimestamp(d, t, m)
  BY SameAnswers, <1>1, <1>2 DEF Center!AnswerNoTimestamp, CP!AnswerNoTimestamp
<1>6. /\ \A diffs, n : Center!AddDiff(diffs, n) = CP!AddDiff(diffs, n)
      /\ Center!NoDiffs = CP!NoDiffs
  BY DEF Center!AddDiff, CP!AddDiff, Center!NoDiffs, CP!NoDiffs
<1>7. \A d, phase, t, diff : Center!OpenStats(d, phase, t, diff) => CP!OpenStats(d, phase, t, diff)
  BY <1>6 DEF Center!OpenStats, CP!OpenStats, Center!StatsContinue, CP!StatsContinue
<1>8. \A d, phase, diff : Center!ContinueStats(d, phase, diff) => CP!ContinueStats(d, phase, diff)
  BY Zenon, <1>6 DEF Center!ContinueStats, CP!ContinueStats,
                     Center!StatsContinue, CP!StatsContinue
<1>9. \A d, t, m : Center!AnswerCommand(d, t, m) => CP!AnswerCommand(d, t, m)
  BY SameAnswers, <1>1, <1>2, <1>7, <1>8 DEF Center!AnswerCommand, CP!AnswerCommand
<1> QED BY <1>3, <1>4, <1>5, <1>9 DEF Center!ProcessMeterage, CP!ProcessMeterage

LEMMA SameCenter ==
  /\ Center!Init <=> CP!Init
  /\ Center!TypeOK <=> CP!TypeOK
  /\ Center!Replies = CP!Replies /\ Center!MeterageMessages = CP!MeterageMessages
  BY DEF Center!Init, CP!Init, Center!NoDiffs, CP!NoDiffs, Center!TypeOK, CP!TypeOK,
         Center!Phases, CP!Phases, Center!Deviation, CP!Deviation,
         Center!Replies, CP!Replies, Center!MeterageMessages, CP!MeterageMessages,
         Center!ErrorTypes, CP!ErrorTypes
-----------------------------------------------------------------------------
(* The inductive invariant.  A text that waits in the queue was sent by the  *)
(* device at the client side of its channel, or answers it, with the         *)
(* algorithm of the meterage.  Nothing is said of a meterage whose client    *)
(* side is gone: its answer cannot be sent any more.                         *)
OnTheWay == NP!Waiting(net)

LetterRight(w) ==
    /\ w.text.message.type = "Meterage" <=> w.channel[2] = "server"
    /\ w.text.algorithm = w.text.origin.algorithm
    /\ w.channel[2] = "client" => w.text.algorithm # None
    /\ w.channel[2] = "client" => w.text.origin.device = owner[w.channel]
    /\ w.channel[2] = "server" /\ NP!Peer(w.channel) \in net.alive =>
          w.text.origin.device = owner[NP!Peer(w.channel)]

LettersRight == \A w \in OnTheWay : LetterRight(w)

DevicesTyped ==
    /\ meterages \in [Clients -> Lists \cup {<<>>, None}]
    /\ timeStamp \in [Clients -> Nat]
    /\ messages \in [Clients -> Seq([message : Center!Replies, origin : Origins])]
    /\ deviceEncoder \in [Clients -> Algorithms \cup {None}]
    /\ serverEncoder \in Algorithms \cup {None}
    /\ lists \in [Clients -> 0 .. MaxLists]
    /\ starts \in [Clients -> 0 .. MaxStarts]

DevicesExist == \A c \in clients : meterages[c] # None

OwnAnswers == \A c \in Clients : \A i \in DOMAIN messages[c] :
                  messages[c][i].origin.device = c

MonitoringInv ==
    /\ NP!TransportInv
    /\ CP!TypeOK
    /\ DevicesTyped
    /\ DevicesExist
    /\ LettersRight
    /\ OwnAnswers
-----------------------------------------------------------------------------
LEMMA EmptyTypes ==
  /\ <<>> \in Seq([message : Center!Replies, origin : Origins])
  /\ DOMAIN <<>> = {}
  OBVIOUS

LEMMA InitMonitoring == Init => MonitoringInv
<1> SUFFICES ASSUME Init PROVE MonitoringInv
  OBVIOUS
<1>1. NP!Init /\ CP!Init
  BY SameState, SameCenter DEF Init
<1>2. NP!TransportInv
  BY <1>1, NP!InitInv, NetAssumed
<1>3. CP!TypeOK
  BY <1>1, CP!InitTypeOK, CenterAssumed
<1>4. DevicesTyped
  BY EmptyTypes, BoundsAssumption DEF Init, DevicesTyped
<1>5. net = NP!EmptyNet /\ clients = {}
  BY <1>1 DEF NP!Init
<1>6. OnTheWay = {}
  BY <1>5 DEF OnTheWay, NP!Waiting, NP!EmptyNet
<1>7. OwnAnswers
  BY DEF Init, OwnAnswers
<1> QED BY <1>2, <1>3, <1>4, <1>5, <1>6, <1>7 DEF MonitoringInv, DevicesExist, LettersRight

(* A text that waits is a letter for a channel that exists. *)
LEMMA LetterType ==
  ASSUME NEW n, NP!Good(n, {}), NEW w \in NP!Waiting(n)
  PROVE  /\ w.task = "message" /\ w.channel \in n.alive /\ w.channel \in NP!Channels
         /\ w.text \in Letters
<1>1. PICK i \in DOMAIN n.queue :
             w = n.queue[i] /\ w.task = "message" /\ w.channel # None
  BY DEF NP!Waiting, NP!IsWaiting
<1>2. n.queue \in Seq(NP!Tasks) /\ n.alive \subseteq NP!Channels
  BY DEF NP!Good, NP!Orderly, NP!Nets
<1>3. w \in NP!Tasks
  BY <1>1, <1>2
<1>4. w.channel \in n.alive
  BY <1>1 DEF NP!Good, NP!Orderly, NP!PointersAlive
<1>5. w.text \in Letters
  BY <1>1, <1>3 DEF NP!Tasks
<1> QED BY <1>1, <1>2, <1>4, <1>5

(* Where nothing is sent, the letters remain right. *)
LEMMA CalmLetters ==
  ASSUME NP!TransportInv, LettersRight, NEW k, NP!Calm(k), (NP!TransportInv)'
  PROVE  LettersRight'
<1> SUFFICES ASSUME NEW w \in OnTheWay' PROVE LetterRight(w)'
  BY DEF LettersRight
<1>1. w \in OnTheWay
  BY NP!MovedWaiting, NetAssumed DEF NP!Calm, OnTheWay
<1>2. w.channel \in net.alive
  BY <1>1, LetterType DEF OnTheWay, NP!TransportInv
<1>3. w.channel \in net'.alive
  BY LetterType DEF OnTheWay, NP!TransportInv
<1>4. LetterRight(w)
  BY <1>1 DEF LettersRight
<1> QED BY <1>2, <1>3, <1>4 DEF NP!Calm, LetterRight

-----------------------------------------------------------------------------
(* Calls and tasks that only concern the transport. *)
Quiet(k) == NP!Calm(k) /\ (NP!TransportInv)' /\ clients' \subseteq clients

LEMMA QuietKeeps ==
  ASSUME MonitoringInv, NEW k, Quiet(k), UNCHANGED <<centerVars, encoderVars, deviceVars>>
  PROVE  MonitoringInv'
<1>1. LettersRight' /\ (NP!TransportInv)'
  BY CalmLetters DEF MonitoringInv, Quiet
<1>2. (CP!TypeOK)'
  BY DEF MonitoringInv, CP!TypeOK, centerVars
<1>3. DevicesTyped' /\ DevicesExist' /\ OwnAnswers'
  BY DEF MonitoringInv, DevicesTyped, DevicesExist, OwnAnswers, Quiet,
         encoderVars, deviceVars, callVars
<1> QED BY <1>1, <1>2, <1>3 DEF MonitoringInv

LEMMA QuietCalls ==
  ASSUME MonitoringInv
  PROVE  /\ \A c \in Clients, id \in ClientIds : BindDevice(c, id) => MonitoringInv'
         /\ \A c \in Clients, sid \in ServerIds : ConnectDevice(c, sid) => MonitoringInv'
         /\ \A s \in Servers : NewMonitoringServer(s) => MonitoringInv'
         /\ \A s \in Servers, sid \in ServerIds : ListenServer(s, sid) => MonitoringInv'
<1>0. NP!TransportInv
  BY DEF MonitoringInv
<1>1. ASSUME NEW c \in Clients, NEW id \in ClientIds, BindDevice(c, id)
      PROVE  MonitoringInv'
  <2>1. NP!Bind(c, id)
    BY <1>1, SameCalls DEF BindDevice
  <2>2. Quiet(0)
    BY <1>0, <2>1, NP!BindInv, NP!CalmCalls, NetAssumed DEF Quiet, NP!Bind
  <2> QED BY <1>1, <2>2, QuietKeeps DEF BindDevice
<1>2. ASSUME NEW c \in Clients, NEW sid \in ServerIds, ConnectDevice(c, sid)
      PROVE  MonitoringInv'
  <2>1. NP!ConnectToHost(c, sid)
    BY <1>2, SameCalls DEF ConnectDevice
  <2>2. Quiet(0)
    BY <1>0, <2>1, NP!NetCallsInv, NP!CalmCalls, NetAssumed
       DEF Quiet, NP!ConnectToHost, NP!clientVars
  <2> QED BY <1>2, <2>2, QuietKeeps DEF ConnectDevice
<1>3. ASSUME NEW s \in Servers, NewMonitoringServer(s)
      PROVE  MonitoringInv'
  <2>1. NP!NewServer(s)
    BY <1>3, SameCalls DEF NewMonitoringServer
  <2>2. Quiet(0)
    BY <1>0, <2>1, NP!NewServerInv, NP!CalmCalls, NetAssumed
       DEF Quiet, NP!NewServer, NP!clientVars
  <2> QED BY <1>3, <2>2, QuietKeeps DEF NewMonitoringServer
<1>4. ASSUME NEW s \in Servers, NEW sid \in ServerIds, ListenServer(s, sid)
      PROVE  MonitoringInv'
  <2>1. NP!Listen(s, sid)
    BY <1>4, SameCalls DEF ListenServer
  <2>2. Quiet(0)
    BY <1>0, <2>1, NP!ListenInv, NP!CalmCalls, NetAssumed
       DEF Quiet, NP!Listen, NP!clientVars
  <2> QED BY <1>4, <2>2, QuietKeeps DEF ListenServer
<1> QED BY <1>1, <1>2, <1>3, <1>4

LEMMA QuietTasks ==
  ASSUME MonitoringInv, ProcessConnection \/ DropMessage \/ ServerIgnores \/ DeviceThrows
  PROVE  MonitoringInv'
<1>0. NP!TransportInv
  BY DEF MonitoringInv
<1>1. \/ NP!ConnectInVain \/ NP!DeliverMessage \/ NP!DisconnectDeleted
      \/ NP!DisconnectClientSide \/ NP!DisconnectServerSide
      \/ NP!ConnectToServer
  BY SameTasks DEF ProcessConnection, DropMessage, ServerIgnores, DeviceThrows
<1>2. NP!Calm(1)
  BY <1>0, <1>1, NP!CalmTasks, NetAssumed
<1>3. (NP!TransportInv)'
  BY <1>0, <1>1, NP!QuietTasksInv, NP!ConnectToServerInv, NP!DisconnectClientSideInv,
     NP!DisconnectServerSideInv, NetAssumed
<1>4. clients' = clients
  BY <1>1 DEF NP!ConnectInVain, NP!DeliverMessage, NP!DisconnectDeleted,
              NP!DisconnectClientSide, NP!DisconnectServerSide, NP!ConnectToServer,
              NP!clientVars
<1>5. UNCHANGED <<centerVars, encoderVars, deviceVars>>
  BY DEF ProcessConnection, DropMessage, ServerIgnores, DeviceThrows
<1> QED BY <1>2, <1>3, <1>4, <1>5, QuietKeeps DEF Quiet
-----------------------------------------------------------------------------
(* Calls that create, delete and configure devices and the server. *)
LEMMA NewDeviceKeeps ==
  ASSUME MonitoringInv, NEW c \in Clients, NewDevice(c)
  PROVE  MonitoringInv'
<1>1. NP!NewClient(c) /\ NP!TransportInv /\ LettersRight
  BY SameCalls DEF NewDevice, MonitoringInv
<1>2. (NP!TransportInv)' /\ NP!Calm(0)
  BY <1>1, NP!NewClientInv, NP!CalmCalls, NetAssumed
<1>3. LettersRight'
  BY <1>1, <1>2, CalmLetters
<1>4. (CP!TypeOK)'
  BY DEF MonitoringInv, NewDevice, CP!TypeOK, centerVars
<1>5. DevicesTyped' /\ OwnAnswers'
  BY DEF MonitoringInv, NewDevice, DevicesTyped, OwnAnswers, encoderVars
<1>6. DevicesExist'
  <2>1. clients' = clients \cup {c}
    BY <1>1 DEF NP!NewClient
  <2>2. <<>> # None
    <3>1. <<>> \in Seq(Meterages)
      OBVIOUS
    <3> QED BY <3>1, ListsAssumption
  <2> QED BY <2>1, <2>2 DEF MonitoringInv, NewDevice, DevicesExist, DevicesTyped
<1> QED BY <1>2, <1>3, <1>4, <1>5, <1>6 DEF MonitoringInv

LEMMA DeleteDeviceKeeps ==
  ASSUME MonitoringInv, NEW c \in Clients, DeleteDevice(c)
  PROVE  MonitoringInv'
<1>1. NP!DeleteClient(c) /\ NP!TransportInv /\ LettersRight
  BY SameCalls DEF DeleteDevice, MonitoringInv
<1>2. (NP!TransportInv)' /\ NP!Calm(0)
  BY <1>1, NP!DeleteClientInv, NP!CalmCalls, NetAssumed
<1>3. LettersRight'
  BY <1>1, <1>2, CalmLetters
<1>4. (CP!TypeOK)'
  BY DEF MonitoringInv, DeleteDevice, CP!TypeOK, centerVars
<1>5. DevicesTyped' /\ OwnAnswers'
  <2>0. 0 \in 0 .. MaxLists /\ 0 \in 0 .. MaxStarts
    BY BoundsAssumption
  <2>1. DevicesTyped'
    <3>1. /\ meterages' \in [Clients -> Lists \cup {<<>>, None}]
          /\ timeStamp' \in [Clients -> Nat]
          /\ deviceEncoder' \in [Clients -> Algorithms \cup {None}]
      BY DEF MonitoringInv, DeleteDevice, DevicesTyped
    <3>2. messages' \in [Clients -> Seq([message : Center!Replies, origin : Origins])]
      BY EmptyTypes DEF MonitoringInv, DeleteDevice, DevicesTyped
    <3>3. lists' \in [Clients -> 0 .. MaxLists] /\ starts' \in [Clients -> 0 .. MaxStarts]
      BY <2>0 DEF MonitoringInv, DeleteDevice, DevicesTyped
    <3> QED BY <3>1, <3>2, <3>3 DEF MonitoringInv, DeleteDevice, DevicesTyped
  <2>2. \A x \in Clients : messages'[x] = IF x = c THEN <<>> ELSE messages[x]
    BY DEF MonitoringInv, DeleteDevice, DevicesTyped
  <2>3. OwnAnswers'
    BY <2>2, EmptyTypes DEF MonitoringInv, OwnAnswers
  <2> QED BY <2>1, <2>3
<1>6. DevicesExist'
  BY <1>1 DEF MonitoringInv, DeleteDevice, DevicesExist, DevicesTyped, NP!DeleteClient
<1> QED BY <1>2, <1>3, <1>4, <1>5, <1>6 DEF MonitoringInv

(* The next server starts with an empty command centre. *)
LEMMA DeleteServerEmptiesCenter ==
  ASSUME NEW s \in Servers, DeleteMonitoringServer(s)
  PROVE  (Center!Init)' /\ (CP!Init)'
  BY DEF DeleteMonitoringServer, Center!Init, CP!Init, Center!NoDiffs, CP!NoDiffs

LEMMA DeleteServerKeeps ==
  ASSUME MonitoringInv, NEW s \in Servers, DeleteMonitoringServer(s)
  PROVE  MonitoringInv'
<1>1. NP!DeleteServer(s) /\ NP!TransportInv /\ LettersRight
  BY SameCalls DEF DeleteMonitoringServer, MonitoringInv
<1>2. (NP!TransportInv)' /\ NP!Calm(0)
  BY <1>1, NP!DeleteServerInv, NP!CalmCalls, NetAssumed
<1>3. LettersRight'
  BY <1>1, <1>2, CalmLetters
<1>4. (CP!TypeOK)'
  <2>1. (CP!Init)' /\ CP!NoDiffs \in CP!Deviation
    BY DeleteServerEmptiesCenter, CP!NoDiffsType, CenterAssumed
  <2>2. phases' \in [ClientIds -> Seq(CP!Phases)]
    BY <2>1 DEF CP!Init
  <2>3. deviationStats' \in [ClientIds -> Seq([phase : CP!Phases,
                                               firstTimeStamp : TimeStamps,
                                               deviation : CP!Deviation])]
    BY <2>1 DEF CP!Init
  <2> QED BY <2>1, <2>2, <2>3 DEF CP!Init, CP!TypeOK
<1>5. DevicesTyped' /\ OwnAnswers'
  BY DEF MonitoringInv, DeleteMonitoringServer, DevicesTyped, OwnAnswers, deviceVars, callVars
<1>6. DevicesExist'
  BY <1>1 DEF MonitoringInv, DeleteMonitoringServer, DevicesExist, deviceVars, callVars,
              NP!DeleteServer, NP!clientVars
<1> QED BY <1>2, <1>3, <1>4, <1>5, <1>6 DEF MonitoringInv

(* What does not touch the transport. *)
LEMMA TransportUntouched ==
  ASSUME MonitoringInv, UNCHANGED transportVars
  PROVE  (NP!TransportInv)' /\ LettersRight'
<1>1. UNCHANGED NP!vars /\ net' = net /\ owner' = owner
  BY DEF transportVars, clientVars, serverVars, channelVars,
         NP!vars, NP!clientVars, NP!serverVars, NP!channelVars
<1>2. (NP!TransportInv)'
  BY <1>1, NP!UnchangedInv, NetAssumed DEF MonitoringInv
<1>3. LettersRight'
  BY <1>1 DEF MonitoringInv, LettersRight, LetterRight, OnTheWay
<1> QED BY <1>2, <1>3

LEMMA SettingsKeep ==
  ASSUME MonitoringInv
  PROVE  /\ \A c \in Clients, a \in Algorithms : SelectDeviceEncoder(c, a) => MonitoringInv'
         /\ \A c \in Clients, list \in Lists : SetMeterages(c, list) => MonitoringInv'
         /\ \A a \in Algorithms : SelectServerEncoder(a) => MonitoringInv'
         /\ \A d \in ClientIds, s \in Schedules :
               SetDeviceWorkSchedule(d, s) => MonitoringInv'
<1>1. ASSUME UNCHANGED <<transportVars, centerVars>>, DevicesTyped', OwnAnswers',
             DevicesExist'
      PROVE  MonitoringInv'
  <2>1. (CP!TypeOK)'
    BY <1>1 DEF MonitoringInv, CP!TypeOK, centerVars
  <2> QED BY <1>1, <2>1, TransportUntouched DEF MonitoringInv
<1>2. UNCHANGED transportVars => clients' = clients
  BY DEF transportVars, clientVars
<1>3. ASSUME NEW c \in Clients, NEW a \in Algorithms, SelectDeviceEncoder(c, a)
      PROVE  MonitoringInv'
  BY <1>1, <1>2, <1>3 DEF MonitoringInv, SelectDeviceEncoder, DevicesTyped, OwnAnswers,
                          DevicesExist, deviceVars, callVars
<1>4. ASSUME NEW c \in Clients, NEW list \in Lists, SetMeterages(c, list)
      PROVE  MonitoringInv'
  <2>0. lists[c] + 1 \in 0 .. MaxLists
    BY <1>4, BoundsAssumption DEF MonitoringInv, SetMeterages, DevicesTyped
  <2>1. DevicesTyped' /\ OwnAnswers'
    BY <1>4, <2>0 DEF MonitoringInv, SetMeterages, DevicesTyped, OwnAnswers, encoderVars
  <2>2. DevicesExist'
    BY <1>2, <1>4, ListsAssumption
       DEF MonitoringInv, SetMeterages, DevicesExist, DevicesTyped
  <2> QED BY <1>1, <1>4, <2>1, <2>2 DEF SetMeterages
<1>5. ASSUME NEW a \in Algorithms, SelectServerEncoder(a) PROVE MonitoringInv'
  BY <1>1, <1>2, <1>5 DEF MonitoringInv, SelectServerEncoder, DevicesTyped, OwnAnswers,
                          DevicesExist, deviceVars, callVars
<1>6. ASSUME NEW d \in ClientIds, NEW s \in Schedules, SetDeviceWorkSchedule(d, s)
      PROVE  MonitoringInv'
  <2>1. CP!SetSchedule(d, s)
    BY <1>6, SameSchedule DEF SetDeviceWorkSchedule
  <2>2. (CP!TypeOK)'
    BY <2>1, CP!SetScheduleTypeOK, CenterAssumed DEF MonitoringInv
  <2>3. DevicesTyped' /\ OwnAnswers' /\ DevicesExist'
    BY <1>2, <1>6 DEF MonitoringInv, SetDeviceWorkSchedule, DevicesTyped, OwnAnswers,
                      DevicesExist, encoderVars, deviceVars, callVars
  <2> QED BY <1>6, <2>2, <2>3, TransportUntouched DEF MonitoringInv, SetDeviceWorkSchedule
<1> QED BY <1>3, <1>4, <1>5, <1>6
-----------------------------------------------------------------------------
(* Letters that are sent. *)

(* A text that the holder of channel ch sends through ch. *)
LEMMA SendLetter ==
  ASSUME NP!TransportInv, NEW n, NP!Good(n, {}), n.alive = net.alive,
         n.connected = net.connected,
         NEW k \in Nat, NP!Moved(n, net, k), Len(n.queue) + k = Len(net.queue), LettersRight,
         NEW ch \in net.alive, NEW text \in Letters,
         text.message.type = "Meterage" <=> ch[2] = "client",
         text.algorithm = text.origin.algorithm,
         ch[2] = "server" => text.algorithm # None,
         text.origin.device = owner[IF ch[2] = "client" THEN ch ELSE NP!Peer(ch)]
            \/ ~(NP!Peer(ch) \in net.alive),
         net' = n \/ net' = NP!Send(n, ch, text),
         UNCHANGED <<clientVars, serverVars, channelVars>>
  PROVE  (NP!TransportInv)' /\ LettersRight'
<1>1. ch \in NP!Channels
  BY DEF NP!TransportInv, NP!TypeOK, NP!Nets
<1>2. /\ NP!Good(net', {}) /\ net'.alive = net.alive /\ net'.connected = net.connected
  BY <1>1, NP!SendGood, NetAssumed
<1>3. (NP!TransportInv)'
  BY <1>2, NP!NetOnly, NetAssumed
     DEF NP!clientVars, NP!serverVars, NP!channelVars, clientVars, serverVars, channelVars
<1>4. ASSUME NEW w \in OnTheWay' PROVE LetterRight(w)'
  <2>1. CASE w \in OnTheWay
    BY <1>2, <2>1 DEF LettersRight, LetterRight, channelVars
  <2>2. CASE w \notin OnTheWay
    <3> DEFINE task == NP!MessageTask(NP!Peer(ch), text)
    <3>0. PICK i \in DOMAIN net'.queue : w = net'.queue[i] /\ NP!IsWaiting(net', i)
      BY DEF OnTheWay, NP!Waiting
    <3>1. w = task /\ NP!Peer(ch) \in net.connected
      <4>1. net \in NP!Nets /\ NP!Good(net, {}) /\ NP!Waiting(n) \subseteq OnTheWay
        BY NP!MovedWaiting, NetAssumed DEF NP!TransportInv, NP!Good, NP!Orderly, OnTheWay
      <4>2. w \notin NP!Waiting(n) /\ net' # n
        BY <2>2, <3>0, <4>1 DEF NP!Waiting, OnTheWay
      <4>3. /\ ch \in n.connected /\ NP!Peer(ch) \in n.connected
            /\ NP!Sent(net', net, k, task)
        BY <1>1, <4>1, <4>2, NP!SendMoved, NetAssumed
      <4> HIDE DEF task
      <4> QED BY <2>2, <3>0, <4>3 DEF NP!Sent, NP!IsWaiting, NP!Waiting, OnTheWay
    <3>2. w.channel = NP!Peer(ch) /\ w.text = text
      BY <3>1 DEF NP!MessageTask
    <3>3. NP!Peer(ch) \in net.alive
      BY <3>1 DEF NP!TransportInv, NP!Good, NP!Orderly
    <3>4. /\ NP!Peer(NP!Peer(ch)) = ch
          /\ ch[2] = "client" <=> NP!Peer(ch)[2] = "server"
          /\ NP!Peer(ch)[2] \in {"client", "server"} /\ ch[2] \in {"client", "server"}
      BY <1>1, NP!PeerProperties, NetAssumed
    <3> QED BY <3>2, <3>3, <3>4 DEF LetterRight, channelVars
  <2> QED BY <2>1, <2>2
<1> QED BY <1>3, <1>4 DEF LettersRight

(* The letter that is next in the queue. *)
LEMMA TakeLetter ==
  ASSUME NP!TransportInv, LettersRight, Net!IsNext("message"), Receiver # None
  PROVE  /\ NP!Good(Net!Popped, {})
         /\ Net!Popped.alive = net.alive /\ Net!Popped.connected = net.connected
         /\ NP!Moved(Net!Popped, net, 1) /\ Len(Net!Popped.queue) + 1 = Len(net.queue)
         /\ Receiver \in net.alive /\ Receiver \in NP!Channels
         /\ Text \in Letters
         /\ LetterRight(Net!NextTask)
<1>1. NP!IsNext("message") /\ NP!NextTask.channel # None
  BY SameTask DEF Receiver
<1>2. /\ NP!Good(NP!Popped, {})
      /\ NP!Popped.alive = net.alive /\ NP!Popped.connected = net.connected
      /\ NP!Moved(NP!Popped, net, 1) /\ Len(NP!Popped.queue) + 1 = Len(net.queue)
      /\ NP!NextTask \in OnTheWay
  BY <1>1, NP!TakeTask, NetAssumed DEF OnTheWay
<1>3. /\ NP!NextTask.channel \in net.alive /\ NP!NextTask.channel \in NP!Channels
      /\ NP!NextTask.text \in Letters
  BY <1>2, LetterType DEF OnTheWay, NP!TransportInv
<1> QED BY <1>2, <1>3, SameTask DEF Receiver, Text, LettersRight

(* The next meterage of a device is a letter of that device. *)
LEMMA NextMeterageType ==
  ASSUME DevicesTyped, DevicesExist, NEW c \in clients, c \in Clients, ~ListSent(c)
  PROVE  /\ NextMeterage(c) \in Letters
         /\ NextMeterage(c).message.type = "Meterage"
         /\ NextMeterage(c).origin.device = c
         /\ NextMeterage(c).algorithm = NextMeterage(c).origin.algorithm
         /\ timeStamp[c] \in TimeStamps
<1> DEFINE t == timeStamp[c]
           list == meterages[c]
           m == list[t + 1]
<1>1. list # None /\ ~(t >= Len(list)) /\ t \in Nat /\ list \in Lists \cup {<<>>}
  BY DEF DevicesTyped, DevicesExist, ListSent
<1>2. list \in Lists /\ list \in Seq(Meterages)
  BY <1>1, ListsAssumption
<1>3. t + 1 \in 1 .. Len(list) /\ t + 1 \in DOMAIN list /\ m \in Meterages
  BY <1>1, <1>2
<1>4. t \in TimeStamps
  <2>1. (t + 1) - 1 \in TimeStamps
    BY <1>2, <1>3, StampsSuffice
  <2> QED BY <1>1, <2>1
<1>5. lists[c] \in Nat /\ deviceEncoder[c] \in Algorithms \cup {None}
  BY BoundsAssumption DEF DevicesTyped
<1> DEFINE message == Center!MessageMeterage(t, m)
           origin == [device |-> c, list |-> lists[c], timeStamp |-> t,
                      algorithm |-> deviceEncoder[c]]
<1>6. message \in Center!MeterageMessages /\ message.type = "Meterage"
  BY <1>3, <1>4 DEF Center!MessageMeterage, Center!MeterageMessages
<1>7. origin \in Origins /\ origin.device = c /\ origin.algorithm = deviceEncoder[c]
  BY <1>4, <1>5 DEF Origins
<1>8. NextMeterage(c) = [algorithm |-> deviceEncoder[c], message |-> message, origin |-> origin]
  BY DEF NextMeterage, Letter
<1> HIDE DEF message, origin
<1> QED BY <1>4, <1>5, <1>6, <1>7, <1>8 DEF Letters

(* sendNextMeterage of an existing device, on the queue n. *)
LEMMA SendNextSends ==
  ASSUME NP!TransportInv, DevicesTyped, DevicesExist,
         NEW n, NEW c \in clients, SendNextMeterage(n, c),
         NEW ch, ch = clientChannel[c], NEW text, text = NextMeterage(c)
  PROVE  /\ ListSent(c) => net' = n /\ timeStamp' = timeStamp
         /\ ~ListSent(c) =>
              /\ timeStamp' = [timeStamp EXCEPT ![c] = @ + 1]
              /\ text \in Letters /\ text.message.type = "Meterage"
              /\ text.origin.device = c /\ text.algorithm = text.origin.algorithm
              /\ net' = IF ch = None THEN n ELSE NP!Send(n, ch, text)
         /\ ch # None => ch \in net.alive /\ ch[2] = "client" /\ owner[ch] = c
         /\ c \in Clients
<1>1. c \in Clients
  BY DEF NP!TransportInv, NP!TypeOK
<1>2. ch # None => ch \in net.alive /\ ch[2] = "client" /\ owner[ch] = c
  BY <1>1 DEF NP!TransportInv, NP!Holding, NP!ClientsHold
<1>3. ~ListSent(c) => /\ text \in Letters /\ text.message.type = "Meterage"
                      /\ text.origin.device = c /\ text.algorithm = text.origin.algorithm
  BY <1>1, NextMeterageType
<1>4. SendMessage(n, c, NextMeterage(c)) = IF ch = None THEN n ELSE NP!Send(n, ch, text)
  BY SameSend DEF SendMessage
<1> QED BY <1>1, <1>2, <1>3, <1>4 DEF SendNextMeterage

LEMMA SendNextKeeps ==
  ASSUME NP!TransportInv, LettersRight, DevicesTyped, DevicesExist,
         NEW n, NP!Good(n, {}), n.alive = net.alive, n.connected = net.connected,
         NEW k \in Nat, NP!Moved(n, net, k), Len(n.queue) + k = Len(net.queue),
         NEW c \in clients, SendNextMeterage(n, c),
         UNCHANGED <<clientVars, serverVars, channelVars>>
  PROVE  /\ (NP!TransportInv)' /\ LettersRight'
         /\ timeStamp' \in [Clients -> Nat]
<1>1. c \in Clients
  BY DEF NP!TransportInv, NP!TypeOK
<1>2. timeStamp' \in [Clients -> Nat]
  <2>1. timeStamp' = timeStamp \/ timeStamp' = [timeStamp EXCEPT ![c] = @ + 1]
    BY DEF SendNextMeterage
  <2>2. timeStamp[c] + 1 \in Nat
    BY <1>1 DEF DevicesTyped
  <2> QED BY <2>1, <2>2 DEF DevicesTyped
<1>3. CASE net' = n
  <2>1. (NP!TransportInv)'
    BY <1>3, NP!NetOnly, NetAssumed
       DEF NP!clientVars, NP!serverVars, NP!channelVars, clientVars, serverVars, channelVars
  <2>2. LettersRight'
    <3>1. OnTheWay' \subseteq OnTheWay
      BY <1>3, NP!MovedWaiting, NetAssumed DEF OnTheWay
    <3> QED BY <1>3, <3>1 DEF LettersRight, LetterRight, channelVars
  <2> QED BY <1>2, <2>1, <2>2
<1>4. CASE net' # n
  <2> DEFINE ch == clientChannel[c]
             text == NextMeterage(c)
  <2>1. ch = clientChannel[c] /\ text = NextMeterage(c)
    OBVIOUS
  <2> HIDE DEF ch, text
  <2>2. /\ ch \in net.alive /\ ch[2] = "client" /\ owner[ch] = c
        /\ text \in Letters /\ text.message.type = "Meterage" /\ text.origin.device = c
        /\ text.algorithm = text.origin.algorithm
        /\ net' = NP!Send(n, ch, text)
    BY <1>4, <2>1, SendNextSends
  <2>3. (NP!TransportInv)' /\ LettersRight'
    BY <2>2, SendLetter
  <2> QED BY <1>2, <2>3
<1> QED BY <1>3, <1>4

LEMMA StartKeeps ==
  ASSUME MonitoringInv, NEW c \in Clients, StartMeterageSending(c)
  PROVE  MonitoringInv'
<1>1. /\ NP!TransportInv /\ LettersRight /\ DevicesTyped /\ DevicesExist /\ OwnAnswers
      /\ c \in clients
  BY DEF MonitoringInv, StartMeterageSending
<1>2. /\ NP!Good(net, {}) /\ NP!Moved(net, net, 0) /\ Len(net.queue) + 0 = Len(net.queue)
      /\ UNCHANGED <<clientVars, serverVars, channelVars>> /\ SendNextMeterage(net, c)
  <2>1. net \in NP!Nets /\ NP!Good(net, {}) /\ Len(net.queue) \in Nat
    BY <1>1 DEF NP!TransportInv, NP!Good, NP!Orderly, NP!Nets
  <2> QED BY <2>1, NP!SameQueueMoved, NetAssumed DEF StartMeterageSending
<1>3. /\ (NP!TransportInv)' /\ LettersRight'
      /\ timeStamp' \in [Clients -> Nat]
  BY <1>1, <1>2, SendNextKeeps
<1>4. (CP!TypeOK)'
  BY DEF MonitoringInv, StartMeterageSending, CP!TypeOK, centerVars
<1>5. starts' \in [Clients -> 0 .. MaxStarts]
  <2>1. starts[c] < MaxStarts => starts[c] + 1 \in 0 .. MaxStarts
    BY <1>1, BoundsAssumption DEF DevicesTyped
  <2>2. 1 \in 0 .. MaxStarts
    BY BoundsAssumption
  <2>3. (IF InFlight(c) = {} THEN 1 ELSE starts[c] + 1) \in 0 .. MaxStarts
    BY <2>1, <2>2 DEF StartMeterageSending
  <2> QED BY <1>1, <2>3 DEF StartMeterageSending, DevicesTyped
<1>6. DevicesTyped' /\ OwnAnswers' /\ DevicesExist'
  BY <1>1, <1>3, <1>5 DEF StartMeterageSending, DevicesTyped, OwnAnswers, DevicesExist,
                          encoderVars, clientVars
<1> QED BY <1>3, <1>4, <1>6 DEF MonitoringInv

(* The side of a channel tells who receives what. *)
LEMMA Receivers ==
  ASSUME NP!TransportInv, NEW ch \in net.alive
  PROVE  /\ owner[ch] \in Clients <=> ch[2] = "client"
         /\ owner[ch] \in Servers <=> ch[2] = "server"
         /\ owner[ch] \in Clients => owner[ch] \in clients
         /\ owner[ch] \in Servers => /\ peerId[ch] \in ClientIds
                                     /\ connections[owner[ch]][peerId[ch]] = ch
<1>1. ch \in NP!Channels /\ ch # None
  BY NetAssumed DEF NP!TransportInv, NP!TypeOK, NP!Nets, NP!NullAssumption
<1>2. ch[2] \in {"client", "server"}
  BY <1>1 DEF NP!Channels
<1>3. /\ ch[2] = "client" => owner[ch] \in Clients /\ clientChannel[owner[ch]] = ch
      /\ ch[2] = "server" => /\ owner[ch] \in Servers /\ peerId[ch] \in ClientIds
                             /\ connections[owner[ch]][peerId[ch]] = ch
  BY DEF NP!TransportInv, NP!Holding, NP!ChannelsHeld
<1>4. ch[2] = "client" => owner[ch] \in clients
  BY <1>1, <1>3 DEF NP!TransportInv, NP!Holding, NP!ClientsHold
<1> QED BY <1>2, <1>3, <1>4, TransportAssumption

LEMMA DeviceReceivesKeeps ==
  ASSUME MonitoringInv, DeviceReceives
  PROVE  MonitoringInv'
<1> DEFINE c == owner[Receiver]
           answer == [message |-> Text.message, origin |-> Text.origin]
           n == Net!Popped
<1>1. /\ NP!TransportInv /\ LettersRight /\ DevicesTyped /\ DevicesExist /\ OwnAnswers
      /\ Net!IsNext("message") /\ Receiver # None /\ c \in Clients
  BY DEF MonitoringInv, DeviceReceives, Arrives
<1>2. /\ NP!Good(n, {}) /\ n.alive = net.alive /\ n.connected = net.connected
      /\ NP!Moved(n, net, 1) /\ Len(n.queue) + 1 = Len(net.queue)
      /\ Receiver \in net.alive /\ Text \in Letters /\ LetterRight(Net!NextTask)
  BY <1>1, TakeLetter
<1>3. c \in clients /\ Receiver[2] = "client"
  BY <1>1, <1>2, Receivers
<1>4. Text.origin.device = c /\ Text.message.type # "Meterage"
  BY <1>2, <1>3 DEF LetterRight, Text, Receiver
<1>5. answer \in [message : Center!Replies, origin : Origins] /\ answer.origin.device = c
  <2>1. Text.message \in Center!MeterageMessages \cup Center!Replies /\ Text.origin \in Origins
    BY <1>2 DEF Letters
  <2>2. Text.message \in Center!Replies
    BY <1>4, <2>1 DEF Center!MeterageMessages
  <2> QED BY <1>4, <2>1, <2>2
<1>6. /\ messages' = [messages EXCEPT ![c] = Append(@, answer)]
      /\ SendNextMeterage(n, c)
      /\ UNCHANGED <<clientVars, serverVars, channelVars, centerVars, encoderVars, callVars>>
  BY DEF DeviceReceives
<1> HIDE DEF c, answer, n
<1>7. (NP!TransportInv)' /\ LettersRight' /\ timeStamp' \in [Clients -> Nat]
  BY <1>1, <1>2, <1>3, <1>6, SendNextKeeps
<1>8. (CP!TypeOK)'
  BY <1>6 DEF MonitoringInv, CP!TypeOK, centerVars
<1>9. /\ messages' \in [Clients -> Seq([message : Center!Replies, origin : Origins])]
      /\ OwnAnswers'
  <2> DEFINE Answers == [message : Center!Replies, origin : Origins]
  <2>1. answer \in Answers /\ messages \in [Clients -> Seq(Answers)]
    BY <1>1, <1>5 DEF DevicesTyped
  <2> HIDE DEF Answers
  <2>2. messages[c] \in Seq(Answers) /\ Append(messages[c], answer) \in Seq(Answers)
    BY <1>1, <2>1
  <2>3. messages' \in [Clients -> Seq(Answers)]
    BY <1>1, <1>6, <2>1, <2>2
  <2>4. ASSUME NEW x \in Clients, NEW i \in DOMAIN messages'[x]
        PROVE  messages'[x][i].origin.device = x
    <3>1. CASE x = c
      <4>1. messages'[x] = Append(messages[c], answer)
        BY <1>1, <1>6, <2>1, <3>1
      <4>2. \/ i \in DOMAIN messages[c] /\ messages'[x][i] = messages[c][i]
            \/ messages'[x][i] = answer
        BY <2>1, <2>2, <4>1
      <4> QED BY <1>1, <1>5, <3>1, <4>2 DEF OwnAnswers
    <3>2. CASE x # c
      BY <1>1, <1>6, <2>1, <3>2 DEF OwnAnswers
    <3> QED BY <3>1, <3>2
  <2> QED BY <2>3, <2>4 DEF OwnAnswers, Answers
<1>10. DevicesTyped' /\ DevicesExist'
  BY <1>1, <1>6, <1>7, <1>9 DEF DevicesTyped, DevicesExist, encoderVars, callVars, clientVars
<1> QED BY <1>7, <1>8, <1>9, <1>10 DEF MonitoringInv

(* The server files a meterage that was sent under an identifier of a device. *)
LEMMA ServerUsesCenter ==
  ASSUME MonitoringInv, ServerReceives
  PROVE  /\ peerId[Receiver] \in ClientIds
         /\ Text.message.timeStamp \in TimeStamps /\ Text.message.meterage \in Meterages
         /\ CP!ProcessMeterage(peerId[Receiver], Text.message.timeStamp, Text.message.meterage)
<1>1. /\ NP!TransportInv /\ LettersRight
      /\ Net!IsNext("message") /\ Receiver # None /\ owner[Receiver] \in Servers
      /\ Text.message.type = "Meterage"
  BY DEF MonitoringInv, ServerReceives, Arrives, Understood
<1>2. Receiver \in net.alive /\ Text \in Letters
  BY <1>1, TakeLetter
<1>3. peerId[Receiver] \in ClientIds
  BY <1>1, <1>2, Receivers
<1>4. Text.message \in Center!MeterageMessages
  <2>1. Text.message \in Center!MeterageMessages \cup Center!Replies
    BY <1>2 DEF Letters
  <2> QED BY <1>1, <2>1 DEF Center!Replies
<1>5. Text.message.timeStamp \in TimeStamps /\ Text.message.meterage \in Meterages
  BY <1>4 DEF Center!MeterageMessages
<1> QED BY <1>3, <1>5, SameMeterage DEF ServerReceives

LEMMA AnswerIsReply ==
  ASSUME CP!TypeOK, NEW d \in ClientIds, NEW t \in TimeStamps, NEW m \in Meterages,
         CP!ProcessMeterage(d, t, m)
  PROVE  answered'.message \in Center!Replies
<1>1. ASSUME NEW message \in CP!Replies, answered' = CP!Answer(d, t, m, message)
      PROVE  answered'.message \in Center!Replies
  BY <1>1, SameCenter DEF CP!Answer
<1>2. \A e \in {"Obsolete", "NoSchedule", "NoTimestamp"} : CP!MessageError(e) \in CP!Replies
  BY DEF CP!MessageError, CP!Replies, CP!ErrorTypes
<1>3. CASE CP!AnswerObsolete(d, t, m)
  BY <1>1, <1>2, <1>3 DEF CP!AnswerObsolete
<1>4. CASE CP!AnswerNoSchedule(d, t, m)
  BY <1>1, <1>2, <1>4 DEF CP!AnswerNoSchedule
<1>5. CASE CP!AnswerNoTimestamp(d, t, m)
  BY <1>1, <1>2, <1>5 DEF CP!AnswerNoTimestamp
<1>6. CASE CP!AnswerCommand(d, t, m)
  <2>1. PICK k \in 1 .. Len(phases[d]) :
               answered' = CP!Answer(d, t, m, CP!MessageCommand(phases[d][k].value - m))
    BY <1>6 DEF CP!AnswerCommand
  <2>2. phases[d] \in Seq(CP!Phases)
    BY DEF CP!TypeOK
  <2>3. phases[d][k].value - m \in Int
    <3>1. phases[d][k] \in CP!Phases
      BY <2>1, <2>2
    <3>2. phases[d][k].value \in 0 .. 255 /\ m \in 0 .. 255
      BY <3>1, CenterAssumption DEF CP!Phases
    <3>3. \A v \in 0 .. 255, w \in 0 .. 255 : v - w \in Int
      OBVIOUS
    <3> QED BY <3>2, <3>3, Zenon
  <2>4. CP!MessageCommand(phases[d][k].value - m) \in CP!Replies
    BY <2>3, CP!CommandType, CenterAssumed
  <2> QED BY <1>1, <2>1, <2>4
<1> QED BY <1>3, <1>4, <1>5, <1>6 DEF CP!ProcessMeterage

(* What the server sends answers the meterage over the same connection. *)
LEMMA ReplySends ==
  ASSUME MonitoringInv, ServerReceives,
         NEW text, text = Letter(serverEncoder, answered'.message, Text.origin)
  PROVE  /\ text \in Letters /\ text.message.type # "Meterage"
         /\ text.message = answered'.message /\ text.origin = Text.origin
         /\ text.algorithm = text.origin.algorithm /\ text.algorithm # None
         /\ net' = NP!Send(Net!Popped, Receiver, text)
         /\ Receiver \in net.alive /\ Receiver[2] = "server"
<1> DEFINE s == owner[Receiver]
           d == peerId[Receiver]
<1>1. /\ NP!TransportInv /\ LettersRight /\ DevicesTyped /\ CP!TypeOK
      /\ Net!IsNext("message") /\ Receiver # None /\ s \in Servers
  BY DEF MonitoringInv, ServerReceives, Arrives
<1>2. Receiver \in net.alive /\ Text \in Letters /\ LetterRight(Net!NextTask)
  BY <1>1, TakeLetter
<1>3. Receiver[2] = "server" /\ connections[s][d] = Receiver
  BY <1>1, <1>2, Receivers
<1>4. answered'.message \in Center!Replies
  BY <1>1, ServerUsesCenter, AnswerIsReply
<1>5. /\ serverEncoder # None /\ Text.algorithm = serverEncoder
      /\ Text.algorithm = Text.origin.algorithm
  BY <1>2 DEF ServerReceives, Understood, LetterRight, Text
<1>6. answered'.message.type # "Meterage"
  BY <1>4 DEF Center!Replies
<1>7. net' = Reply(d, Net!Popped, answered'.message)
  BY DEF ServerReceives
<1> QED BY <1>1, <1>2, <1>3, <1>4, <1>5, <1>6, <1>7, SameSend
       DEF Letter, Letters, DevicesTyped, Reply

LEMMA ServerReceivesKeeps ==
  ASSUME MonitoringInv, ServerReceives
  PROVE  MonitoringInv'
<1> DEFINE r == Receiver
           n == Net!Popped
           text == Letter(serverEncoder, answered'.message, Text.origin)
<1>1. /\ NP!TransportInv /\ LettersRight /\ CP!TypeOK
      /\ Net!IsNext("message") /\ r # None
  BY DEF MonitoringInv, ServerReceives, Arrives
<1>2. /\ NP!Good(n, {}) /\ n.alive = net.alive /\ n.connected = net.connected
      /\ NP!Moved(n, net, 1) /\ Len(n.queue) + 1 = Len(net.queue)
      /\ LetterRight(Net!NextTask)
  BY <1>1, TakeLetter
<1>3. (CP!TypeOK)'
  BY <1>1, ServerUsesCenter, CP!ProcessMeterageTypeOK, CenterAssumed
<1>4. text = Letter(serverEncoder, answered'.message, Text.origin)
  OBVIOUS
<1>5. UNCHANGED <<clientVars, serverVars, channelVars, encoderVars, deviceVars>>
  BY DEF ServerReceives
<1> HIDE DEF text
<1>6. /\ text \in Letters /\ text.message.type # "Meterage" /\ text.origin = Text.origin
      /\ text.algorithm = text.origin.algorithm /\ text.algorithm # None
      /\ net' = NP!Send(n, r, text) /\ r \in net.alive /\ r[2] = "server"
  BY <1>4, ReplySends
<1>7. NP!Peer(r) \in net.alive => text.origin.device = owner[NP!Peer(r)]
  BY <1>2, <1>6 DEF LetterRight, Text, Receiver
<1> HIDE DEF r, n
<1>8. (NP!TransportInv)' /\ LettersRight'
  BY <1>1, <1>2, <1>5, <1>6, <1>7, SendLetter
<1>9. DevicesTyped' /\ DevicesExist' /\ OwnAnswers'
  BY <1>5 DEF MonitoringInv, DevicesTyped, DevicesExist, OwnAnswers, clientVars,
              encoderVars, deviceVars, callVars
<1> QED BY <1>3, <1>8, <1>9 DEF MonitoringInv
-----------------------------------------------------------------------------
LEMMA NextMonitoring == MonitoringInv /\ [Next]_vars => MonitoringInv'
<1> SUFFICES ASSUME MonitoringInv, [Next]_vars PROVE MonitoringInv'
  OBVIOUS
<1>1. ASSUME NEW c \in Clients, DeviceCall(c) PROVE MonitoringInv'
  BY <1>1, NewDeviceKeeps, DeleteDeviceKeeps, QuietCalls, SettingsKeep, StartKeeps
     DEF DeviceCall
<1>2. ASSUME NEW s \in Servers, MonitoringServerCall(s) PROVE MonitoringInv'
  BY <1>2, DeleteServerKeeps, QuietCalls DEF MonitoringServerCall
<1>3. ASSUME ProcessTask PROVE MonitoringInv'
  BY <1>3, QuietTasks, ServerReceivesKeeps, DeviceReceivesKeeps DEF ProcessTask
<1>4. CASE UNCHANGED vars
  <2>1. UNCHANGED <<transportVars, centerVars, encoderVars, deviceVars>>
    BY <1>4 DEF vars
  <2>2. (CP!TypeOK)'
    BY <2>1 DEF MonitoringInv, CP!TypeOK, centerVars
  <2>3. DevicesTyped' /\ OwnAnswers' /\ DevicesExist'
    BY <2>1 DEF MonitoringInv, DevicesTyped, OwnAnswers, DevicesExist,
                encoderVars, deviceVars, callVars, transportVars, clientVars
  <2> QED BY <2>1, <2>2, <2>3, TransportUntouched DEF MonitoringInv
<1> QED BY <1>1, <1>2, <1>3, <1>4, SettingsKeep DEF Next

LEMMA MonitoringInvariance == Spec => []MonitoringInv
<1> QED BY InitMonitoring, NextMonitoring, PTL DEF Spec
-----------------------------------------------------------------------------
(* What a step does to the letters on their way: k of them leave the head of *)
(* the queue, and those of T may come behind the last one.                   *)
Onward(k, T) ==
    \A i \in DOMAIN net'.queue : NP!IsWaiting(net', i) =>
        \/ i + k \in DOMAIN net.queue /\ net'.queue[i] = net.queue[i + k]
        \/ i + k = Len(net.queue) + 1 /\ net'.queue[i] \in T

LEMMA MovedOnward == ASSUME NEW k, NP!Moved(net', net, k) PROVE Onward(k, {})
  BY DEF NP!Moved, Onward

(* The others all stay in the queue. *)
Kept(k) ==
    \A i \in DOMAIN net.queue : NP!IsWaiting(net, i) /\ i > k =>
        i - k \in DOMAIN net'.queue /\ net'.queue[i - k] = net.queue[i]

LEMMA MovedKept ==
  ASSUME NP!TransportInv, NEW k, NP!Moved(net', net, k), net'.alive = net.alive
  PROVE  Kept(k)
<1>1. ASSUME NEW i \in DOMAIN net.queue, NP!IsWaiting(net, i)
      PROVE  net.queue[i].channel \in net.alive
  <2>1. net.queue[i] \in NP!Waiting(net)
    BY <1>1 DEF NP!Waiting
  <2> QED BY <2>1, LetterType DEF NP!TransportInv
<1> QED BY <1>1 DEF NP!Moved, Kept

LEMMA SentOnward ==
  ASSUME NEW k, NEW task, NP!Sent(net', net, k, task)
  PROVE  Onward(k, {task}) /\ Kept(k)
  BY DEF NP!Sent, Onward, Kept

(* What is sent through ch is a letter for the other side of its link. *)
LEMMA SentOverLink ==
  ASSUME NEW ch \in NP!Channels, NEW text, NEW task, task = NP!MessageTask(NP!Peer(ch), text)
  PROVE  /\ task.task = "message" /\ task.channel # None
         /\ task.channel = NP!Peer(ch) /\ NP!Peer(NP!Peer(ch)) = ch
         /\ ch[2] = "client" => task.channel[2] = "server"
         /\ ch[2] = "server" => task.channel[2] = "client"
<1>1. /\ NP!Peer(ch) \in NP!Channels /\ NP!Peer(NP!Peer(ch)) = ch
      /\ ch[2] = "client" => NP!Peer(ch)[2] = "server"
      /\ ch[2] = "server" => NP!Peer(ch)[2] = "client"
  BY NP!PeerProperties, NetAssumed
<1>2. None \notin NP!Channels
  BY NetAssumed DEF NP!NullAssumption
<1> QED BY <1>1, <1>2 DEF NP!MessageTask

(* A text sent through ch after k tasks left the queue. *)
LEMMA SendStep ==
  ASSUME NP!TransportInv, NEW n, NP!Good(n, {}), n.alive = net.alive,
         n.connected = net.connected,
         NEW k \in Nat, NP!Moved(n, net, k), Len(n.queue) + k = Len(net.queue),
         NEW ch \in net.alive, NEW text \in Letters, net' = NP!Send(n, ch, text),
         NEW task, task = NP!MessageTask(NP!Peer(ch), text)
  PROVE  /\ ch \in net.connected => NP!Sent(net', net, k, task)
         /\ ch \notin net.connected => NP!Moved(net', net, k)
         /\ net'.alive = net.alive /\ net'.connected = net.connected
         /\ task.text = text /\ task.channel = NP!Peer(ch)
         /\ ch \in NP!Channels
<1>1. ch \in NP!Channels /\ NP!Good(net, {})
  BY DEF NP!TransportInv, NP!TypeOK, NP!Nets
<1>2. ch \in net.connected => NP!Peer(ch) \in net.connected
  BY <1>1 DEF NP!Good, NP!Paired
<1>3. net'.alive = net.alive /\ net'.connected = net.connected
  BY <1>1, NP!SendGood, NetAssumed
<1>4. task.text = text /\ task.channel = NP!Peer(ch)
  BY DEF NP!MessageTask
<1> QED BY <1>1, <1>2, <1>3, <1>4, NP!SendMoved, NetAssumed

(* The head of the queue, when it is a letter. *)
LEMMA HeadLetter ==
  ASSUME MonitoringInv, Net!IsNext("message"), Receiver # None
  PROVE  /\ 1 \in DOMAIN net.queue /\ net.queue[1] = Net!NextTask
         /\ NP!IsWaiting(net, 1) /\ 1 \in InFlight(Text.origin.device)
         /\ Net!NextTask \in OnTheWay
<1>1. NP!IsNext("message") /\ NP!NextTask.channel # None /\ Net!NextTask = NP!NextTask
  BY SameTask DEF Receiver
<1>2. net.queue # <<>> /\ net.queue \in Seq(NP!Tasks)
  BY <1>1 DEF NP!IsNext, MonitoringInv, NP!TransportInv, NP!TypeOK, NP!Nets
<1>3. 1 \in DOMAIN net.queue
  BY <1>2
<1>4. net.queue[1].task = "message" /\ net.queue[1].channel # None
  BY <1>1 DEF NP!IsNext, NP!NextTask
<1> QED BY <1>1, <1>3, <1>4
       DEF NP!IsWaiting, NP!Waiting, OnTheWay, InFlight, IsLetter, Text, NP!NextTask

LEMMA AnotherInFlight ==
  ASSUME NEW c, NEW i
  PROVE  i \in InFlight(c) <=> /\ i \in DOMAIN net.queue /\ NP!IsWaiting(net, i)
                               /\ net.queue[i].text.origin.device = c
  BY DEF InFlight, IsLetter, NP!IsWaiting

(* The places of letters are numbers, and their origins are typed. *)
LEMMA FlightTypes ==
  ASSUME NP!TransportInv, NEW c, NEW i \in InFlight(c)
  PROVE  /\ i \in Nat \ {0} /\ i \in 1 .. Len(net.queue) /\ Len(net.queue) \in Nat
         /\ net.queue[i] \in OnTheWay
         /\ net.queue[i].channel \in net.alive /\ net.queue[i].channel \in NP!Channels
         /\ net.queue[i].text \in Letters
         /\ net.queue[i].text.origin \in Origins
         /\ net.queue[i].text.origin.device = c
<1>1. i \in DOMAIN net.queue /\ NP!IsWaiting(net, i) /\ net.queue[i].text.origin.device = c
  BY AnotherInFlight
<1>2. net \in NP!Nets /\ NP!Good(net, {}) /\ net.queue \in Seq(NP!Tasks)
  BY DEF NP!TransportInv, NP!TypeOK, NP!Nets
<1>3. net.queue[i] \in OnTheWay
  BY <1>1 DEF OnTheWay, NP!Waiting
<1>4. i \in Nat \ {0} /\ i \in 1 .. Len(net.queue) /\ Len(net.queue) \in Nat
  BY <1>1, <1>2
<1>5. /\ net.queue[i].channel \in net.alive /\ net.queue[i].channel \in NP!Channels
      /\ net.queue[i].text \in Letters
  BY <1>2, <1>3, LetterType DEF OnTheWay
<1> QED BY <1>1, <1>3, <1>4, <1>5 DEF Letters
-----------------------------------------------------------------------------
(* Every step either sends nothing, or is one of the three that send.  One   *)
(* that sends nothing leaves a device alone, or constructs it, deletes it or *)
(* gives it a list.  It lets no letter arrive, or one that nobody answers.   *)
Leaves(c) ==
    /\ c \in clients' <=> c \in clients
    /\ meterages'[c] = meterages[c] /\ lists'[c] = lists[c] /\ starts'[c] = starts[c]
    /\ timeStamp'[c] = timeStamp[c] /\ messages'[c] = messages[c]

Constructs(c) ==
    /\ c \notin clients /\ c \in clients'
    /\ meterages[c] = None /\ meterages'[c] = <<>>
    /\ lists'[c] = lists[c] /\ starts'[c] = starts[c]
    /\ timeStamp'[c] = timeStamp[c] /\ messages'[c] = messages[c]

Deletes(c) ==
    /\ c \in clients /\ c \notin clients'
    /\ meterages'[c] = <<>> /\ lists'[c] = 0
    /\ timeStamp'[c] = 0 /\ messages'[c] = <<>>

Refills(c) ==
    /\ c \in clients /\ c \in clients'
    /\ meterages'[c] # None /\ lists'[c] = lists[c] + 1 /\ starts'[c] = starts[c]
    /\ timeStamp'[c] = 0 /\ messages'[c] = messages[c]

DeviceStep(c) == Leaves(c) \/ Constructs(c) \/ Deletes(c) \/ Refills(c)

CalmStep ==
    /\ \/ NP!Calm(0)
       \/ NP!Calm(1) /\ (Arrives(Clients \cup Servers) => ServerIgnores \/ DeviceThrows)
    /\ \A c \in Clients : DeviceStep(c)
    /\ NP!ClientsKeep
    /\ \A d \in ClientIds : lastTimeStamp'[d] \in {lastTimeStamp[d], None}

LEMMA EmptyIsNoNone == <<>> # None
<1>1. <<>> \in Seq(Meterages)
  OBVIOUS
<1> QED BY <1>1, ListsAssumption

LEMMA CalmFacts ==
  ASSUME MonitoringInv, MonitoringInv', CalmStep
  PROVE  /\ \E k \in {0, 1} : NP!Calm(k)
         /\ \A c \in clients' \ clients : meterages[c] = None
         /\ \A c \in clients \ clients' : messages'[c] = <<>>
         /\ \A c \in Clients \ clients' : messages'[c] = <<>> \/ messages'[c] = messages[c]
         /\ \A c \in Clients : meterages'[c] = None => meterages[c] = None
         /\ \A c \in clients' :
               /\ messages'[c] = messages[c]
               /\ \/ lists'[c] = lists[c] /\ timeStamp'[c] = timeStamp[c]
                  \/ lists'[c] = lists[c] + 1
         /\ \A c \in clients' : clientChannel[c] # None => clientId'[c] = clientId[c]
<1>1. clients \subseteq Clients /\ clients' \subseteq Clients
  BY DEF MonitoringInv, NP!TransportInv, NP!TypeOK
<1> QED BY <1>1, EmptyIsNoNone
       DEF CalmStep, DeviceStep, Leaves, Constructs, Deletes, Refills, NP!ClientsKeep

LEMMA StillCalm ==
  ASSUME NP!TransportInv, UNCHANGED transportVars
  PROVE  NP!Calm(0)
<1>1. net' = net /\ UNCHANGED NP!channelVars
  BY DEF transportVars, channelVars, NP!channelVars
<1>2. NP!Moved(net', net, 0)
  BY <1>1, NP!SameQueueMoved, NetAssumed DEF NP!TransportInv, NP!TypeOK
<1>3. NP!SendersKept
  BY <1>1, <1>2, NP!ClientSidesStay, NetAssumed
<1> QED BY <1>1, <1>2, <1>3, NP!CalmIfUnowned, NetAssumed

LEMMA LeftAlone ==
  ASSUME clients' = clients, UNCHANGED deviceVars
  PROVE  \A c \in Clients : DeviceStep(c)
  BY DEF DeviceStep, Leaves, deviceVars, callVars

LEMMA CenterKeeps == UNCHANGED centerVars => \A d \in ClientIds : lastTimeStamp'[d] \in {lastTimeStamp[d], None}
  BY DEF centerVars

LEMMA DeviceCallCalm ==
  ASSUME MonitoringInv, NEW c \in Clients, DeviceCall(c), ~StartMeterageSending(c)
  PROVE  CalmStep
<1>1. NP!TransportInv /\ clients \subseteq Clients
  BY DEF MonitoringInv, NP!TransportInv, NP!TypeOK
<1>2. ASSUME NewDevice(c) PROVE CalmStep
  <2>1. NP!NewClient(c)
    BY <1>2, SameCalls DEF NewDevice
  <2>2. NP!Calm(0) /\ clients' = clients \cup {c} /\ NP!ClientsKeep
    BY <1>1, <2>1, NP!CalmCalls, NP!ClientsKeepTheirs, NetAssumed DEF NP!NewClient
  <2>3. Constructs(c) /\ \A x \in Clients : x # c => Leaves(x)
    BY <1>2, <2>1, <2>2
       DEF NewDevice, NP!NewClient, MonitoringInv, DevicesTyped, Constructs, Leaves
  <2> QED BY <1>2, <2>2, <2>3, CenterKeeps DEF NewDevice, CalmStep, DeviceStep
<1>3. ASSUME DeleteDevice(c) PROVE CalmStep
  <2>1. NP!DeleteClient(c)
    BY <1>3, SameCalls DEF DeleteDevice
  <2>2. NP!Calm(0) /\ clients' = clients \ {c} /\ NP!ClientsKeep
    BY <1>1, <2>1, NP!CalmCalls, NP!ClientsKeepTheirs, NetAssumed DEF NP!DeleteClient
  <2>3. Deletes(c) /\ \A x \in Clients : x # c => Leaves(x)
    BY <1>3, <2>1, <2>2
       DEF DeleteDevice, NP!DeleteClient, MonitoringInv, DevicesTyped, Deletes, Leaves
  <2> QED BY <1>3, <2>2, <2>3, CenterKeeps DEF DeleteDevice, CalmStep, DeviceStep
<1>4. ASSUME UNCHANGED transportVars
      PROVE  NP!Calm(0) /\ clients' = clients /\ NP!ClientsKeep
  BY <1>1, <1>4, StillCalm DEF transportVars, clientVars, NP!ClientsKeep
<1>5. ASSUME NEW list \in Lists, SetMeterages(c, list) PROVE CalmStep
  <2>1. NP!Calm(0) /\ clients' = clients /\ NP!ClientsKeep
    BY <1>4, <1>5 DEF SetMeterages
  <2>2. list # None
    BY ListsAssumption
  <2>3. Refills(c) /\ \A x \in Clients : x # c => Leaves(x)
    BY <1>5, <2>1, <2>2 DEF SetMeterages, MonitoringInv, DevicesTyped, Refills, Leaves
  <2> QED BY <1>5, <2>1, <2>3, CenterKeeps DEF SetMeterages, CalmStep, DeviceStep
<1>6. ASSUME \/ \E id \in ClientIds : BindDevice(c, id)
             \/ \E sid \in ServerIds : ConnectDevice(c, sid)
      PROVE  CalmStep
  <2>1. \/ \E id \in ClientIds : NP!Bind(c, id)
        \/ \E sid \in ServerIds : NP!ConnectToHost(c, sid)
    BY <1>6, SameCalls DEF BindDevice, ConnectDevice
  <2>2. NP!Calm(0) /\ clients' = clients /\ NP!ClientsKeep
    BY <1>1, <2>1, NP!CalmCalls, NP!ClientsKeepTheirs, NetAssumed
       DEF NP!Bind, NP!ConnectToHost, NP!clientVars
  <2> QED BY <1>6, <2>2, LeftAlone, CenterKeeps DEF BindDevice, ConnectDevice, CalmStep
<1>7. ASSUME NEW a \in Algorithms, SelectDeviceEncoder(c, a) PROVE CalmStep
  BY <1>4, <1>7, LeftAlone, CenterKeeps DEF SelectDeviceEncoder, CalmStep
<1> QED BY <1>2, <1>3, <1>5, <1>6, <1>7 DEF DeviceCall

LEMMA ServerCallCalm ==
  ASSUME MonitoringInv, NEW s \in Servers, MonitoringServerCall(s)
  PROVE  CalmStep
<1>1. NP!TransportInv
  BY DEF MonitoringInv
<1>2. \/ NP!NewServer(s) \/ NP!DeleteServer(s)
      \/ \E sid \in ServerIds : NP!Listen(s, sid)
  BY SameCalls DEF MonitoringServerCall, NewMonitoringServer,
     DeleteMonitoringServer, ListenServer
<1>3. NP!Calm(0) /\ clients' = clients /\ NP!ClientsKeep
  BY <1>1, <1>2, NP!CalmCalls, NP!ClientsKeepTheirs, NetAssumed
     DEF NP!NewServer, NP!DeleteServer, NP!Listen, NP!clientVars
<1>4. UNCHANGED deviceVars
  BY DEF MonitoringServerCall, NewMonitoringServer, DeleteMonitoringServer, ListenServer
<1>5. \A d \in ClientIds : lastTimeStamp'[d] \in {lastTimeStamp[d], None}
  BY CenterKeeps
     DEF MonitoringServerCall, NewMonitoringServer, DeleteMonitoringServer, ListenServer
<1> QED BY <1>3, <1>4, <1>5, LeftAlone DEF CalmStep

LEMMA TaskCalm ==
  ASSUME MonitoringInv, ProcessTask, ~ServerReceives, ~DeviceReceives
  PROVE  CalmStep
<1>1. NP!TransportInv
  BY DEF MonitoringInv
<1>2. ProcessConnection \/ DropMessage \/ ServerIgnores \/ DeviceThrows
  BY DEF ProcessTask
<1>3. \/ NP!ConnectInVain \/ NP!DeliverMessage \/ NP!DisconnectDeleted
      \/ NP!DisconnectClientSide \/ NP!DisconnectServerSide
      \/ NP!ConnectToServer
  BY <1>2, SameTasks DEF ProcessConnection, DropMessage, ServerIgnores, DeviceThrows
<1>4. NP!Calm(1) /\ clients' = clients
  BY <1>1, <1>3, NP!CalmTasks, NetAssumed
     DEF NP!ConnectInVain, NP!DeliverMessage, NP!DisconnectDeleted,
         NP!DisconnectClientSide, NP!DisconnectServerSide, NP!ConnectToServer,
         NP!clientVars
<1>5. NP!ClientsKeep
  BY <1>1, <1>3, NP!ClientsKeepTheirs, NetAssumed DEF NP!ProcessTask
<1>6. UNCHANGED deviceVars /\ UNCHANGED centerVars
  BY <1>2 DEF ProcessConnection, DropMessage, ServerIgnores, DeviceThrows
<1>7. Arrives(Clients \cup Servers) => ServerIgnores \/ DeviceThrows
  BY <1>2 DEF Arrives, ProcessConnection, DropMessage, Net!IsNext, Net!ConnectInVain,
     Net!ConnectToServer, Net!DisconnectDeleted, Net!DisconnectClientSide,
     Net!DisconnectServerSide
<1> QED BY <1>4, <1>5, <1>6, <1>7, LeftAlone, CenterKeeps DEF CalmStep

LEMMA CalmSteps ==
  ASSUME MonitoringInv, [Next]_vars
  PROVE  \/ CalmStep
         \/ ServerReceives \/ DeviceReceives
         \/ \E c \in Clients : StartMeterageSending(c)
<1>1. ASSUME UNCHANGED transportVars, UNCHANGED deviceVars, lastTimeStamp' = lastTimeStamp
      PROVE  CalmStep
  BY <1>1, StillCalm, LeftAlone
     DEF MonitoringInv, CalmStep, transportVars, clientVars, NP!ClientsKeep
<1>2. CASE UNCHANGED vars
  BY <1>1, <1>2 DEF vars, centerVars
<1>3. ASSUME \/ \E a \in Algorithms : SelectServerEncoder(a)
             \/ \E d \in ClientIds, s \in Schedules : SetDeviceWorkSchedule(d, s)
      PROVE  CalmStep
  BY <1>1, <1>3 DEF SelectServerEncoder, SetDeviceWorkSchedule, Center!SetSchedule, centerVars
<1> QED BY <1>2, <1>3, DeviceCallCalm, ServerCallCalm, TaskCalm DEF Next
-----------------------------------------------------------------------------
(* Order of the exchanges.  Of the letters of a device that wait, answers    *)
(* come before meterages, and each kind in the order of the queue; what the  *)
(* device has got comes before them all, and its next meterage behind.       *)
Origin(i) == net.queue[i].text.origin
Side(i) == net.queue[i].channel[2]

Ahead(i, j) == \/ Side(i) = "client" /\ Side(j) = "server"
               \/ Side(i) = Side(j) /\ i < j

Coming(c) == [list |-> lists[c], timeStamp |-> timeStamp[c]]

LettersInOrder(c) ==
    /\ \A i, j \in InFlight(c) : Ahead(i, j) => Before(Origin(i), Origin(j))
    /\ \A i \in InFlight(c) : Before(Origin(i), Coming(c))

AnswersInOrder(c) ==
    /\ \A i, j \in DOMAIN messages[c] : i < j =>
          Before(messages[c][i].origin, messages[c][j].origin)
    /\ \A i \in DOMAIN messages[c], j \in InFlight(c) :
          Before(messages[c][i].origin, Origin(j))
    /\ \A i \in DOMAIN messages[c] : Before(messages[c][i].origin, Coming(c))

(* Only constructed devices sent something or got an answer. *)
Constructed ==
    /\ \A w \in OnTheWay : meterages[w.text.origin.device] # None
    /\ \A c \in Clients \ clients : messages[c] = <<>>

(* The client side of a link outlives what it sent, while its device exists. *)
SendersStay ==
    \A w \in OnTheWay :
        w.channel[2] = "server" /\ w.text.origin.device \in clients
            => NP!Peer(w.channel) \in net.alive

OrderInv ==
    /\ NP!LinksAgree
    /\ Constructed
    /\ SendersStay
    /\ \A c \in clients : LettersInOrder(c) /\ AnswersInOrder(c)

LEMMA InitOrder == Init => OrderInv
<1> SUFFICES ASSUME Init PROVE OrderInv
  OBVIOUS
<1>1. NP!Init
  BY SameState DEF Init
<1>2. net = NP!EmptyNet /\ clients = {}
  BY <1>1 DEF NP!Init
<1>3. OnTheWay = {}
  BY <1>2 DEF OnTheWay, NP!Waiting, NP!EmptyNet
<1>4. NP!LinksAgree
  BY <1>2 DEF NP!LinksAgree, NP!EmptyNet
<1>5. \A c \in Clients : messages[c] = <<>>
  BY DEF Init
<1> QED BY <1>2, <1>3, <1>4, <1>5 DEF OrderInv, Constructed, SendersStay

(* A step that lets nothing new in between keeps the order.                  *)
LEMMA LettersStayInOrder ==
  ASSUME NP!TransportInv, (NP!TransportInv)', NEW k \in Nat, NEW T, Onward(k, T),
         NEW c,
         \A i, j \in InFlight(c) : Ahead(i, j) => Before(Origin(i), Origin(j)),
         NEW Left, Left = {i \in InFlight(c) : i > k},
         \A i \in Left : Before(Origin(i), Coming(c)'),
         \A task \in T : task.text.origin.device = c =>
            /\ \A i \in Left : \/ Side(i) = "client" /\ task.channel[2] = "server"
                               \/ Side(i) = task.channel[2]
                               => Before(Origin(i), task.text.origin)
            /\ \A i \in Left : task.channel[2] = "client" /\ Side(i) = "server"
                                  => Before(task.text.origin, Origin(i))
            /\ Before(task.text.origin, Coming(c)')
  PROVE  LettersInOrder(c)'
<1> DEFINE last == Len(net.queue) + 1
<1>1. ASSUME NEW i \in InFlight(c)'
      PROVE  /\ i \in Nat
             /\ \/ i + k \in Left /\ net'.queue[i] = net.queue[i + k]
                \/ i + k = last /\ net'.queue[i] \in T
                   /\ net'.queue[i].text.origin.device = c
  <2>1. i \in DOMAIN net'.queue /\ NP!IsWaiting(net', i)
        /\ net'.queue[i].text.origin.device = c
    BY <1>1 DEF InFlight, IsLetter, NP!IsWaiting
  <2>2. i \in Nat \ {0}
    BY <2>1, NP!Places, NetAssumed DEF NP!TransportInv, NP!TypeOK
  <2>3. CASE i + k \in DOMAIN net.queue /\ net'.queue[i] = net.queue[i + k]
    <3>1. i + k \in InFlight(c)
      BY <2>1, <2>3, AnotherInFlight DEF NP!IsWaiting
    <3> QED BY <2>2, <2>3, <3>1
  <2> QED BY <2>1, <2>2, <2>3 DEF Onward
<1>2. Len(net.queue) \in Nat /\ last \in Nat /\ \A i \in Left : i \in Nat /\ i < last
  <2>1. net.queue \in Seq(NP!Tasks)
    BY DEF NP!TransportInv, NP!TypeOK, NP!Nets
  <2>2. Len(net.queue) \in Nat
    BY <2>1
  <2> QED BY <2>2, FlightTypes
<1> HIDE DEF last
<1>3. ASSUME NEW i \in InFlight(c)', NEW j \in InFlight(c)', Ahead(i, j)'
      PROVE  Before(Origin(i), Origin(j))'
  <2> DEFINE x == i + k
             y == j + k
  <2>0. i \in Nat /\ j \in Nat
    BY <1>1
  <2>1. \/ x \in Left /\ net'.queue[i] = net.queue[x]
        \/ x = last /\ net'.queue[i] \in T /\ net'.queue[i].text.origin.device = c
    BY <1>1
  <2>2. \/ y \in Left /\ net'.queue[j] = net.queue[y]
        \/ y = last /\ net'.queue[j] \in T /\ net'.queue[j].text.origin.device = c
    BY <1>1
  <2>3. i < j <=> x < y
    BY <2>0
  <2>4. x \in Nat /\ y \in Nat
    BY <2>0
  <2> HIDE DEF x, y
  <2>5. CASE x \in Left /\ net'.queue[i] = net.queue[x]
             /\ y \in Left /\ net'.queue[j] = net.queue[y]
    <3>1. Ahead(x, y)
      BY <1>3, <2>3, <2>5 DEF Ahead, Side
    <3>2. Before(Origin(x), Origin(y))
      BY <2>5, <3>1
    <3> QED BY <2>5, <3>2 DEF Before, Origin
  <2>6. CASE x \in Left /\ net'.queue[i] = net.queue[x]
             /\ y = last /\ net'.queue[j] \in T /\ net'.queue[j].text.origin.device = c
    <3>1. \/ Side(x) = "client" /\ net'.queue[j].channel[2] = "server"
          \/ Side(x) = net'.queue[j].channel[2]
      BY <1>3, <2>6 DEF Ahead, Side
    <3>2. Before(Origin(x), net'.queue[j].text.origin)
      BY <2>6, <3>1
    <3> QED BY <2>6, <3>2 DEF Before, Origin
  <2>7. CASE x = last /\ net'.queue[i] \in T /\ net'.queue[i].text.origin.device = c
             /\ y \in Left /\ net'.queue[j] = net.queue[y]
    <3>1. y \in Nat /\ y < last /\ last \in Nat
      BY <1>2, <2>7
    <3>2. ~(x < y)
      BY <2>7, <3>1
    <3>3. net'.queue[i].channel[2] = "client" /\ Side(y) = "server"
      BY <1>3, <2>3, <2>7, <3>2 DEF Ahead, Side
    <3>4. Before(net'.queue[i].text.origin, Origin(y))
      BY <2>7, <3>3
    <3> QED BY <2>7, <3>4 DEF Before, Origin
  <2>8. CASE x = last /\ y = last
    <3>1. ~(i < j)
      BY <1>2, <2>3, <2>8
    <3>2. i = j
      BY <2>0, <2>8 DEF x, y
    <3> QED BY <1>3, <3>1, <3>2 DEF Ahead
  <2> QED BY <2>1, <2>2, <2>5, <2>6, <2>7, <2>8
<1>4. ASSUME NEW i \in InFlight(c)' PROVE Before(Origin(i), Coming(c))'
  <2>1. CASE i + k \in Left /\ net'.queue[i] = net.queue[i + k]
    BY <2>1 DEF Before, Origin
  <2>2. CASE net'.queue[i] \in T /\ net'.queue[i].text.origin.device = c
    BY <2>2 DEF Before, Origin
  <2> QED BY <1>1, <1>4, <2>1, <2>2
<1> QED BY <1>3, <1>4 DEF LettersInOrder

LEMMA AnswersStayInOrder ==
  ASSUME (NP!TransportInv)', NEW k \in Nat, NEW T, Onward(k, T), NEW c,
         \A i, j \in DOMAIN messages'[c] : i < j =>
            Before(messages'[c][i].origin, messages'[c][j].origin),
         NEW Left, Left = {i \in InFlight(c) : i > k},
         \A i \in DOMAIN messages'[c], j \in Left :
            Before(messages'[c][i].origin, Origin(j)),
         \A i \in DOMAIN messages'[c] : Before(messages'[c][i].origin, Coming(c)'),
         \A task \in T : task.text.origin.device = c =>
            \A i \in DOMAIN messages'[c] : Before(messages'[c][i].origin, task.text.origin)
  PROVE  AnswersInOrder(c)'
<1>1. ASSUME NEW i \in DOMAIN messages'[c], NEW j \in InFlight(c)'
      PROVE  Before(messages'[c][i].origin, net'.queue[j].text.origin)
  <2>1. j \in DOMAIN net'.queue /\ NP!IsWaiting(net', j)
        /\ net'.queue[j].text.origin.device = c
    BY <1>1 DEF InFlight, IsLetter, NP!IsWaiting
  <2>2. j \in Nat \ {0}
    BY <2>1, NP!Places, NetAssumed DEF NP!TransportInv, NP!TypeOK
  <2>3. CASE j + k \in DOMAIN net.queue /\ net'.queue[j] = net.queue[j + k]
    <3>1. j + k \in InFlight(c)
      BY <2>1, <2>3, AnotherInFlight DEF NP!IsWaiting
    <3>2. j + k > k
      BY <2>2
    <3>3. Before(messages'[c][i].origin, Origin(j + k))
      BY <3>1, <3>2
    <3> QED BY <2>3, <3>3 DEF Origin
  <2>4. CASE net'.queue[j] \in T
    BY <2>1, <2>4
  <2> QED BY <2>1, <2>3, <2>4 DEF Onward
<1> QED BY <1>1 DEF AnswersInOrder, Before, Origin, Coming

(* The letters of a device, and what it got, are typed.                      *)
LEMMA OriginTypes == \A o \in Origins : o.list \in Nat /\ o.timeStamp \in Nat
  BY CenterAssumption DEF Origins

LEMMA AnswerTypes ==
  ASSUME NEW answers \in Seq([message : Center!Replies, origin : Origins])
  PROVE  \A i \in DOMAIN answers : /\ answers[i].origin.list \in Nat
                                   /\ answers[i].origin.timeStamp \in Nat
<1> DEFINE Answers == [message : Center!Replies, origin : Origins]
<1>1. answers \in Seq(Answers) /\ \A answer \in Answers : answer.origin \in Origins
  OBVIOUS
<1> HIDE DEF Answers
<1> QED BY <1>1, OriginTypes

LEMMA OrderTypes ==
  ASSUME MonitoringInv, NEW c \in Clients
  PROVE  /\ lists[c] \in Nat /\ timeStamp[c] \in Nat
         /\ Coming(c).list \in Nat /\ Coming(c).timeStamp \in Nat
         /\ \A i \in InFlight(c) : /\ Origin(i).list \in Nat /\ Origin(i).timeStamp \in Nat
                                   /\ Side(i) \in {"client", "server"}
         /\ \A i \in DOMAIN messages[c] : /\ messages[c][i].origin.list \in Nat
                                          /\ messages[c][i].origin.timeStamp \in Nat
<1>1. NP!TransportInv /\ lists[c] \in 0 .. MaxLists /\ timeStamp[c] \in Nat
  BY DEF MonitoringInv, DevicesTyped
<1>2. lists[c] \in Nat
  BY <1>1, BoundsAssumption
<1>3. messages[c] \in Seq([message : Center!Replies, origin : Origins])
  BY DEF MonitoringInv, DevicesTyped
<1>4. ASSUME NEW i \in InFlight(c)
      PROVE  Origin(i) \in Origins /\ Side(i) \in {"client", "server"}
  BY <1>1, FlightTypes DEF Origin, Side, NP!Channels
<1> QED BY <1>1, <1>2, <1>3, <1>4, OriginTypes, AnswerTypes DEF Coming

LEMMA CalmKeepsLinks ==
  ASSUME MonitoringInv, MonitoringInv', OrderInv, CalmStep
  PROVE  (NP!LinksAgree)' /\ Constructed' /\ SendersStay'
<1>1. PICK k \in {0, 1} : NP!Calm(k)
  BY CalmFacts
<1>2. NP!TransportInv /\ (NP!TransportInv)' /\ NP!LinksAgree /\ LettersRight
  BY DEF MonitoringInv, OrderInv
<1>3. (NP!LinksAgree)'
  BY <1>1, <1>2, CalmFacts, NP!CalmLinks, NetAssumed
<1>4. OnTheWay' \subseteq OnTheWay
  BY <1>1, NP!MovedWaiting, NetAssumed DEF NP!Calm, OnTheWay
<1>5. \A w \in OnTheWay : w.text.origin.device \in Clients
  BY <1>2, LetterType DEF OnTheWay, NP!TransportInv, Letters, Origins
<1>6. Constructed'
  <2>1. \A w \in OnTheWay' : meterages'[w.text.origin.device] # None
    BY <1>4, <1>5, CalmFacts DEF OrderInv, Constructed
  <2>2. \A c \in Clients \ clients' : messages'[c] = <<>>
    BY CalmFacts DEF OrderInv, Constructed
  <2> QED BY <2>1, <2>2 DEF Constructed
<1>7. ASSUME NEW w \in OnTheWay', w.channel[2] = "server",
             w.text.origin.device \in clients'
      PROVE  NP!Peer(w.channel) \in net'.alive
  <2>1. w \in OnTheWay /\ w.text.origin.device \in clients
    BY <1>4, <1>7, CalmFacts DEF OrderInv, Constructed
  <2>2. NP!Peer(w.channel) \in net.alive
    BY <1>7, <2>1 DEF OrderInv, SendersStay
  <2>3. owner[NP!Peer(w.channel)] \in clients'
    BY <1>2, <1>7, <2>1, <2>2 DEF LettersRight, LetterRight
  <2> QED BY <1>1, <1>7, <2>2, <2>3 DEF NP!Calm, NP!SendersKept, OnTheWay
<1> QED BY <1>3, <1>6, <1>7 DEF SendersStay

LEMMA CalmKeepsOrder ==
  ASSUME MonitoringInv, MonitoringInv', OrderInv, CalmStep
  PROVE  OrderInv'
<1>1. PICK k \in {0, 1} : NP!Calm(k)
  BY CalmFacts
<1>2. NP!TransportInv /\ (NP!TransportInv)' /\ k \in Nat /\ Onward(k, {})
  BY <1>1, MovedOnward DEF MonitoringInv, NP!Calm
<1>3. ASSUME NEW c \in clients' PROVE LettersInOrder(c)' /\ AnswersInOrder(c)'
  <2> DEFINE Left == {i \in InFlight(c) : i > k}
             T == {}
  <2>0. c \in Clients
    BY <1>2 DEF NP!TransportInv, NP!TypeOK
  <2>1. messages'[c] = messages[c]
    BY CalmFacts
  <2>2. c \notin clients => InFlight(c) = {} /\ messages[c] = <<>>
    <3>1. c \notin clients => meterages[c] = None
      BY CalmFacts
    <3> QED BY <1>2, <2>0, <3>1, FlightTypes DEF OrderInv, Constructed
  <2>3. LettersInOrder(c) /\ AnswersInOrder(c)
    BY <2>2, EmptyTypes DEF OrderInv, LettersInOrder, AnswersInOrder
  <2>4. \/ lists'[c] = lists[c] /\ timeStamp'[c] = timeStamp[c]
        \/ lists'[c] = lists[c] + 1
    BY CalmFacts
  <2>5. \A i \in InFlight(c) : Before(Origin(i), Coming(c)')
    BY <2>0, <2>3, <2>4, OrderTypes DEF LettersInOrder, Before, Coming
  <2>6. \A i \in DOMAIN messages'[c] : Before(messages'[c][i].origin, Coming(c)')
    BY <2>0, <2>1, <2>3, <2>4, OrderTypes DEF AnswersInOrder, Before, Coming
  <2>7. Left = {i \in InFlight(c) : i > k} /\ Onward(k, T) /\ \A task \in T : FALSE
    BY <1>2
  <2> HIDE DEF Left, T
  <2>8. \A i, j \in InFlight(c) : Ahead(i, j) => Before(Origin(i), Origin(j))
    BY <2>3 DEF LettersInOrder
  <2>9. LettersInOrder(c)'
    BY <1>2, <2>5, <2>7, <2>8, LettersStayInOrder
  <2>10. \A i, j \in DOMAIN messages'[c] : i < j =>
            Before(messages'[c][i].origin, messages'[c][j].origin)
    BY <2>1, <2>3 DEF AnswersInOrder
  <2>11. \A i \in DOMAIN messages'[c], j \in Left :
            Before(messages'[c][i].origin, Origin(j))
    BY <2>1, <2>3, <2>7 DEF AnswersInOrder
  <2>12. AnswersInOrder(c)'
    BY <1>2, <2>6, <2>7, <2>10, <2>11, AnswersStayInOrder
  <2> QED BY <2>9, <2>12
<1>4. (NP!LinksAgree)' /\ Constructed' /\ SendersStay'
  BY CalmKeepsLinks
<1> QED BY <1>3, <1>4 DEF OrderInv

(* A step that sends, but changes neither objects nor channels.              *)
LEMMA SendingKeepsLinks ==
  ASSUME MonitoringInv, MonitoringInv', OrderInv, NEW k \in Nat, NEW T, Onward(k, T),
         net'.alive = net.alive, UNCHANGED <<clientVars, serverVars, channelVars>>,
         meterages' = meterages, \A c \in Clients \ clients : messages'[c] = messages[c],
         \A task \in T : /\ meterages[task.text.origin.device] # None
                         /\ task.channel[2] = "server" => NP!Peer(task.channel) \in net.alive
  PROVE  (NP!LinksAgree)' /\ Constructed' /\ SendersStay'
<1>1. UNCHANGED <<clients, clientId, owner, peerId>>
  BY DEF clientVars, channelVars
<1>2. (NP!LinksAgree)'
  BY <1>1 DEF OrderInv, NP!LinksAgree
<1>3. \A w \in OnTheWay' : w \in OnTheWay \/ w \in T
  <2> SUFFICES ASSUME NEW w \in OnTheWay' PROVE w \in OnTheWay \/ w \in T
    OBVIOUS
  <2>1. PICK i \in DOMAIN net'.queue : w = net'.queue[i] /\ NP!IsWaiting(net', i)
    BY DEF OnTheWay, NP!Waiting
  <2>2. CASE i + k \in DOMAIN net.queue /\ net'.queue[i] = net.queue[i + k]
    BY <2>1, <2>2 DEF OnTheWay, NP!Waiting, NP!IsWaiting
  <2> QED BY <2>1, <2>2 DEF Onward
<1>4. Constructed'
  BY <1>1, <1>3 DEF OrderInv, Constructed
<1>5. SendersStay'
  BY <1>1, <1>3 DEF OrderInv, SendersStay
<1> QED BY <1>2, <1>4, <1>5

LEMMA ReplyStep ==
  ASSUME MonitoringInv, ServerReceives
  PROVE  \E T : /\ Onward(1, T) /\ Kept(1)
                /\ \A task \in T : /\ task.text.origin = Text.origin
                                   /\ task.text.message = answered'.message
                                   /\ task.channel[2] = "client"
                                   /\ task.task = "message" /\ task.channel # None
                /\ net'.alive = net.alive
                /\ Receiver \in net.connected => T # {} /\ \A task \in T :
                      NP!Sent(net', net, 1, task)
<1> DEFINE text == Letter(serverEncoder, answered'.message, Text.origin)
           task == NP!MessageTask(NP!Peer(Receiver), text)
           n == Net!Popped
<1>1. /\ NP!TransportInv /\ LettersRight /\ Net!IsNext("message") /\ Receiver # None
  BY DEF MonitoringInv, ServerReceives, Arrives
<1>2. /\ NP!Good(n, {}) /\ n.alive = net.alive /\ n.connected = net.connected
      /\ NP!Moved(n, net, 1) /\ Len(n.queue) + 1 = Len(net.queue)
  BY <1>1, TakeLetter
<1>3. text = Letter(serverEncoder, answered'.message, Text.origin)
      /\ task = NP!MessageTask(NP!Peer(Receiver), text)
  OBVIOUS
<1> HIDE DEF text, task, n
<1>4. /\ text \in Letters /\ net' = NP!Send(n, Receiver, text)
      /\ text.message = answered'.message /\ text.origin = Text.origin
      /\ Receiver \in net.alive /\ Receiver[2] = "server"
  BY <1>3, ReplySends DEF n
<1>5. /\ Receiver \in net.connected => NP!Sent(net', net, 1, task)
      /\ Receiver \notin net.connected => NP!Moved(net', net, 1)
      /\ net'.alive = net.alive
      /\ task.text = text /\ task.channel = NP!Peer(Receiver)
      /\ Receiver \in NP!Channels
  BY <1>1, <1>2, <1>3, <1>4, SendStep
<1>6. task.channel[2] = "client" /\ task.task = "message" /\ task.channel # None
  BY <1>3, <1>4, <1>5, SentOverLink
<1>7. CASE Receiver \in net.connected
  <2>1. Onward(1, {task}) /\ Kept(1)
    BY <1>5, <1>7, SentOnward
  <2> WITNESS {task}
  <2> QED BY <1>4, <1>5, <1>6, <1>7, <2>1
<1>8. CASE Receiver \notin net.connected
  <2>1. Onward(1, {}) /\ Kept(1)
    BY <1>1, <1>5, <1>8, MovedOnward, MovedKept
  <2> WITNESS {}
  <2> QED BY <1>5, <1>8, <2>1
<1> QED BY <1>7, <1>8

LEMMA SendNextStep ==
  ASSUME MonitoringInv, NEW n, NP!Good(n, {}), n.alive = net.alive,
         n.connected = net.connected,
         NEW k \in Nat, NP!Moved(n, net, k), Len(n.queue) + k = Len(net.queue),
         NEW c \in clients, SendNextMeterage(n, c)
  PROVE  \E T : /\ Onward(k, T) /\ Kept(k)
                /\ \A task \in T : /\ task.text.origin.device = c
                                   /\ task.text.origin.list = lists[c]
                                   /\ task.text.origin.timeStamp = timeStamp[c]
                                   /\ task.text.message.type = "Meterage"
                                   /\ task.text.message.timeStamp = timeStamp[c]
                                   /\ task.channel[2] = "server"
                                   /\ task.task = "message" /\ task.channel # None
                                   /\ NP!Peer(task.channel) \in net.alive
                                   /\ timeStamp'[c] = timeStamp[c] + 1
                                   /\ ~ListSent(c)
                /\ net'.alive = net.alive
                /\ timeStamp'[c] \in {timeStamp[c], timeStamp[c] + 1}
                /\ \A x \in Clients : x # c => timeStamp'[x] = timeStamp[x]
                /\ ~ListSent(c) /\ clientChannel[c] \in net.connected =>
                      T # {} /\ \A task \in T : NP!Sent(net', net, k, task)
<1> DEFINE ch == clientChannel[c]
           text == NextMeterage(c)
           task == NP!MessageTask(NP!Peer(ch), text)
<1>1. NP!TransportInv /\ DevicesTyped /\ DevicesExist
  BY DEF MonitoringInv
<1>2. ch = clientChannel[c] /\ text = NextMeterage(c)
      /\ task = NP!MessageTask(NP!Peer(ch), text)
  OBVIOUS
<1>3. /\ text.origin.list = lists[c] /\ text.origin.timeStamp = timeStamp[c]
      /\ text.message.timeStamp = timeStamp[c]
  BY DEF NextMeterage, Letter, Center!MessageMeterage
<1> HIDE DEF ch, text, task
<1>4. /\ ListSent(c) => net' = n /\ timeStamp' = timeStamp
      /\ ~ListSent(c) =>
           /\ timeStamp' = [timeStamp EXCEPT ![c] = @ + 1]
           /\ text \in Letters /\ text.message.type = "Meterage"
           /\ text.origin.device = c /\ text.algorithm = text.origin.algorithm
           /\ net' = IF ch = None THEN n ELSE NP!Send(n, ch, text)
      /\ ch # None => ch \in net.alive /\ ch[2] = "client" /\ owner[ch] = c
      /\ c \in Clients
  BY <1>1, <1>2, SendNextSends
<1>5. /\ timeStamp'[c] \in {timeStamp[c], timeStamp[c] + 1}
      /\ \A x \in Clients : x # c => timeStamp'[x] = timeStamp[x]
      /\ ~ListSent(c) => timeStamp'[c] = timeStamp[c] + 1
  BY <1>1, <1>4 DEF DevicesTyped
<1>6. net.connected \subseteq net.alive /\ None \notin net.alive
  BY <1>1, NP!HeldChannels, NetAssumed DEF NP!TransportInv, NP!Good, NP!Orderly
<1>7. CASE net' = n /\ (ListSent(c) \/ ch = None)
  <2>1. Onward(k, {}) /\ Kept(k)
    BY <1>1, <1>7, MovedOnward, MovedKept
  <2> WITNESS {}
  <2> QED BY <1>2, <1>5, <1>6, <1>7, <2>1
<1>8. CASE ~ListSent(c) /\ ch # None
  <2>1. /\ ch \in net.connected => NP!Sent(net', net, k, task)
        /\ ch \notin net.connected => NP!Moved(net', net, k)
        /\ net'.alive = net.alive
        /\ task.text = text /\ task.channel = NP!Peer(ch)
        /\ ch \in NP!Channels
    BY <1>1, <1>2, <1>4, <1>8, SendStep
  <2>2. /\ NP!Peer(NP!Peer(ch)) = ch /\ NP!Peer(ch)[2] = "server"
        /\ task.task = "message" /\ task.channel # None
    BY <1>2, <1>4, <1>8, <2>1, SentOverLink
  <2>3. CASE ch \in net.connected
    <3>1. Onward(k, {task}) /\ Kept(k)
      BY <2>1, <2>3, SentOnward
    <3> WITNESS {task}
    <3> QED BY <1>2, <1>3, <1>4, <1>5, <1>8, <2>1, <2>2, <2>3, <3>1
  <2>4. CASE ch \notin net.connected
    <3>1. Onward(k, {}) /\ Kept(k)
      BY <1>1, <2>1, <2>4, MovedOnward, MovedKept
    <3> WITNESS {}
    <3> QED BY <1>2, <1>5, <2>1, <2>4, <3>1
  <2> QED BY <2>3, <2>4
<1> QED BY <1>4, <1>7, <1>8
(* The answer takes the place of the meterage it answers. *)
LEMMA ServerKeepsOrder ==
  ASSUME MonitoringInv, MonitoringInv', OrderInv, ServerReceives
  PROVE  OrderInv'
<1>1. /\ NP!TransportInv /\ (NP!TransportInv)'
      /\ Net!IsNext("message") /\ Receiver # None
  BY DEF MonitoringInv, ServerReceives, Arrives
<1>2. PICK T : /\ Onward(1, T)
               /\ \A task \in T : /\ task.text.origin = Text.origin
                                  /\ task.channel[2] = "client"
               /\ net'.alive = net.alive
  BY ReplyStep
<1>3. UNCHANGED <<clientVars, serverVars, channelVars, encoderVars, deviceVars>>
  BY DEF ServerReceives
<1>4. /\ clients' = clients /\ meterages' = meterages /\ messages' = messages
      /\ lists' = lists /\ timeStamp' = timeStamp
  BY <1>3 DEF clientVars, deviceVars, callVars
<1>5. /\ net.queue[1] = Net!NextTask /\ 1 \in InFlight(Text.origin.device)
      /\ Net!NextTask \in OnTheWay
  BY <1>1, HeadLetter
<1>6. Origin(1) = Text.origin /\ Side(1) = "server"
  <2>1. Receiver[2] = "server"
    BY ReplySends
  <2> QED BY <1>5, <2>1 DEF Origin, Side, Text, Receiver
<1>7. meterages[Text.origin.device] # None
  BY <1>5 DEF OrderInv, Constructed, Text
<1>8. (NP!LinksAgree)' /\ Constructed' /\ SendersStay'
  <2>1. \A task \in T : /\ meterages[task.text.origin.device] # None
                        /\ task.channel[2] = "server" => NP!Peer(task.channel) \in net.alive
    BY <1>2, <1>7
  <2>2. \A c \in Clients \ clients : messages'[c] = messages[c]
    BY <1>4
  <2>3. UNCHANGED <<clientVars, serverVars, channelVars>>
    BY <1>3
  <2> QED BY <1>2, <1>4, <2>1, <2>2, <2>3, SendingKeepsLinks
<1>9. ASSUME NEW c \in clients' PROVE LettersInOrder(c)' /\ AnswersInOrder(c)'
  <2> DEFINE Left == {i \in InFlight(c) : i > 1}
  <2>1. c \in clients /\ LettersInOrder(c) /\ AnswersInOrder(c) /\ Coming(c)' = Coming(c)
        /\ messages'[c] = messages[c]
    BY <1>4 DEF OrderInv, Coming
  <2>2. Left = {i \in InFlight(c) : i > 1}
    OBVIOUS
  <2> HIDE DEF Left
  <2>3. \A i \in Left : i \in InFlight(c) /\ i > 1
    BY <2>2
  <2>4. \A i, j \in InFlight(c) : Ahead(i, j) => Before(Origin(i), Origin(j))
    BY <2>1 DEF LettersInOrder
  <2>5. \A i \in Left : Before(Origin(i), Coming(c)')
    BY <2>1, <2>3 DEF LettersInOrder
  <2>6. ASSUME NEW task \in T, task.text.origin.device = c
        PROVE  /\ \A i \in Left : \/ Side(i) = "client" /\ task.channel[2] = "server"
                                  \/ Side(i) = task.channel[2]
                                  => Before(Origin(i), task.text.origin)
               /\ \A i \in Left : task.channel[2] = "client" /\ Side(i) = "server"
                                     => Before(task.text.origin, Origin(i))
               /\ Before(task.text.origin, Coming(c)')
    <3>1. 1 \in InFlight(c) /\ Origin(1) = task.text.origin /\ task.channel[2] = "client"
      BY <1>2, <1>5, <1>6, <2>6
    <3>2. \A i \in Left : Side(i) = "client" => Before(Origin(i), Origin(1))
      BY <1>6, <2>3, <2>4, <3>1 DEF Ahead
    <3>3. \A i \in Left : Side(i) = "server" => Before(Origin(1), Origin(i))
      <4> SUFFICES ASSUME NEW i \in Left, Side(i) = "server" PROVE Ahead(1, i)
        BY <2>3, <2>4, <3>1
      <4>1. i \in Nat /\ i > 1
        BY <1>1, <2>3, FlightTypes
      <4> QED BY <1>6, <4>1 DEF Ahead
    <3>4. Before(Origin(1), Coming(c)')
      BY <2>1, <3>1 DEF LettersInOrder
    <3> QED BY <3>1, <3>2, <3>3, <3>4
  <2>7. LettersInOrder(c)'
    BY <1>1, <1>2, <2>2, <2>4, <2>5, <2>6, LettersStayInOrder
  <2>8. \A i, j \in DOMAIN messages'[c] : i < j =>
            Before(messages'[c][i].origin, messages'[c][j].origin)
    BY <2>1 DEF AnswersInOrder
  <2>9. /\ \A i \in DOMAIN messages'[c], j \in Left : Before(messages'[c][i].origin, Origin(j))
        /\ \A i \in DOMAIN messages'[c] : Before(messages'[c][i].origin, Coming(c)')
    BY <2>1, <2>3 DEF AnswersInOrder
  <2>10. \A task \in T : task.text.origin.device = c =>
            \A i \in DOMAIN messages'[c] : Before(messages'[c][i].origin, task.text.origin)
    BY <1>2, <1>5, <1>6, <2>1 DEF AnswersInOrder
  <2>11. AnswersInOrder(c)'
    BY <1>1, <1>2, <2>2, <2>8, <2>9, <2>10, AnswersStayInOrder
  <2> QED BY <2>7, <2>11
<1> QED BY <1>4, <1>8, <1>9 DEF OrderInv

(* A device that sends its next meterage keeps the order, whatever answer it *)
(* got before, if that answer is behind the others it has got.               *)
LEMMA SendNextKeepsOrder ==
  ASSUME MonitoringInv, MonitoringInv', OrderInv, NEW n, NP!Good(n, {}),
         n.alive = net.alive, n.connected = net.connected,
         NEW k \in Nat, NP!Moved(n, net, k), Len(n.queue) + k = Len(net.queue),
         NEW c \in clients, SendNextMeterage(n, c),
         UNCHANGED <<clientVars, serverVars, channelVars, meterages, lists>>,
         \A x \in Clients \ clients : messages'[x] = messages[x],
         \A x \in clients :
            /\ \A i, j \in DOMAIN messages'[x] : i < j =>
                  Before(messages'[x][i].origin, messages'[x][j].origin)
            /\ \A i \in DOMAIN messages'[x], j \in InFlight(x) :
                  j > k => Before(messages'[x][i].origin, Origin(j))
            /\ \A i \in DOMAIN messages'[x] : Before(messages'[x][i].origin, Coming(x))
  PROVE  OrderInv'
<1>1. /\ NP!TransportInv /\ (NP!TransportInv)' /\ clients \subseteq Clients
      /\ clients' = clients /\ meterages' = meterages /\ lists' = lists
  BY DEF MonitoringInv, NP!TransportInv, NP!TypeOK, clientVars
<1>2. PICK T : /\ Onward(k, T)
               /\ \A task \in T : /\ task.text.origin.device = c
                                  /\ task.text.origin.list = lists[c]
                                  /\ task.text.origin.timeStamp = timeStamp[c]
                                  /\ task.channel[2] = "server"
                                  /\ NP!Peer(task.channel) \in net.alive
                                  /\ timeStamp'[c] = timeStamp[c] + 1
               /\ net'.alive = net.alive
               /\ timeStamp'[c] \in {timeStamp[c], timeStamp[c] + 1}
               /\ \A x \in Clients : x # c => timeStamp'[x] = timeStamp[x]
  BY SendNextStep
<1>3. (NP!LinksAgree)' /\ Constructed' /\ SendersStay'
  <2>1. \A task \in T : /\ meterages[task.text.origin.device] # None
                        /\ task.channel[2] = "server" => NP!Peer(task.channel) \in net.alive
    BY <1>2 DEF MonitoringInv, DevicesExist
  <2>2. UNCHANGED <<clientVars, serverVars, channelVars>>
    OBVIOUS
  <2> QED BY <1>1, <1>2, <2>1, <2>2, SendingKeepsLinks
<1>4. ASSUME NEW x \in clients PROVE LettersInOrder(x)' /\ AnswersInOrder(x)'
  <2> DEFINE Left == {i \in InFlight(x) : i > k}
  <2>0. x \in Clients
    BY <1>1
  <2>1. LettersInOrder(x)
    BY DEF OrderInv
  <2>2. Left = {i \in InFlight(x) : i > k}
    OBVIOUS
  <2> HIDE DEF Left
  <2>3. \A i \in Left : i \in InFlight(x) /\ i > k
    BY <2>2
  <2>4. /\ Coming(x)'.list = Coming(x).list
        /\ Coming(x).timeStamp \in Nat
        /\ Coming(x)'.timeStamp \in {Coming(x).timeStamp, Coming(x).timeStamp + 1}
    BY <1>1, <1>2, <2>0, OrderTypes DEF Coming
  <2>5. \A i, j \in InFlight(x) : Ahead(i, j) => Before(Origin(i), Origin(j))
    BY <2>1 DEF LettersInOrder
  <2>6. \A i \in Left : Before(Origin(i), Coming(x))
    BY <2>1, <2>3 DEF LettersInOrder
  <2>7. \A i \in Left : Before(Origin(i), Coming(x)')
    BY <2>0, <2>3, <2>4, <2>6, OrderTypes DEF Before
  <2>8. ASSUME NEW task \in T, task.text.origin.device = x
        PROVE  /\ \A i \in Left : Before(Origin(i), task.text.origin)
               /\ task.channel[2] = "server"
               /\ \A i \in DOMAIN messages'[x] :
                     Before(messages'[x][i].origin, task.text.origin)
               /\ Before(task.text.origin, Coming(x)')
    <3>1. /\ task.text.origin.list = Coming(x).list
          /\ task.text.origin.timeStamp = Coming(x).timeStamp
          /\ Coming(x)'.timeStamp = Coming(x).timeStamp + 1
          /\ task.channel[2] = "server"
      BY <1>2, <2>8 DEF Coming
    <3> QED BY <2>4, <2>6, <3>1 DEF Before
  <2>9. LettersInOrder(x)'
    <3>1. \A task \in T : task.text.origin.device = x =>
            /\ \A i \in Left : \/ Side(i) = "client" /\ task.channel[2] = "server"
                               \/ Side(i) = task.channel[2]
                               => Before(Origin(i), task.text.origin)
            /\ \A i \in Left : task.channel[2] = "client" /\ Side(i) = "server"
                                  => Before(task.text.origin, Origin(i))
            /\ Before(task.text.origin, Coming(x)')
      BY <2>8
    <3> QED BY <1>1, <1>2, <2>2, <2>5, <2>7, <3>1, LettersStayInOrder
  <2>10. \A i, j \in DOMAIN messages'[x] : i < j =>
            Before(messages'[x][i].origin, messages'[x][j].origin)
    OBVIOUS
  <2>11. \A i \in DOMAIN messages'[x], j \in Left : Before(messages'[x][i].origin, Origin(j))
    BY <2>3
  <2>12. \A i \in DOMAIN messages'[x] : Before(messages'[x][i].origin, Coming(x)')
    <3>1. messages'[x] \in Seq([message : Center!Replies, origin : Origins])
      BY <2>0 DEF MonitoringInv, DevicesTyped
    <3>2. \A i \in DOMAIN messages'[x] : messages'[x][i].origin.timeStamp \in Nat
      BY <3>1, AnswerTypes
    <3> QED BY <2>4, <3>2 DEF Before
  <2>13. AnswersInOrder(x)'
    BY <1>1, <1>2, <2>2, <2>8, <2>10, <2>11, <2>12, AnswersStayInOrder
  <2> QED BY <2>9, <2>13
<1> QED BY <1>1, <1>3, <1>4 DEF OrderInv

LEMMA StartKeepsOrder ==
  ASSUME MonitoringInv, MonitoringInv', OrderInv,
         NEW c \in Clients, StartMeterageSending(c)
  PROVE  OrderInv'
<1>1. NP!TransportInv /\ c \in clients
  BY DEF MonitoringInv, StartMeterageSending
<1>2. /\ NP!Good(net, {}) /\ NP!Moved(net, net, 0) /\ Len(net.queue) + 0 = Len(net.queue)
      /\ SendNextMeterage(net, c)
  <2>1. net \in NP!Nets /\ NP!Good(net, {}) /\ Len(net.queue) \in Nat
    BY <1>1 DEF NP!TransportInv, NP!Good, NP!Orderly, NP!Nets
  <2> QED BY <2>1, NP!SameQueueMoved, NetAssumed DEF StartMeterageSending
<1>3. UNCHANGED <<clientVars, serverVars, channelVars, meterages, lists>>
  BY DEF StartMeterageSending
<1>4. messages' = messages
  BY DEF StartMeterageSending
<1>5. ASSUME NEW x \in clients
      PROVE  /\ \A i, j \in DOMAIN messages'[x] : i < j =>
                   Before(messages'[x][i].origin, messages'[x][j].origin)
             /\ \A i \in DOMAIN messages'[x], j \in InFlight(x) :
                   j > 0 => Before(messages'[x][i].origin, Origin(j))
             /\ \A i \in DOMAIN messages'[x] : Before(messages'[x][i].origin, Coming(x))
  BY <1>4 DEF OrderInv, AnswersInOrder
<1> QED BY <1>1, <1>2, <1>3, <1>4, <1>5, SendNextKeepsOrder

LEMMA DeviceKeepsOrder ==
  ASSUME MonitoringInv, MonitoringInv', OrderInv, DeviceReceives
  PROVE  OrderInv'
<1> DEFINE c == owner[Receiver]
           answer == [message |-> Text.message, origin |-> Text.origin]
           n == Net!Popped
<1>1. /\ NP!TransportInv /\ LettersRight
      /\ Net!IsNext("message") /\ Receiver # None /\ c \in Clients
  BY DEF MonitoringInv, DeviceReceives, Arrives
<1>2. /\ NP!Good(n, {}) /\ n.alive = net.alive /\ n.connected = net.connected
      /\ NP!Moved(n, net, 1) /\ Len(n.queue) + 1 = Len(net.queue)
      /\ Receiver \in net.alive /\ LetterRight(Net!NextTask)
  BY <1>1, TakeLetter
<1>3. c \in clients /\ Receiver[2] = "client"
  BY <1>1, <1>2, Receivers
<1>4. Text.origin.device = c
  BY <1>2, <1>3 DEF LetterRight, Text, Receiver
<1>5. /\ net.queue[1] = Net!NextTask /\ 1 \in InFlight(c)
      /\ Origin(1) = Text.origin /\ Side(1) = "client"
  BY <1>1, <1>3, <1>4, HeadLetter DEF Origin, Side, Text, Receiver
<1>6. /\ messages' = [messages EXCEPT ![c] = Append(@, answer)]
      /\ SendNextMeterage(n, c)
      /\ UNCHANGED <<clientVars, serverVars, channelVars, meterages, lists>>
  BY DEF DeviceReceives, callVars
<1>7. answer.origin = Origin(1)
  BY <1>5
<1> HIDE DEF c, answer, n
<1>8. /\ \A i, j \in InFlight(c) : Ahead(i, j) => Before(Origin(i), Origin(j))
      /\ Before(Origin(1), Coming(c))
  BY <1>3, <1>5 DEF OrderInv, LettersInOrder
<1>9. \A j \in InFlight(c) : j > 1 => Before(Origin(1), Origin(j))
  <2> SUFFICES ASSUME NEW j \in InFlight(c), j > 1 PROVE Ahead(1, j)
    BY <1>5, <1>8
  <2>1. j \in Nat /\ Side(j) \in {"client", "server"}
    BY <1>1, FlightTypes, OrderTypes
  <2> QED BY <1>5, <2>1 DEF Ahead
<1>10. messages \in [Clients -> Seq([message : Center!Replies, origin : Origins])]
  BY DEF MonitoringInv, DevicesTyped
<1>11. \A x \in Clients : x # c => messages'[x] = messages[x]
  BY <1>6, <1>10
<1>12. ASSUME NEW x \in clients
       PROVE  /\ \A i, j \in DOMAIN messages'[x] : i < j =>
                    Before(messages'[x][i].origin, messages'[x][j].origin)
              /\ \A i \in DOMAIN messages'[x], j \in InFlight(x) :
                    j > 1 => Before(messages'[x][i].origin, Origin(j))
              /\ \A i \in DOMAIN messages'[x] : Before(messages'[x][i].origin, Coming(x))
  <2>0. x \in Clients /\ AnswersInOrder(x)
    BY DEF OrderInv, MonitoringInv, NP!TransportInv, NP!TypeOK
  <2>1. CASE x # c
    BY <1>11, <2>0, <2>1 DEF AnswersInOrder
  <2>2. CASE x = c
    <3> DEFINE Answers == [message : Center!Replies, origin : Origins]
    <3>1. messages[c] \in Seq(Answers) /\ messages'[c] = Append(messages[c], answer)
      BY <1>1, <1>6, <1>10
    <3> HIDE DEF Answers
    <3>2. DOMAIN messages[c] = 1 .. Len(messages[c]) /\ Len(messages[c]) \in Nat
      BY <3>1
    <3>3. /\ DOMAIN messages'[c] = 1 .. Len(messages[c]) + 1
          /\ \A i \in DOMAIN messages[c] : messages'[c][i] = messages[c][i]
          /\ messages'[c][Len(messages[c]) + 1] = answer
      BY <3>1, <3>2
    <3>4. \A i \in DOMAIN messages'[c] :
             \/ i \in DOMAIN messages[c] /\ messages'[c][i] = messages[c][i]
             \/ /\ messages'[c][i] = answer
                /\ \A j \in DOMAIN messages'[c] : i < j => FALSE
      BY <3>2, <3>3
    <3>5. \A i \in DOMAIN messages[c] : Before(messages[c][i].origin, Origin(1))
      BY <1>5, <2>0, <2>2 DEF AnswersInOrder
    <3>6. \A i, j \in DOMAIN messages'[c] : i < j =>
                Before(messages'[c][i].origin, messages'[c][j].origin)
      BY <1>7, <2>0, <2>2, <3>4, <3>5 DEF AnswersInOrder
    <3>7. \A i \in DOMAIN messages'[c], j \in InFlight(c) :
                j > 1 => Before(messages'[c][i].origin, Origin(j))
      BY <1>7, <1>9, <2>0, <2>2, <3>4 DEF AnswersInOrder
    <3>8. \A i \in DOMAIN messages'[c] : Before(messages'[c][i].origin, Coming(c))
      BY <1>7, <1>8, <2>0, <2>2, <3>4 DEF AnswersInOrder
    <3> QED BY <2>2, <3>6, <3>7, <3>8
  <2> QED BY <2>1, <2>2
<1>13. \A x \in Clients \ clients : messages'[x] = messages[x]
  BY <1>3, <1>11
<1> QED BY <1>2, <1>3, <1>6, <1>12, <1>13, SendNextKeepsOrder

LEMMA NextOrder == MonitoringInv /\ MonitoringInv' /\ OrderInv /\ [Next]_vars => OrderInv'
  BY CalmSteps, CalmKeepsOrder, ServerKeepsOrder, DeviceKeepsOrder, StartKeepsOrder

LEMMA OrderInvariance == Spec => []OrderInv
<1> QED BY InitOrder, NextOrder, MonitoringInvariance, PTL DEF Spec
-----------------------------------------------------------------------------
(* A letter on its way after a step was there before, behind those that      *)
(* left the queue, or was sent.                                              *)
LEMMA OnwardLetters ==
  ASSUME MonitoringInv', NEW k \in Nat, NEW T, Onward(k, T), NEW w \in OnTheWay'
  PROVE  \/ w \in T
         \/ /\ w \in OnTheWay
            /\ \E i \in InFlight(w.text.origin.device) : i > k /\ w = net.queue[i]
<1>1. PICK i \in DOMAIN net'.queue : w = net'.queue[i] /\ NP!IsWaiting(net', i)
  BY DEF OnTheWay, NP!Waiting
<1>2. i \in Nat \ {0}
  BY <1>1, NP!Places, NetAssumed DEF MonitoringInv, NP!TransportInv, NP!TypeOK
<1>3. CASE i + k \in DOMAIN net.queue /\ net'.queue[i] = net.queue[i + k]
  <2> DEFINE j == i + k
  <2>1. j > k /\ j \in DOMAIN net.queue /\ w = net.queue[j]
    BY <1>1, <1>2, <1>3
  <2> HIDE DEF j
  <2>2. NP!IsWaiting(net, j)
    BY <1>1, <2>1 DEF NP!IsWaiting
  <2> QED BY <2>1, <2>2, AnotherInFlight DEF OnTheWay, NP!Waiting
<1> QED BY <1>1, <1>3 DEF Onward

(* What is not obsolete is filed with its time stamp. *)
LEMMA StampsMove ==
  ASSUME NEW d \in ClientIds, NEW t, NEW m, CP!ProcessMeterage(d, t, m)
  PROVE  \/ /\ CP!IsObsolete(d, t) /\ lastTimeStamp' = lastTimeStamp
            /\ answered'.message = ObsoleteAnswer
         \/ /\ ~CP!IsObsolete(d, t) /\ lastTimeStamp' = [lastTimeStamp EXCEPT ![d] = t]
            /\ answered'.message # ObsoleteAnswer
<1>1. /\ ObsoleteAnswer = CP!MessageError("Obsolete")
      /\ CP!MessageError("NoSchedule") # ObsoleteAnswer
      /\ CP!MessageError("NoTimestamp") # ObsoleteAnswer
      /\ \A n : CP!MessageCommand(n) # ObsoleteAnswer
  BY SameAnswers DEF ObsoleteAnswer, CP!MessageError, CP!MessageCommand
<1>2. CASE CP!AnswerObsolete(d, t, m)
  BY <1>1, <1>2 DEF CP!AnswerObsolete, CP!Answer
<1>3. CASE CP!AnswerNoSchedule(d, t, m)
  BY <1>1, <1>3 DEF CP!AnswerNoSchedule, CP!Answer, CP!AcceptTimeStamp
<1>4. CASE CP!AnswerNoTimestamp(d, t, m)
  BY <1>1, <1>4 DEF CP!AnswerNoTimestamp, CP!Answer, CP!AcceptTimeStamp
<1>5. CASE CP!AnswerCommand(d, t, m)
  <2>1. CP!AcceptTimeStamp(d, t) /\ \E n : answered' = CP!Answer(d, t, m, CP!MessageCommand(n))
    BY <1>5 DEF CP!AnswerCommand
  <2> QED BY <1>1, <2>1 DEF CP!Answer, CP!AcceptTimeStamp
<1> QED BY <1>2, <1>3, <1>4, <1>5 DEF CP!ProcessMeterage

(* What was filed.  As long as a device exists, its meterage that was filed  *)
(* last under an identifier is earlier than those that wait for the server,  *)
(* and than the next one; and the command centre has its time stamp.         *)
StampsFiled ==
    \A d \in ClientIds :
        /\ lastTimeStamp[d] # None => /\ lastOrigin[d] # None
                                      /\ lastOrigin[d].timeStamp = lastTimeStamp[d]
        /\ lastOrigin[d] # None => meterages[lastOrigin[d].device] # None

MeteragesStamped ==
    \A w \in OnTheWay :
        w.channel[2] = "server" => w.text.message.timeStamp = w.text.origin.timeStamp

NoServerNoStamps == servers = {} => \A d \in ClientIds : lastTimeStamp[d] = None

FiledBefore(c) ==
    \A d \in ClientIds : lastOrigin[d] # None /\ lastOrigin[d].device = c =>
        /\ Before(lastOrigin[d], Coming(c))
        /\ \A w \in OnTheWay :
              w.text.origin.device = c /\ w.channel[2] = "server"
                => Before(lastOrigin[d], w.text.origin)

FiledInv ==
    /\ lastOrigin \in [ClientIds -> Origins \cup {None}]
    /\ StampsFiled
    /\ MeteragesStamped
    /\ NoServerNoStamps
    /\ \A c \in clients : FiledBefore(c)

LEMMA InitFiled == HistoryInit => FiledInv
<1> SUFFICES ASSUME HistoryInit PROVE FiledInv
  OBVIOUS
<1>1. NP!Init /\ CP!Init
  BY SameState, SameCenter DEF HistoryInit, Init
<1>2. net = NP!EmptyNet /\ clients = {} /\ \A d \in ClientIds : lastTimeStamp[d] = None
  BY <1>1 DEF NP!Init, CP!Init
<1>3. OnTheWay = {}
  BY <1>2 DEF OnTheWay, NP!Waiting, NP!EmptyNet
<1>4. lastOrigin = [d \in ClientIds |-> None]
  BY DEF HistoryInit
<1> QED BY <1>2, <1>3, <1>4 DEF FiledInv, StampsFiled, MeteragesStamped, NoServerNoStamps

(* A step that files nothing forgets at most all, with the server. *)
FilesNothing ==
    /\ lastOrigin' \in [ClientIds -> Origins \cup {None}]
    /\ \A d \in ClientIds : \/ lastOrigin'[d] = lastOrigin[d]
                            \/ lastOrigin'[d] = None /\ servers' = {}

LEMMA NothingFiled ==
  ASSUME MonitoringInv, FiledInv, [HistoryNext]_historyVars,
         \A d \in ClientIds : lastTimeStamp'[d] \in {lastTimeStamp[d], None}
  PROVE  FilesNothing
<1>1. lastOrigin \in [ClientIds -> Origins \cup {None}]
  BY DEF FiledInv
<1>2. CASE UNCHANGED historyVars
  BY <1>1, <1>2 DEF historyVars, FilesNothing
<1>3. CASE HistoryNext
  <2>1. lastOrigin' = [d \in ClientIds |-> IF servers' = {} THEN None
                                           ELSE IF Files(d) THEN Text.origin
                                           ELSE lastOrigin[d]]
    BY <1>3 DEF HistoryNext
  <2>2. ASSUME NEW d \in ClientIds PROVE ~Files(d)
    <3> SUFFICES ASSUME Files(d) PROVE FALSE
      OBVIOUS
    <3> DEFINE t == Text.message.timeStamp
    <3>1. t \in TimeStamps /\ CP!ProcessMeterage(d, t, Text.message.meterage)
      BY ServerUsesCenter DEF Files
    <3> HIDE DEF t
    <3>2. ~CP!IsObsolete(d, t) /\ lastTimeStamp' = [lastTimeStamp EXCEPT ![d] = t]
      BY <3>1, StampsMove DEF Files
    <3>3. lastTimeStamp \in [ClientIds -> TimeStamps \cup {None}]
      BY DEF MonitoringInv, CP!TypeOK
    <3>4. t \in Nat /\ t # None
      BY <3>1, CenterAssumption
    <3>5. lastTimeStamp[d] = t
      BY <3>2, <3>3, <3>4
    <3> QED BY <3>2, <3>4, <3>5 DEF CP!IsObsolete
  <2>3. lastOrigin' = [d \in ClientIds |-> IF servers' = {} THEN None ELSE lastOrigin[d]]
    BY <2>1, <2>2
  <2> QED BY <1>1, <2>3 DEF FilesNothing
<1> QED BY <1>2, <1>3

(* A connection that exists belongs to a server that does. *)
LEMMA ServerExists ==
  ASSUME NP!TransportInv, NEW ch \in net.alive, ch[2] = "server"
  PROVE  owner[ch] \in servers
<1>1. /\ owner[ch] \in Servers /\ peerId[ch] \in ClientIds
      /\ connections[owner[ch]][peerId[ch]] = ch
  BY DEF NP!TransportInv, NP!Holding, NP!ChannelsHeld
<1>2. ch # None
  BY NetAssumed DEF NP!TransportInv, NP!TypeOK, NP!Nets, NP!NullAssumption
<1> QED BY <1>1, <1>2 DEF NP!TransportInv, NP!Holding, NP!ServersHold

(* The program has no server, or none any more, only with an empty centre.   *)
LEMMA StampsNeedServer ==
  ASSUME MonitoringInv, NoServerNoStamps, [Next]_vars
  PROVE  NoServerNoStamps'
<1> SUFFICES ASSUME servers' = {}, NEW d \in ClientIds PROVE lastTimeStamp'[d] = None
  BY DEF NoServerNoStamps
<1>1. ASSUME servers = {}, lastTimeStamp' = lastTimeStamp PROVE lastTimeStamp'[d] = None
  BY <1>1 DEF NoServerNoStamps
<1>2. CASE UNCHANGED vars
  BY <1>1, <1>2 DEF vars, transportVars, serverVars, centerVars
<1>3. ASSUME NEW c \in Clients, DeviceCall(c) PROVE lastTimeStamp'[d] = None
  <2>1. lastTimeStamp' = lastTimeStamp
    BY <1>3 DEF DeviceCall, NewDevice, DeleteDevice, BindDevice, ConnectDevice,
                SelectDeviceEncoder, SetMeterages, StartMeterageSending, centerVars
  <2>2. servers' = servers
    BY <1>3 DEF DeviceCall, NewDevice, DeleteDevice, BindDevice, ConnectDevice,
                SelectDeviceEncoder, SetMeterages, StartMeterageSending, transportVars,
                serverVars, Net!NewClient, Net!DeleteClient, Net!Bind, Net!ConnectToHost,
                Net!serverVars
  <2> QED BY <1>1, <2>1, <2>2
<1>4. ASSUME NEW s \in Servers, MonitoringServerCall(s) PROVE lastTimeStamp'[d] = None
  <2>1. CASE NewMonitoringServer(s)
    BY <2>1 DEF NewMonitoringServer, Net!NewServer
  <2>2. CASE DeleteMonitoringServer(s)
    BY <2>2 DEF DeleteMonitoringServer
  <2>3. CASE \E sid \in ServerIds : ListenServer(s, sid)
    BY <1>1, <2>3 DEF ListenServer, Net!Listen, centerVars
  <2> QED BY <1>4, <2>1, <2>2, <2>3 DEF MonitoringServerCall
<1>5. ASSUME NEW a \in Algorithms, SelectServerEncoder(a) PROVE lastTimeStamp'[d] = None
  BY <1>5 DEF SelectServerEncoder, transportVars, serverVars
<1>6. ASSUME NEW id \in ClientIds, NEW s \in Schedules, SetDeviceWorkSchedule(id, s)
      PROVE  lastTimeStamp'[d] = None
  BY <1>6 DEF SetDeviceWorkSchedule, transportVars, serverVars
<1>7. CASE ProcessTask /\ ~ServerReceives
  <2>1. lastTimeStamp' = lastTimeStamp
    BY <1>7 DEF ProcessTask, ProcessConnection, DropMessage, ServerIgnores, DeviceThrows,
                DeviceReceives, centerVars
  <2>2. servers' = servers
    BY <1>7 DEF ProcessTask, ProcessConnection, DropMessage, ServerIgnores, DeviceThrows,
                DeviceReceives, serverVars, Net!serverVars, Net!ConnectInVain,
                Net!ConnectToServer, Net!DisconnectDeleted, Net!DisconnectClientSide,
                Net!DisconnectServerSide, Net!DeliverMessage
  <2> QED BY <1>1, <2>1, <2>2
<1>8. CASE ServerReceives
  <2>1. servers' = servers /\ Receiver \in net.alive /\ Receiver[2] = "server"
    BY <1>8, ReplySends DEF ServerReceives, serverVars
  <2>2. owner[Receiver] \in servers
    BY <2>1, ServerExists DEF MonitoringInv
  <2> QED BY <2>1, <2>2
<1> QED BY <1>2, <1>3, <1>4, <1>5, <1>6, <1>7, <1>8 DEF Next

LEMMA StillFiled ==
  ASSUME FiledInv, FilesNothing, NoServerNoStamps',
         \A c \in Clients : meterages'[c] = None => meterages[c] = None,
         \A d \in ClientIds : lastTimeStamp'[d] \in {lastTimeStamp[d], None}
  PROVE  StampsFiled'
<1> SUFFICES ASSUME NEW d \in ClientIds
             PROVE  /\ lastTimeStamp'[d] # None => /\ lastOrigin'[d] # None
                                                   /\ lastOrigin'[d].timeStamp = lastTimeStamp'[d]
                    /\ lastOrigin'[d] # None => meterages'[lastOrigin'[d].device] # None
  BY DEF StampsFiled
<1>1. CASE lastOrigin'[d] = None /\ servers' = {}
  BY <1>1 DEF NoServerNoStamps
<1>2. CASE lastOrigin'[d] = lastOrigin[d]
  <2>1. lastOrigin[d] # None => lastOrigin[d].device \in Clients
    BY DEF FiledInv, Origins
  <2> QED BY <1>2, <2>1 DEF FiledInv, StampsFiled
<1> QED BY <1>1, <1>2 DEF FilesNothing

LEMMA CalmKeepsFiled ==
  ASSUME MonitoringInv, MonitoringInv', OrderInv, FiledInv, CalmStep,
         FilesNothing, NoServerNoStamps'
  PROVE  FiledInv'
<1>1. OnTheWay' \subseteq OnTheWay
  BY CalmFacts, NP!MovedWaiting, NetAssumed DEF NP!Calm, OnTheWay
<1>2. MeteragesStamped'
  BY <1>1 DEF FiledInv, MeteragesStamped
<1>3. StampsFiled'
  BY CalmFacts, StillFiled DEF CalmStep
<1>4. ASSUME NEW c \in clients' PROVE FiledBefore(c)'
  <2>1. c \in Clients /\ DeviceStep(c)
    BY DEF CalmStep, MonitoringInv, NP!TransportInv, NP!TypeOK
  <2> SUFFICES ASSUME NEW d \in ClientIds, lastOrigin'[d] # None, lastOrigin'[d].device = c
               PROVE  /\ Before(lastOrigin'[d], Coming(c)')
                      /\ \A w \in OnTheWay' :
                            w.text.origin.device = c /\ w.channel[2] = "server"
                              => Before(lastOrigin'[d], w.text.origin)
    BY DEF FiledBefore
  <2>2. lastOrigin'[d] = lastOrigin[d] /\ meterages[c] # None
    BY DEF FilesNothing, FiledInv, StampsFiled
  <2>3. CASE c \in clients
    <3>1. FiledBefore(c)
      BY <2>3 DEF FiledInv
    <3>2. /\ Before(lastOrigin[d], Coming(c))
          /\ \A w \in OnTheWay : w.text.origin.device = c /\ w.channel[2] = "server"
                => Before(lastOrigin[d], w.text.origin)
      BY <2>2, <3>1 DEF FiledBefore
    <3>3. \/ lists'[c] = lists[c] /\ timeStamp'[c] = timeStamp[c]
          \/ lists'[c] = lists[c] + 1
      BY <1>4, CalmFacts
    <3>4. lastOrigin[d].list \in Nat /\ lists[c] \in Nat
      BY <2>1, <2>2, OrderTypes, OriginTypes DEF FiledInv
    <3>5. Before(lastOrigin[d], Coming(c)')
      BY <3>2, <3>3, <3>4 DEF Before, Coming
    <3> QED BY <1>1, <2>2, <3>2, <3>5
  <2>4. CASE c \notin clients
    BY <1>4, <2>2, <2>4, CalmFacts
  <2> QED BY <2>3, <2>4
<1> QED BY <1>2, <1>3, <1>4 DEF FiledInv, FilesNothing

LEMMA ServerKeepsFiled ==
  ASSUME MonitoringInv, MonitoringInv', OrderInv, FiledInv, ServerReceives, HistoryNext,
         NoServerNoStamps'
  PROVE  FiledInv'
<1> DEFINE t == Text.origin.timeStamp
           d == peerId[Receiver]
           o == Text.origin
<1>1. /\ NP!TransportInv /\ CP!TypeOK
      /\ Net!IsNext("message") /\ Receiver # None
  BY DEF MonitoringInv, ServerReceives, Arrives
<1>2. PICK T : /\ Onward(1, T)
               /\ \A task \in T : task.channel[2] = "client"
  BY ReplyStep
<1>3. /\ clients' = clients /\ meterages' = meterages
      /\ lists' = lists /\ timeStamp' = timeStamp /\ servers' = servers
  BY DEF ServerReceives, clientVars, serverVars, deviceVars, callVars
<1>4. /\ net.queue[1] = Net!NextTask /\ 1 \in InFlight(o.device)
      /\ Net!NextTask \in OnTheWay
  BY <1>1, HeadLetter
<1>5. Receiver[2] = "server" /\ Receiver \in net.alive
  BY ReplySends
<1>6. Text.message.timeStamp = t
  BY <1>4, <1>5 DEF FiledInv, MeteragesStamped, Text, Receiver
<1>7. o \in Origins /\ o # None /\ o.list \in Nat /\ t \in Nat /\ o.device \in Clients
  <2>1. Text \in Letters
    BY <1>1, <1>4, LetterType DEF OnTheWay, NP!TransportInv, Text
  <2> QED BY <2>1, OriginTypes, NoOriginAssumption DEF Letters, Origins
<1>8. /\ d \in ClientIds
      /\ \/ /\ CP!IsObsolete(d, t) /\ lastTimeStamp' = lastTimeStamp
            /\ answered'.message = ObsoleteAnswer
         \/ /\ ~CP!IsObsolete(d, t) /\ lastTimeStamp' = [lastTimeStamp EXCEPT ![d] = t]
            /\ answered'.message # ObsoleteAnswer
  BY <1>6, ServerUsesCenter, StampsMove
<1>9. servers # {}
  BY <1>1, <1>5, ServerExists
<1>10. lastOrigin' = [x \in ClientIds |->
                        IF x = d /\ answered'.message # ObsoleteAnswer THEN o ELSE lastOrigin[x]]
  <2>1. \A x \in ClientIds : Files(x) <=> x = d /\ answered'.message # ObsoleteAnswer
    BY DEF Files
  <2>2. lastOrigin' = [x \in ClientIds |-> IF Files(x) THEN o ELSE lastOrigin[x]]
    BY <1>3, <1>9 DEF HistoryNext
  <2> HIDE DEF o, d
  <2> QED BY <2>1, <2>2
<1> HIDE DEF t, d, o
<1>11. /\ lastTimeStamp \in [ClientIds -> TimeStamps \cup {None}]
       /\ lastOrigin \in [ClientIds -> Origins \cup {None}]
  BY <1>1 DEF CP!TypeOK, FiledInv
<1>12. lastOrigin' \in [ClientIds -> Origins \cup {None}]
  BY <1>7, <1>10, <1>11
<1>13. ASSUME NEW x \in ClientIds
       PROVE  \/ lastOrigin'[x] = lastOrigin[x] /\ lastTimeStamp'[x] = lastTimeStamp[x]
              \/ lastOrigin'[x] = o /\ lastTimeStamp'[x] = t
  BY <1>8, <1>10, <1>11
<1>14. StampsFiled'
  <2>1. o.timeStamp = t /\ meterages[o.device] # None
    BY <1>4 DEF OrderInv, Constructed, o, t, Text
  <2> QED BY <1>3, <1>7, <1>13, <2>1 DEF FiledInv, StampsFiled
<1>15. ASSUME NEW w \in OnTheWay', w.channel[2] = "server"
       PROVE  /\ w \in OnTheWay
              /\ \E i \in InFlight(w.text.origin.device) : i > 1 /\ w = net.queue[i]
  BY <1>2, <1>15, OnwardLetters
<1>16. MeteragesStamped'
  BY <1>15 DEF FiledInv, MeteragesStamped
<1>17. ASSUME NEW c \in clients PROVE FiledBefore(c)'
  <2>1. FiledBefore(c) /\ LettersInOrder(c)
    BY DEF FiledInv, OrderInv
  <2> SUFFICES ASSUME NEW x \in ClientIds, lastOrigin'[x] # None, lastOrigin'[x].device = c
               PROVE  /\ Before(lastOrigin'[x], Coming(c)')
                      /\ \A w \in OnTheWay' :
                            w.text.origin.device = c /\ w.channel[2] = "server"
                              => Before(lastOrigin'[x], w.text.origin)
    BY DEF FiledBefore
  <2>2. Coming(c)' = Coming(c)
    BY <1>3 DEF Coming
  <2>3. CASE lastOrigin'[x] = lastOrigin[x]
    BY <1>15, <2>1, <2>2, <2>3 DEF FiledBefore
  <2>4. CASE lastOrigin'[x] = o
    <3>1. o.device = c /\ Origin(1) = o
      BY <1>4, <2>4 DEF Origin, Text, o
    <3>2. Before(o, Coming(c))
      BY <1>4, <2>1, <3>1 DEF LettersInOrder
    <3>3. ASSUME NEW w \in OnTheWay', w.text.origin.device = c, w.channel[2] = "server"
          PROVE  Before(o, w.text.origin)
      <4>1. PICK i \in InFlight(c) : i > 1 /\ w = net.queue[i]
        BY <1>15, <3>3
      <4>2. i \in Nat /\ Side(1) = "server" /\ Side(i) = "server"
        BY <1>1, <1>4, <1>5, <3>3, <4>1, FlightTypes DEF Side, Receiver
      <4>3. Before(Origin(1), Origin(i))
        BY <1>4, <2>1, <3>1, <4>1, <4>2 DEF LettersInOrder, Ahead
      <4> QED BY <3>1, <4>1, <4>3 DEF Origin
    <3> QED BY <2>2, <2>4, <3>2, <3>3
  <2> QED BY <1>13, <2>3, <2>4
<1> QED BY <1>3, <1>12, <1>14, <1>16, <1>17 DEF FiledInv

(* A device that sends its next meterage, whatever answer it got before.     *)
LEMMA SendNextKeepsFiled ==
  ASSUME MonitoringInv, MonitoringInv', OrderInv, FiledInv, NEW n, NP!Good(n, {}),
         n.alive = net.alive, n.connected = net.connected,
         NEW k \in Nat, NP!Moved(n, net, k), Len(n.queue) + k = Len(net.queue),
         NEW x \in clients, SendNextMeterage(n, x),
         UNCHANGED <<clients, meterages, lists, lastTimeStamp>>,
         FilesNothing, NoServerNoStamps'
  PROVE  FiledInv'
<1>1. /\ x \in Clients /\ lists[x] \in Nat /\ timeStamp[x] \in Nat
      /\ timeStamp \in [Clients -> Nat]
  BY OrderTypes DEF MonitoringInv, NP!TransportInv, NP!TypeOK, DevicesTyped
<1>2. PICK T : /\ Onward(k, T)
               /\ \A task \in T : /\ task.text.origin.device = x
                                  /\ task.text.origin.list = lists[x]
                                  /\ task.text.origin.timeStamp = timeStamp[x]
                                  /\ task.text.message.timeStamp = timeStamp[x]
  BY SendNextStep
<1>3. ASSUME NEW w \in OnTheWay' PROVE w \in T \/ w \in OnTheWay
  BY <1>2, OnwardLetters
<1>4. MeteragesStamped'
  BY <1>2, <1>3 DEF FiledInv, MeteragesStamped
<1>5. StampsFiled'
  BY StillFiled
<1>6. /\ timeStamp'[x] \in {timeStamp[x], timeStamp[x] + 1}
      /\ \A c \in Clients \ {x} : timeStamp'[c] = timeStamp[c]
  BY <1>1 DEF SendNextMeterage
<1>7. ASSUME NEW c \in clients PROVE FiledBefore(c)'
  <2> SUFFICES ASSUME NEW d \in ClientIds, lastOrigin'[d] # None, lastOrigin'[d].device = c
               PROVE  /\ Before(lastOrigin'[d], Coming(c)')
                      /\ \A w \in OnTheWay' :
                            w.text.origin.device = c /\ w.channel[2] = "server"
                              => Before(lastOrigin'[d], w.text.origin)
    BY DEF FiledBefore
  <2>1. lastOrigin'[d] = lastOrigin[d] /\ c \in Clients
    BY DEF FilesNothing, MonitoringInv, NP!TransportInv, NP!TypeOK
  <2>2. /\ Before(lastOrigin[d], Coming(c))
        /\ \A w \in OnTheWay : w.text.origin.device = c /\ w.channel[2] = "server"
              => Before(lastOrigin[d], w.text.origin)
    BY <2>1 DEF FiledInv, FiledBefore
  <2>3. lastOrigin[d].timeStamp \in Nat
    BY <2>1, OriginTypes DEF FiledInv
  <2>4. Before(lastOrigin[d], Coming(c)')
    <3>1. CASE c = x
      BY <1>1, <1>6, <2>2, <2>3, <3>1 DEF Before, Coming
    <3>2. CASE c # x
      BY <1>6, <2>1, <2>2, <3>2 DEF Before, Coming
    <3> QED BY <3>1, <3>2
  <2>5. ASSUME NEW w \in T, w.text.origin.device = c PROVE Before(lastOrigin[d], w.text.origin)
    BY <1>2, <2>2, <2>5 DEF Before, Coming
  <2> QED BY <1>3, <2>1, <2>2, <2>4, <2>5
<1> QED BY <1>4, <1>5, <1>7 DEF FiledInv, FilesNothing

LEMMA StartKeepsFiled ==
  ASSUME MonitoringInv, MonitoringInv', OrderInv, FiledInv,
         NEW c \in Clients, StartMeterageSending(c), FilesNothing, NoServerNoStamps'
  PROVE  FiledInv'
<1>1. NP!TransportInv /\ c \in clients
  BY DEF MonitoringInv, StartMeterageSending
<1>2. /\ NP!Good(net, {}) /\ NP!Moved(net, net, 0) /\ Len(net.queue) + 0 = Len(net.queue)
      /\ SendNextMeterage(net, c)
  <2>1. net \in NP!Nets /\ NP!Good(net, {}) /\ Len(net.queue) \in Nat
    BY <1>1 DEF NP!TransportInv, NP!Good, NP!Orderly, NP!Nets
  <2> QED BY <2>1, NP!SameQueueMoved, NetAssumed DEF StartMeterageSending
<1>3. UNCHANGED <<clients, meterages, lists, lastTimeStamp>>
  BY DEF StartMeterageSending, clientVars, centerVars
<1> QED BY <1>1, <1>2, <1>3, SendNextKeepsFiled

LEMMA DeviceKeepsFiled ==
  ASSUME MonitoringInv, MonitoringInv', OrderInv, FiledInv, DeviceReceives,
         FilesNothing, NoServerNoStamps'
  PROVE  FiledInv'
<1> DEFINE c == owner[Receiver]
           n == Net!Popped
<1>1. /\ NP!TransportInv /\ Net!IsNext("message") /\ Receiver # None /\ c \in Clients
  BY DEF MonitoringInv, DeviceReceives, Arrives
<1>2. /\ NP!Good(n, {}) /\ n.alive = net.alive /\ n.connected = net.connected
      /\ NP!Moved(n, net, 1) /\ Len(n.queue) + 1 = Len(net.queue)
      /\ Receiver \in net.alive
  BY <1>1, TakeLetter DEF MonitoringInv
<1>3. c \in clients
  BY <1>1, <1>2, Receivers
<1>4. SendNextMeterage(n, c) /\ UNCHANGED <<clients, meterages, lists, lastTimeStamp>>
  BY DEF DeviceReceives, callVars, clientVars, centerVars
<1> HIDE DEF c, n
<1> QED BY <1>2, <1>3, <1>4, SendNextKeepsFiled

LEMMA NextFiled ==
  ASSUME MonitoringInv, MonitoringInv', OrderInv, FiledInv, [HistoryNext]_historyVars
  PROVE  FiledInv'
<1>1. [Next]_vars
  BY DEF HistoryNext, historyVars
<1>2. NoServerNoStamps'
  BY <1>1, StampsNeedServer DEF FiledInv
<1>3. CASE CalmStep
  <2>1. FilesNothing
    BY <1>3, NothingFiled DEF CalmStep
  <2> QED BY <1>2, <1>3, <2>1, CalmKeepsFiled
<1>4. CASE DeviceReceives \/ \E c \in Clients : StartMeterageSending(c)
  <2>1. lastTimeStamp' = lastTimeStamp
    BY <1>4 DEF DeviceReceives, StartMeterageSending, centerVars
  <2>2. FilesNothing
    BY <2>1, NothingFiled
  <2> QED BY <1>2, <1>4, <2>2, DeviceKeepsFiled, StartKeepsFiled
<1>5. CASE ServerReceives
  <2>1. CASE HistoryNext
    BY <1>2, <1>5, <2>1, ServerKeepsFiled
  <2>2. CASE UNCHANGED historyVars
    <3>1. lastTimeStamp' = lastTimeStamp /\ FilesNothing
      <4>1. lastTimeStamp' = lastTimeStamp
        BY <2>2 DEF historyVars, vars, centerVars
      <4> QED BY <4>1, NothingFiled
    <3>2. UNCHANGED transportVars /\ UNCHANGED deviceVars
      BY <2>2 DEF historyVars, vars
    <3>3. CalmStep
      BY <3>1, <3>2, StillCalm, LeftAlone
         DEF MonitoringInv, CalmStep, transportVars, clientVars, NP!ClientsKeep
    <3> QED BY <1>2, <3>1, <3>3, CalmKeepsFiled
  <2> QED BY <2>1, <2>2
<1> QED BY <1>1, <1>3, <1>4, <1>5, CalmSteps

(* What holds of every run of the program holds of those with the history.   *)
LEMMA HistoryIsRun == HistorySpec => Spec
<1>1. HistoryInit => Init
  BY DEF HistoryInit
<1>2. [HistoryNext]_historyVars => [Next]_vars
  BY DEF HistoryNext, historyVars
<1> QED BY <1>1, <1>2, PTL DEF HistorySpec, Spec

LEMMA FiledInvariance == HistorySpec => []FiledInv
<1>1. MonitoringInv /\ MonitoringInv' /\ OrderInv /\ FiledInv /\ [HistoryNext]_historyVars
        => FiledInv'
  BY NextFiled
<1> QED BY <1>1, InitFiled, HistoryIsRun, MonitoringInvariance, OrderInvariance, PTL
        DEF HistorySpec
-----------------------------------------------------------------------------
(* How many exchanges are under way.  The letters after a step are counted   *)
(* by the places they had before, or would have got at the end of the queue. *)
Behind(k, c) == {i \in InFlight(c) : i > k}

LEMMA FlightFinite ==
  ASSUME NP!TransportInv, NEW c
  PROVE  IsFiniteSet(InFlight(c)) /\ Cardinality(InFlight(c)) \in Nat
<1>1. InFlight(c) \in SUBSET (1 .. Len(net.queue)) /\ Len(net.queue) \in Nat
  BY FlightTypes DEF NP!TransportInv, NP!TypeOK, NP!Nets
<1>2. IsFiniteSet(1 .. Len(net.queue))
  BY <1>1, FS_Interval
<1> QED BY <1>1, <1>2, FS_Subset, FS_CardinalityType

LEMMA FlightFiniteNext ==
  ASSUME (NP!TransportInv)', NEW c
  PROVE  /\ IsFiniteSet(InFlight(c)') /\ Cardinality(InFlight(c)') \in Nat
         /\ InFlight(c)' \subseteq Nat \ {0}
<1>1. net'.queue \in Seq(NP!Tasks)
  BY DEF NP!TransportInv, NP!TypeOK, NP!Nets
<1>2. DOMAIN net'.queue = 1 .. Len(net'.queue) /\ Len(net'.queue) \in Nat
  BY <1>1
<1>3. InFlight(c)' \in SUBSET (1 .. Len(net'.queue))
  BY <1>2 DEF InFlight
<1>4. IsFiniteSet(1 .. Len(net'.queue))
  BY <1>2, FS_Interval
<1>5. IsFiniteSet(InFlight(c)')
  BY <1>3, <1>4, FS_Subset
<1> QED BY <1>2, <1>3, <1>5, FS_CardinalityType

LEMMA NoMoreThan ==
  ASSUME NP!TransportInv, (NP!TransportInv)', NEW k \in Nat, NEW T, Onward(k, T), NEW c,
         NEW S, IsFiniteSet(S), Behind(k, c) \subseteq S,
         (\E task \in T : task.text.origin.device = c) => Len(net.queue) + 1 \in S
  PROVE  Cardinality(InFlight(c)') <= Cardinality(S)
<1> DEFINE Q == InFlight(c)'
           f == [i \in Q |-> i + k]
<1>1. Q \subseteq Nat \ {0}
  BY FlightFiniteNext
<1>2. ASSUME NEW i \in Q PROVE i + k \in S
  <2>1. i \in DOMAIN net'.queue /\ NP!IsWaiting(net', i)
        /\ net'.queue[i].text.origin.device = c
    BY <1>2 DEF InFlight, IsLetter, NP!IsWaiting
  <2>2. CASE i + k \in DOMAIN net.queue /\ net'.queue[i] = net.queue[i + k]
    <3>1. i + k \in InFlight(c)
      BY <2>1, <2>2, AnotherInFlight DEF NP!IsWaiting
    <3>2. i + k > k
      BY <1>1, <1>2
    <3> QED BY <3>1, <3>2 DEF Behind
  <2> QED BY <2>1, <2>2 DEF Onward
<1>3. f \in [Q -> S]
  BY <1>2
<1>4. \A i, j \in Q : i + k = j + k => i = j
  BY <1>1
<1>5. f \in Injection(Q, S)
  BY <1>3, <1>4 DEF Injection, IsInjective
<1> HIDE DEF f, Q
<1>6. Cardinality(Q) <= Cardinality(S)
  BY <1>5, FS_Injection
<1> QED BY <1>6 DEF Q

LEMMA NoFewerThan ==
  ASSUME NP!TransportInv, (NP!TransportInv)', NEW k \in Nat, NEW c,
         NEW S, S \subseteq Behind(k, c) \cup {Len(net.queue) + 1},
         \A i \in Behind(k, c) : i - k \in DOMAIN net'.queue /\ net'.queue[i - k] = net.queue[i],
         Len(net.queue) + 1 \in S => Len(net.queue) + 1 - k \in InFlight(c)'
  PROVE  Cardinality(S) <= Cardinality(InFlight(c)')
<1> DEFINE Q == InFlight(c)'
           f == [i \in S |-> i - k]
<1>1. Len(net.queue) \in Nat
  BY DEF NP!TransportInv, NP!TypeOK, NP!Nets
<1>2. S \subseteq Nat
  BY <1>1, FlightTypes DEF Behind
<1>3. ASSUME NEW i \in Behind(k, c) PROVE i - k \in Q
  <2> DEFINE j == i - k
  <2>1. i \in InFlight(c) /\ j \in DOMAIN net'.queue /\ net'.queue[j] = net.queue[i]
    BY <1>3 DEF Behind
  <2> HIDE DEF j
  <2>2. j \in Q
    BY <2>1 DEF InFlight, IsLetter
  <2> QED BY <2>2 DEF j
<1>4. \A i \in S : i - k \in Q
  BY <1>3
<1>5. f \in [S -> Q]
  BY <1>4
<1>6. \A i, j \in S : i - k = j - k => i = j
  BY <1>2
<1>7. f \in Injection(S, Q)
  BY <1>5, <1>6 DEF Injection, IsInjective
<1>8. IsFiniteSet(Q)
  BY FlightFiniteNext
<1> HIDE DEF f, Q
<1>9. Cardinality(S) <= Cardinality(Q)
  BY <1>7, <1>8, FS_Injection
<1> QED BY <1>9 DEF Q

LEMMA OneMore ==
  ASSUME NEW S, IsFiniteSet(S), NEW x
  PROVE  /\ IsFiniteSet(S \cup {x})
         /\ Cardinality(S \cup {x}) <= Cardinality(S) + 1
         /\ x \notin S => Cardinality(S \cup {x}) = Cardinality(S) + 1
<1>1. Cardinality(S) \in Nat
  BY FS_CardinalityType
<1>2. /\ IsFiniteSet(S \cup {x})
      /\ Cardinality(S \cup {x}) = IF x \in S THEN Cardinality(S) ELSE Cardinality(S) + 1
  BY FS_AddElement
<1> QED BY <1>1, <1>2

(* The head of the queue makes place for one letter at its end. *)
LEMMA Exchanged ==
  ASSUME NP!TransportInv, NEW c, 1 \in InFlight(c),
         NEW S, S = Behind(1, c) \cup {Len(net.queue) + 1}
  PROVE  IsFiniteSet(S) /\ Cardinality(S) = Cardinality(InFlight(c))
<1> DEFINE F == InFlight(c)
           B == Behind(1, c)
           last == Len(net.queue) + 1
<1>1. IsFiniteSet(F) /\ Cardinality(F) \in Nat
  BY FlightFinite
<1>2. B = F \ {1}
  BY FlightTypes DEF Behind
<1>3. last \notin B
  BY FlightTypes DEF Behind
<1>4. S = B \cup {last} /\ 1 \in F
  OBVIOUS
<1> HIDE DEF F, B, last
<1>5. IsFiniteSet(B) /\ Cardinality(B) = Cardinality(F) - 1
  BY <1>1, <1>2, <1>4, FS_RemoveElement
<1>6. IsFiniteSet(S) /\ Cardinality(S) = Cardinality(B) + 1
  BY <1>3, <1>4, <1>5, OneMore
<1>7. Cardinality(S) = Cardinality(F)
  BY <1>1, <1>5, <1>6
<1> QED BY <1>6, <1>7 DEF F

LEMMA AllBehind ==
  ASSUME NP!TransportInv, NEW k \in {0, 1}, NEW c, k = 1 => 1 \notin InFlight(c)
  PROVE  Behind(k, c) = InFlight(c)
  BY FlightTypes DEF Behind

(* What the device sends when an answer arrives. *)
LEMMA DeviceSends ==
  ASSUME MonitoringInv, DeviceReceives
  PROVE  LET c == owner[Receiver]
         IN  /\ c \in clients /\ c = Text.origin.device /\ 1 \in InFlight(c)
             /\ \E T : /\ Onward(1, T) /\ Kept(1)
                       /\ \A task \in T : /\ task.text.origin.device = c
                                          /\ task.task = "message" /\ task.channel # None
                       /\ ~ListSent(c) /\ clientChannel[c] \in net.connected =>
                             T # {} /\ \A task \in T : NP!Sent(net', net, 1, task)
<1> DEFINE c == owner[Receiver]
           n == Net!Popped
<1>1. /\ NP!TransportInv /\ LettersRight
      /\ Net!IsNext("message") /\ Receiver # None /\ c \in Clients
  BY DEF MonitoringInv, DeviceReceives, Arrives
<1>2. /\ NP!Good(n, {}) /\ n.alive = net.alive /\ n.connected = net.connected
      /\ NP!Moved(n, net, 1) /\ Len(n.queue) + 1 = Len(net.queue)
      /\ Receiver \in net.alive /\ LetterRight(Net!NextTask)
  BY <1>1, TakeLetter
<1>3. c \in clients /\ Receiver[2] = "client"
  BY <1>1, <1>2, Receivers
<1>4. Text.origin.device = c
  BY <1>2, <1>3 DEF LetterRight, Text, Receiver
<1>5. 1 \in InFlight(c)
  BY <1>1, <1>4, HeadLetter
<1>6. SendNextMeterage(n, c)
  BY DEF DeviceReceives
<1> HIDE DEF c, n
<1>7. PICK T : /\ Onward(1, T) /\ Kept(1)
               /\ \A task \in T : /\ task.text.origin.device = c
                                  /\ task.task = "message" /\ task.channel # None
               /\ ~ListSent(c) /\ clientChannel[c] \in net.connected =>
                     T # {} /\ \A task \in T : NP!Sent(net', net, 1, task)
  BY <1>2, <1>3, <1>6, SendNextStep
<1> QED BY <1>3, <1>4, <1>5, <1>7 DEF c

(* No step starts an exchange but startMeterageSending.                      *)
LEMMA CalmStartsNone ==
  ASSUME MonitoringInv, MonitoringInv', OrderInv, OneExchangePerStart, CalmStep,
         NEW c \in clients'
  PROVE  Cardinality(InFlight(c)') <= starts'[c]
<1>1. PICK k \in {0, 1} : NP!Calm(k)
  BY CalmFacts
<1>2. NP!TransportInv /\ (NP!TransportInv)' /\ k \in Nat /\ Onward(k, {})
  BY <1>1, MovedOnward DEF MonitoringInv, NP!Calm
<1>3. c \in Clients /\ DeviceStep(c)
  BY <1>2 DEF CalmStep, NP!TransportInv, NP!TypeOK
<1>4. starts'[c] = starts[c] /\ starts[c] \in Nat
  BY <1>3, BoundsAssumption
     DEF DeviceStep, Leaves, Constructs, Deletes, Refills, MonitoringInv, DevicesTyped
<1>5. Cardinality(InFlight(c)) <= starts[c] /\ IsFiniteSet(InFlight(c))
  <2>1. CASE c \in clients
    BY <1>2, <2>1, FlightFinite DEF OneExchangePerStart
  <2>2. CASE c \notin clients
    <3>1. meterages[c] = None
      BY <2>2, CalmFacts
    <3>2. InFlight(c) = {}
      BY <1>2, <3>1, FlightTypes DEF OrderInv, Constructed
    <3> QED BY <1>4, <3>2, FS_EmptySet
  <2> QED BY <2>1, <2>2
<1>6. Cardinality(InFlight(c)') <= Cardinality(InFlight(c))
  <2> DEFINE S == InFlight(c)
             T == {}
  <2>1. IsFiniteSet(S) /\ Behind(k, c) \subseteq S /\ Onward(k, T)
        /\ ((\E task \in T : task.text.origin.device = c) => Len(net.queue) + 1 \in S)
    BY <1>2, <1>5 DEF Behind
  <2> HIDE DEF S, T
  <2>2. Cardinality(InFlight(c)') <= Cardinality(S)
    BY <1>2, <2>1, NoMoreThan
  <2> QED BY <2>2 DEF S
<1>7. Cardinality(InFlight(c)) \in Nat /\ Cardinality(InFlight(c)') \in Nat
  BY <1>2, FlightFinite, FlightFiniteNext
<1> QED BY <1>4, <1>5, <1>6, <1>7

(* An answer or the next meterage takes the place of what arrived. *)
LEMMA AnswersStartNone ==
  ASSUME NP!TransportInv, (NP!TransportInv)', NEW T, Onward(1, T), NEW device,
         1 \in InFlight(device), \A task \in T : task.text.origin.device = device, NEW c
  PROVE  Cardinality(InFlight(c)') <= Cardinality(InFlight(c))
<1>1. CASE c = device
  <2> DEFINE S == Behind(1, c) \cup {Len(net.queue) + 1}
  <2>1. /\ S = Behind(1, c) \cup {Len(net.queue) + 1}
        /\ Behind(1, c) \subseteq S /\ Len(net.queue) + 1 \in S
    OBVIOUS
  <2> HIDE DEF S
  <2>2. IsFiniteSet(S) /\ Cardinality(S) = Cardinality(InFlight(c))
    BY <1>1, <2>1, Exchanged
  <2>3. Cardinality(InFlight(c)') <= Cardinality(S)
    BY <2>1, <2>2, NoMoreThan
  <2> QED BY <2>2, <2>3
<1>2. CASE c # device
  <2> DEFINE S == InFlight(c)
  <2>1. IsFiniteSet(S) /\ Behind(1, c) \subseteq S
        /\ ((\E task \in T : task.text.origin.device = c) => Len(net.queue) + 1 \in S)
    BY <1>2, FlightFinite DEF Behind
  <2> HIDE DEF S
  <2>2. Cardinality(InFlight(c)') <= Cardinality(S)
    BY <2>1, NoMoreThan
  <2> QED BY <2>2 DEF S
<1> QED BY <1>1, <1>2

LEMMA StartStartsOne ==
  ASSUME MonitoringInv, MonitoringInv', OneExchangePerStart,
         NEW c \in Clients, StartMeterageSending(c), NEW x \in clients'
  PROVE  Cardinality(InFlight(x)') <= starts'[x]
<1>1. NP!TransportInv /\ (NP!TransportInv)' /\ c \in clients
  BY DEF MonitoringInv, StartMeterageSending
<1>2. /\ NP!Good(net, {}) /\ NP!Moved(net, net, 0) /\ Len(net.queue) + 0 = Len(net.queue)
      /\ SendNextMeterage(net, c)
  <2>1. net \in NP!Nets /\ NP!Good(net, {}) /\ Len(net.queue) \in Nat
    BY <1>1 DEF NP!TransportInv, NP!Good, NP!Orderly, NP!Nets
  <2> QED BY <2>1, NP!SameQueueMoved, NetAssumed DEF StartMeterageSending
<1>3. PICK T : Onward(0, T) /\ \A task \in T : task.text.origin.device = c
  BY <1>1, <1>2, SendNextStep
<1>4. /\ x \in clients /\ x \in Clients
      /\ starts' = [starts EXCEPT ![c] = IF InFlight(c) = {} THEN 1 ELSE starts[c] + 1]
  BY <1>1 DEF StartMeterageSending, clientVars, NP!TransportInv, NP!TypeOK
<1>5. starts \in [Clients -> 0 .. MaxStarts] /\ starts[x] \in Nat
  BY <1>4, BoundsAssumption DEF MonitoringInv, DevicesTyped
<1> DEFINE F == InFlight(x)
           last == Len(net.queue) + 1
<1>6. IsFiniteSet(F) /\ Cardinality(F) \in Nat /\ Cardinality(F) <= starts[x]
  BY <1>1, <1>4, FlightFinite DEF OneExchangePerStart
<1>7. Behind(0, x) \subseteq F /\ last = Len(net.queue) + 1
  BY DEF Behind
<1>8. Cardinality(InFlight(x)') \in Nat
  BY <1>1, FlightFiniteNext
<1>9. CASE x # c
  <2>1. (\E task \in T : task.text.origin.device = x) => last \in F
    BY <1>3, <1>9
  <2>2. starts'[x] = starts[x]
    BY <1>4, <1>5, <1>9
  <2> HIDE DEF F
  <2>3. Cardinality(InFlight(x)') <= Cardinality(F)
    BY <1>1, <1>3, <1>6, <1>7, <2>1, NoMoreThan
  <2> QED BY <1>5, <1>6, <1>8, <2>2, <2>3
<1>10. CASE x = c
  <2> DEFINE S == F \cup {last}
  <2>1. starts'[x] = IF F = {} THEN 1 ELSE starts[x] + 1
    BY <1>4, <1>5, <1>10
  <2>2. F = {} => Cardinality(F) = 0
    BY FS_EmptySet
  <2> HIDE DEF F
  <2>3. IsFiniteSet(S) /\ Cardinality(S) <= Cardinality(F) + 1
    BY <1>6, OneMore
  <2>4. Behind(0, x) \subseteq S /\ last \in S
    BY <1>7
  <2>5. Cardinality(S) \in Nat
    BY <2>3, FS_CardinalityType
  <2> HIDE DEF S
  <2>6. Cardinality(InFlight(x)') <= Cardinality(S)
    BY <1>1, <1>3, <1>7, <2>3, <2>4, NoMoreThan
  <2> QED BY <1>5, <1>6, <1>8, <2>1, <2>2, <2>3, <2>5, <2>6
<1> QED BY <1>9, <1>10

LEMMA InitExchanges == Init => OneExchangePerStart
<1> SUFFICES ASSUME Init PROVE OneExchangePerStart
  OBVIOUS
<1>1. NP!Init
  BY SameState DEF Init
<1> QED BY <1>1 DEF NP!Init, OneExchangePerStart

LEMMA NextExchanges ==
  MonitoringInv /\ MonitoringInv' /\ OrderInv /\ OneExchangePerStart /\ [Next]_vars
     => OneExchangePerStart'
<1> SUFFICES ASSUME MonitoringInv, MonitoringInv', OrderInv, OneExchangePerStart, [Next]_vars,
                    NEW c \in clients'
             PROVE  Cardinality(InFlight(c)') <= starts'[c]
  BY DEF OneExchangePerStart
<1>1. /\ NP!TransportInv /\ (NP!TransportInv)' /\ c \in Clients
      /\ starts \in [Clients -> 0 .. MaxStarts]
  BY DEF MonitoringInv, NP!TransportInv, NP!TypeOK, DevicesTyped
<1>2. ASSUME c \in clients, starts'[c] = starts[c],
             Cardinality(InFlight(c)') <= Cardinality(InFlight(c))
      PROVE  Cardinality(InFlight(c)') <= starts'[c]
  <2>1. Cardinality(InFlight(c)) <= starts[c] /\ starts[c] \in Nat
    BY <1>1, <1>2, BoundsAssumption DEF OneExchangePerStart
  <2>2. Cardinality(InFlight(c)) \in Nat /\ Cardinality(InFlight(c)') \in Nat
    BY <1>1, FlightFinite, FlightFiniteNext
  <2> QED BY <1>2, <2>1, <2>2
<1>3. CASE ServerReceives
  <2>1. PICK T : Onward(1, T) /\ \A task \in T : task.text.origin = Text.origin
    BY <1>3, ReplyStep
  <2>2. 1 \in InFlight(Text.origin.device)
    BY <1>3, HeadLetter DEF ServerReceives, Arrives
  <2>3. Cardinality(InFlight(c)') <= Cardinality(InFlight(c))
    BY <1>1, <2>1, <2>2, AnswersStartNone
  <2> QED BY <1>2, <1>3, <2>3 DEF ServerReceives, clientVars, deviceVars, callVars
<1>4. CASE DeviceReceives
  <2>1. PICK device : /\ device = Text.origin.device /\ 1 \in InFlight(device)
                      /\ \E T : /\ Onward(1, T) /\ Kept(1)
                                /\ \A task \in T : task.text.origin.device = device
    BY <1>4, DeviceSends
  <2>2. Cardinality(InFlight(c)') <= Cardinality(InFlight(c))
    BY <1>1, <2>1, AnswersStartNone
  <2> QED BY <1>2, <1>4, <2>2 DEF DeviceReceives, clientVars, callVars
<1> QED BY <1>3, <1>4, CalmSteps, CalmStartsNone, StartStartsOne

LEMMA ExchangesInvariance == Spec => []OneExchangePerStart
<1> QED BY InitExchanges, NextExchanges, MonitoringInvariance, OrderInvariance, PTL DEF Spec

(* The letters of a connected device all travel on its own link. *)
LEMMA OwnLink ==
  ASSUME MonitoringInv, OrderInv, NEW c \in clients, Connected(c), NEW i \in InFlight(c)
  PROVE  /\ net.queue[i].channel \in {clientChannel[c], NP!Peer(clientChannel[c])}
         /\ Side(i) = "server" => net.queue[i].channel = NP!Peer(clientChannel[c])
         /\ NP!Peer(clientChannel[c]) \in net.connected
<1> DEFINE w == net.queue[i]
           ch == w.channel
<1>1. NP!TransportInv /\ w \in OnTheWay /\ LetterRight(w)
      /\ ch \in net.alive /\ ch \in NP!Channels /\ w.text.origin.device = c
  BY FlightTypes DEF MonitoringInv, LettersRight
<1>2. NP!Peer(clientChannel[c]) \in net.connected
  BY <1>1 DEF Connected, NP!TransportInv, NP!Good, NP!Paired
<1>3. \A x \in net.alive : x[2] = "client" => clientChannel[owner[x]] = x
  BY <1>1 DEF NP!TransportInv, NP!Holding, NP!ChannelsHeld
<1>4. ch[2] \in {"client", "server"} /\ NP!Peer(NP!Peer(ch)) = ch
      /\ (ch[2] = "server" => NP!Peer(ch)[2] = "client")
  BY <1>1, NP!PeerProperties, NetAssumed
<1>5. CASE ch[2] = "client"
  BY <1>1, <1>2, <1>3, <1>5 DEF LetterRight, Side
<1>6. CASE ch[2] = "server"
  <2>1. NP!Peer(ch) \in net.alive
    BY <1>1, <1>6 DEF OrderInv, SendersStay
  <2>2. owner[NP!Peer(ch)] = c
    BY <1>1, <1>6, <2>1 DEF LetterRight
  <2>3. clientChannel[c] = NP!Peer(ch)
    BY <1>3, <1>4, <1>6, <2>1, <2>2
  <2> QED BY <1>2, <1>4, <2>3
<1> QED BY <1>4, <1>5, <1>6

(* Where both sides use the algorithm of a letter it does not arrive in vain. *)
LEMMA Answered ==
  ASSUME MonitoringInv, OrderInv, NEW c \in clients, 1 \in InFlight(c),
         Text.algorithm = deviceEncoder[c], Text.algorithm = serverEncoder,
         deviceEncoder[c] # None
  PROVE  Arrives(Clients \cup Servers) /\ ~ServerIgnores /\ ~DeviceThrows
<1>1. /\ NP!TransportInv /\ net.queue[1] \in OnTheWay /\ LetterRight(net.queue[1])
      /\ net.queue[1].channel \in net.alive /\ net.queue[1].text \in Letters
      /\ net.queue[1].text.origin.device = c
      /\ 1 \in DOMAIN net.queue /\ NP!IsWaiting(net, 1)
  BY FlightTypes, AnotherInFlight DEF MonitoringInv, LettersRight
<1>2. Net!NextTask = net.queue[1] /\ Receiver = net.queue[1].channel
      /\ Text = net.queue[1].text
  BY DEF Net!NextTask, Receiver, Text
<1>3. Net!IsNext("message") /\ Receiver # None
  <2>1. net.queue # <<>>
    BY <1>1
  <2> QED BY <1>1, <1>2, <2>1 DEF Net!IsNext, NP!IsWaiting
<1>4. /\ owner[Receiver] \in Clients \cup Servers
      /\ owner[Receiver] \in Clients <=> Receiver[2] = "client"
      /\ owner[Receiver] \in Servers <=> Receiver[2] = "server"
  <2>1. Receiver[2] \in {"client", "server"}
    BY <1>1, <1>2 DEF NP!TransportInv, NP!TypeOK, NP!Nets, NP!Channels
  <2> QED BY <1>1, <1>2, <2>1, Receivers
<1>5. Text.message \in Center!MeterageMessages \cup Center!Replies
  BY <1>1, <1>2 DEF Letters
<1>6. ~ServerIgnores
  <2> SUFFICES ASSUME Arrives(Servers) PROVE Understood(serverEncoder, {"Meterage"})
    BY DEF ServerIgnores
  <2>1. Text.message.type = "Meterage"
    BY <1>1, <1>2, <1>4 DEF Arrives, LetterRight
  <2> QED BY <2>1 DEF Understood
<1>7. ~DeviceThrows
  <2> SUFFICES ASSUME Arrives(Clients)
               PROVE  Understood(deviceEncoder[owner[Receiver]], {"Command", "Error"})
    BY DEF DeviceThrows
  <2>1. Receiver[2] = "client" /\ owner[Receiver] = c
    BY <1>1, <1>2, <1>4 DEF Arrives, LetterRight
  <2>2. Text.message.type # "Meterage"
    BY <1>1, <1>2, <2>1 DEF LetterRight
  <2>3. Text.message.type \in {"Command", "Error"}
    BY <1>5, <2>2 DEF Center!MeterageMessages, Center!Replies
  <2> QED BY <2>1, <2>3 DEF Understood
<1> QED BY <1>3, <1>4, <1>6, <1>7 DEF Arrives

LEMMA CalmEndsNone ==
  ASSUME MonitoringInv, MonitoringInv', OrderInv, CalmStep,
         NEW c \in clients, Connected(c), Connected(c)',
         Text.algorithm = deviceEncoder[c], Text.algorithm = serverEncoder,
         deviceEncoder[c] # None
  PROVE  Cardinality(InFlight(c)) <= Cardinality(InFlight(c)')
<1>1. NP!TransportInv /\ (NP!TransportInv)' /\ c \in Clients
  BY DEF MonitoringInv, NP!TransportInv, NP!TypeOK
<1>2. PICK k \in {0, 1} : NP!Calm(k) /\ (k = 1 => 1 \notin InFlight(c))
  <2>1. 1 \in InFlight(c) => Arrives(Clients \cup Servers) /\ ~ServerIgnores /\ ~DeviceThrows
    BY Answered
  <2>2. CASE NP!Calm(0)
    BY <2>2
  <2>3. CASE ~NP!Calm(0)
    <3>1. NP!Calm(1) /\ 1 \notin InFlight(c)
      BY <2>1, <2>3 DEF CalmStep
    <3> QED BY <3>1
  <2> QED BY <2>2, <2>3
<1>3. clientChannel'[c] = clientChannel[c]
  <2>1. clientChannel[c] # None /\ clientChannel'[c] # None
    BY DEF Connected
  <2>2. NP!ClientsKeep
    BY DEF CalmStep
  <2> QED BY <1>1, <2>1, <2>2 DEF NP!ClientsKeep
<1>4. {clientChannel[c], NP!Peer(clientChannel[c])} \subseteq net'.alive
  <2> DEFINE ch == clientChannel[c]
  <2>1. ch \in net'.connected
    BY <1>3 DEF Connected
  <2> HIDE DEF ch
  <2>2. NP!Good(net', {}) /\ net' \in NP!Nets
    BY <1>1 DEF NP!TransportInv, NP!TypeOK
  <2>3. NP!Peer(ch) \in net'.connected
    BY <2>1, <2>2 DEF NP!Good, NP!Paired
  <2>4. net'.connected \subseteq net'.alive
    BY <2>2 DEF NP!Good, NP!Orderly
  <2>5. {ch, NP!Peer(ch)} \subseteq net'.alive
    BY <2>1, <2>3, <2>4
  <2> QED BY <2>5 DEF ch
<1>5. ASSUME NEW i \in InFlight(c), i > k
      PROVE  i - k \in DOMAIN net'.queue /\ net'.queue[i - k] = net.queue[i]
  <2>1. i \in DOMAIN net.queue /\ NP!IsWaiting(net, i) /\ net.queue[i].channel \in net'.alive
    BY <1>4, OwnLink, AnotherInFlight
  <2> QED BY <1>2, <1>5, <2>1 DEF NP!Calm, NP!Moved
<1> DEFINE S == InFlight(c)
<1>6. S \subseteq Behind(k, c) \cup {Len(net.queue) + 1} /\ Len(net.queue) + 1 \notin S
  BY <1>1, <1>2, AllBehind, FlightTypes
<1>7. k \in Nat /\ \A i \in Behind(k, c) :
         i - k \in DOMAIN net'.queue /\ net'.queue[i - k] = net.queue[i]
  BY <1>2, <1>5 DEF Behind
<1> HIDE DEF S
<1>8. Cardinality(S) <= Cardinality(InFlight(c)')
  BY <1>1, <1>6, <1>7, NoFewerThan
<1> QED BY <1>8 DEF S

(* What arrives is answered, if it concerns the device, or leaves its letters *)
(* alone.                                                                     *)
LEMMA AnswersEndNone ==
  ASSUME NP!TransportInv, (NP!TransportInv)', Kept(1), NEW c,
         NEW device, 1 \in InFlight(device),
         NEW T, \A task \in T : /\ task.text.origin.device = device
                                /\ task.task = "message" /\ task.channel # None,
         c = device => T # {} /\ \A task \in T : NP!Sent(net', net, 1, task)
  PROVE  Cardinality(InFlight(c)) <= Cardinality(InFlight(c)')
<1> DEFINE last == Len(net.queue) + 1
<1>1. \A i \in Behind(1, c) : i - 1 \in DOMAIN net'.queue /\ net'.queue[i - 1] = net.queue[i]
  BY AnotherInFlight DEF Kept, Behind
<1>2. CASE c = device
  <2> DEFINE S == Behind(1, c) \cup {last}
  <2>1. PICK task \in T : NP!Sent(net', net, 1, task)
    BY <1>2
  <2>2. last - 1 \in DOMAIN net'.queue /\ net'.queue[last - 1] = task
    BY <2>1 DEF NP!Sent
  <2> DEFINE place == last - 1
  <2>3. place \in DOMAIN net'.queue /\ net'.queue[place] = task
    BY <2>2
  <2> HIDE DEF place
  <2>4. place \in InFlight(c)'
    BY <1>2, <2>1, <2>3 DEF InFlight, IsLetter
  <2>5. last - 1 \in InFlight(c)'
    BY <2>4 DEF place
  <2>6. S = Behind(1, c) \cup {last}
    OBVIOUS
  <2> HIDE DEF S
  <2>7. Cardinality(S) = Cardinality(InFlight(c))
    BY <1>2, <2>6, Exchanged
  <2>8. Cardinality(S) <= Cardinality(InFlight(c)')
    BY <1>1, <2>5, <2>6, NoFewerThan
  <2> QED BY <2>7, <2>8
<1>3. CASE c # device
  <2> DEFINE S == InFlight(c)
  <2>1. 1 \notin S
    BY <1>3, FlightTypes
  <2>2. S \subseteq Behind(1, c) \cup {last} /\ last \notin S
    BY <2>1, AllBehind, FlightTypes
  <2> HIDE DEF S
  <2>3. Cardinality(S) <= Cardinality(InFlight(c)')
    BY <1>1, <2>2, NoFewerThan
  <2> QED BY <2>3 DEF S
<1> QED BY <1>2, <1>3

LEMMA ServerEndsNone ==
  ASSUME MonitoringInv, MonitoringInv', OrderInv, ServerReceives,
         NEW c \in clients, Connected(c)
  PROVE  Cardinality(InFlight(c)) <= Cardinality(InFlight(c)')
<1>1. /\ NP!TransportInv /\ (NP!TransportInv)'
      /\ Net!IsNext("message") /\ Receiver # None
  BY DEF MonitoringInv, ServerReceives, Arrives
<1>2. PICK T : /\ Kept(1)
               /\ \A task \in T : /\ task.text.origin = Text.origin
                                  /\ task.task = "message" /\ task.channel # None
               /\ Receiver \in net.connected => T # {} /\ \A task \in T :
                     NP!Sent(net', net, 1, task)
  BY ReplyStep
<1>3. net.queue[1] = Net!NextTask /\ 1 \in InFlight(Text.origin.device)
  BY <1>1, HeadLetter
<1>4. c = Text.origin.device => Receiver \in net.connected
  <2>1. Receiver[2] = "server"
    BY ReplySends
  <2> QED BY <1>3, <2>1, OwnLink DEF Side, Receiver
<1> DEFINE device == Text.origin.device
<1>5. /\ \A task \in T : task.text.origin.device = device
      /\ 1 \in InFlight(device)
      /\ c = device => T # {} /\ \A task \in T : NP!Sent(net', net, 1, task)
  BY <1>2, <1>3, <1>4
<1> HIDE DEF device
<1> QED BY <1>1, <1>2, <1>5, AnswersEndNone

LEMMA DeviceEndsNone ==
  ASSUME MonitoringInv, MonitoringInv', DeviceReceives,
         NEW c \in clients, Connected(c), ~ListSent(c)
  PROVE  Cardinality(InFlight(c)) <= Cardinality(InFlight(c)')
<1> DEFINE device == owner[Receiver]
<1>1. NP!TransportInv /\ (NP!TransportInv)'
  BY DEF MonitoringInv
<1>2. PICK T : /\ 1 \in InFlight(device) /\ Kept(1)
               /\ \A task \in T : /\ task.text.origin.device = device
                                  /\ task.task = "message" /\ task.channel # None
               /\ ~ListSent(device) /\ clientChannel[device] \in net.connected =>
                     T # {} /\ \A task \in T : NP!Sent(net', net, 1, task)
  BY DeviceSends
<1> HIDE DEF device
<1>3. c = device => T # {} /\ \A task \in T : NP!Sent(net', net, 1, task)
  BY <1>2 DEF Connected
<1> QED BY <1>1, <1>2, <1>3, AnswersEndNone

LEMMA StartEndsNone ==
  ASSUME MonitoringInv, MonitoringInv', NEW x \in Clients, StartMeterageSending(x), NEW c
  PROVE  Cardinality(InFlight(c)) <= Cardinality(InFlight(c)')
<1>1. NP!TransportInv /\ (NP!TransportInv)' /\ x \in clients
  BY DEF MonitoringInv, StartMeterageSending
<1>2. /\ NP!Good(net, {}) /\ NP!Moved(net, net, 0) /\ Len(net.queue) + 0 = Len(net.queue)
      /\ SendNextMeterage(net, x)
  <2>1. net \in NP!Nets /\ NP!Good(net, {}) /\ Len(net.queue) \in Nat
    BY <1>1 DEF NP!TransportInv, NP!Good, NP!Orderly, NP!Nets
  <2> QED BY <2>1, NP!SameQueueMoved, NetAssumed DEF StartMeterageSending
<1>3. Kept(0)
  BY <1>1, <1>2, SendNextStep
<1> DEFINE S == InFlight(c)
<1>4. S \subseteq Behind(0, c) \cup {Len(net.queue) + 1} /\ Len(net.queue) + 1 \notin S
  BY <1>1, AllBehind, FlightTypes
<1>5. \A i \in Behind(0, c) : i - 0 \in DOMAIN net'.queue /\ net'.queue[i - 0] = net.queue[i]
  BY <1>3, AnotherInFlight DEF Kept, Behind
<1> HIDE DEF S
<1>6. Cardinality(S) <= Cardinality(InFlight(c)')
  BY <1>1, <1>4, <1>5, NoFewerThan
<1> QED BY <1>6 DEF S
-----------------------------------------------------------------------------
(* Every variable holds what its C++ type and the calls can put there, and a *)
(* text has the kind of message its receiver expects.                        *)
THEOREM TypeCorrect == Spec => []TypeOK
<1>1. MonitoringInv => TypeOK
  <2> SUFFICES ASSUME MonitoringInv PROVE TypeOK
    OBVIOUS
  <2>1. Net!TypeOK /\ Center!TypeOK
    BY SameState, SameCenter DEF MonitoringInv, NP!TransportInv
  <2>2. ASSUME NEW i \in DOMAIN net.queue, IsLetter(i)
        PROVE  net.queue[i].text.message.type = "Meterage"
                  <=> net.queue[i].channel[2] = "server"
    <3>1. net.queue[i] \in OnTheWay
      BY <2>2 DEF IsLetter, OnTheWay, NP!Waiting, NP!IsWaiting
    <3> QED BY <3>1 DEF MonitoringInv, LettersRight, LetterRight
  <2> QED BY <2>1, <2>2 DEF MonitoringInv, DevicesTyped, TypeOK
<1> QED BY <1>1, MonitoringInvariance, PTL

(* An answer reaches the device that measured or nobody, although it is      *)
(* addressed by an identifier and waits in the queue while devices come and  *)
(* go (devicemonitoringserver.cpp:55-60).                                    *)
THEOREM AnswersReachOnlyTheAsker == Spec => []AnswersReachAsker
<1>1. MonitoringInv => AnswersReachAsker
  <2> SUFFICES ASSUME MonitoringInv PROVE AnswersReachAsker
    OBVIOUS
  <2>1. ASSUME NEW i \in DOMAIN net.queue, IsLetter(i),
               owner[net.queue[i].channel] \in Clients
        PROVE  net.queue[i].text.origin.device = owner[net.queue[i].channel]
    <3> DEFINE w == net.queue[i]
    <3>1. w \in OnTheWay
      BY <2>1 DEF IsLetter, OnTheWay, NP!Waiting, NP!IsWaiting
    <3>2. w.channel \in net.alive
      BY <3>1, LetterType DEF OnTheWay, MonitoringInv, NP!TransportInv
    <3>3. w.channel[2] = "client"
      BY <2>1, <3>2, Receivers DEF MonitoringInv
    <3>4. LetterRight(w)
      BY <3>1 DEF MonitoringInv, LettersRight
    <3> QED BY <3>3, <3>4 DEF LetterRight
  <2> QED BY <2>1 DEF AnswersReachAsker, MonitoringInv, OwnAnswers
<1> QED BY <1>1, MonitoringInvariance, PTL

(* Every step of the program is a call that the command centre allows, or    *)
(* starts it anew: what CommandCenter promises holds in the program          *)
(* (devicemonitoringserver.cpp:19-23, 57-60).                                *)
THEOREM ProgramUsesCenter == Spec => UsesCenter
<1>1. MonitoringInv /\ [Next]_vars => [Center!Next \/ Center!Init']_centerVars
  <2> SUFFICES ASSUME MonitoringInv, [Next]_vars
               PROVE  Center!Next \/ (Center!Init)' \/ UNCHANGED centerVars
    OBVIOUS
  <2>1. CASE ServerReceives
    BY <2>1, ServerUsesCenter DEF ServerReceives, Center!Next
  <2>2. ASSUME NEW s \in Servers, DeleteMonitoringServer(s) PROVE (Center!Init)'
    BY <2>2, DeleteServerEmptiesCenter
  <2>3. ASSUME NEW d \in ClientIds, NEW s \in Schedules, SetDeviceWorkSchedule(d, s)
        PROVE  Center!Next
    BY <2>3 DEF SetDeviceWorkSchedule, Center!Next
  <2>4. ASSUME NEW c \in Clients, DeviceCall(c) PROVE UNCHANGED centerVars
    BY <2>4 DEF DeviceCall, NewDevice, DeleteDevice, BindDevice, ConnectDevice,
                SelectDeviceEncoder, SetMeterages, StartMeterageSending
  <2>5. ASSUME NEW s \in Servers, MonitoringServerCall(s), ~DeleteMonitoringServer(s)
        PROVE  UNCHANGED centerVars
    BY <2>5 DEF MonitoringServerCall, NewMonitoringServer, ListenServer
  <2>6. ASSUME ProcessTask, ~ServerReceives PROVE UNCHANGED centerVars
    BY <2>6 DEF ProcessTask, ProcessConnection, DropMessage, ServerIgnores,
                DeviceThrows, DeviceReceives
  <2>7. ASSUME NEW a \in Algorithms, SelectServerEncoder(a) PROVE UNCHANGED centerVars
    BY <2>7 DEF SelectServerEncoder
  <2>8. CASE UNCHANGED vars
    BY <2>8 DEF vars
  <2> QED BY <2>1, <2>2, <2>3, <2>4, <2>5, <2>6, <2>7, <2>8 DEF Next
<1> QED BY <1>1, MonitoringInvariance, PTL DEF Spec, UsesCenter

(* The handler of a device throws only if the device selected another        *)
(* algorithm while its meterage was under way, whatever the server selects   *)
(* (devicemock.cpp:81-107, message_encoder.cpp:60-70).                       *)
THEOREM OnlyOwnChangeThrows == Spec => OnlyChangedDeviceThrows
<1>1. MonitoringInv /\ DeviceThrows => Text.origin.algorithm # deviceEncoder[owner[Receiver]]
  <2> SUFFICES ASSUME MonitoringInv, DeviceThrows
               PROVE  Text.origin.algorithm # deviceEncoder[owner[Receiver]]
    OBVIOUS
  <2>1. /\ NP!TransportInv /\ LettersRight
        /\ Net!IsNext("message") /\ Receiver # None /\ owner[Receiver] \in Clients
        /\ ~Understood(deviceEncoder[owner[Receiver]], {"Command", "Error"})
    BY DEF MonitoringInv, DeviceThrows, Arrives
  <2>2. Receiver \in net.alive /\ Text \in Letters /\ LetterRight(Net!NextTask)
    BY <2>1, TakeLetter
  <2>3. /\ Receiver[2] = "client" /\ Text.message.type # "Meterage"
        /\ Text.algorithm = Text.origin.algorithm /\ Text.algorithm # None
    BY <2>1, <2>2, Receivers DEF LetterRight, Text, Receiver
  <2>4. Text.message.type \in {"Command", "Error"}
    <3>1. Text.message \in Center!MeterageMessages \cup Center!Replies
      BY <2>2 DEF Letters
    <3> QED BY <2>3, <3>1 DEF Center!MeterageMessages, Center!Replies
  <2> QED BY <2>1, <2>3, <2>4 DEF Understood
<1> QED BY <1>1, MonitoringInvariance, PTL DEF Spec, OnlyChangedDeviceThrows

(* The meterages of one device are answered in the order in which it took    *)
(* them, each at most once, although several exchanges may be under way and  *)
(* lists are replaced meanwhile (devicemock.cpp:109, 122-131).               *)
THEOREM AnsweredInOrder == Spec => []ExchangesInOrder
<1>1. MonitoringInv /\ OrderInv => ExchangesInOrder
  <2> SUFFICES ASSUME MonitoringInv, OrderInv, NEW c \in clients
               PROVE  /\ \A i, j \in DOMAIN messages[c] : i < j =>
                            Before(messages[c][i].origin, messages[c][j].origin)
                      /\ \A i \in InFlight(c) :
                            /\ \A j \in DOMAIN messages[c] :
                                  Before(messages[c][j].origin, net.queue[i].text.origin)
                            /\ \A j \in InFlight(c) :
                                  owner[net.queue[i].channel] = c
                                      /\ (i < j \/ owner[net.queue[j].channel] # c)
                                    => i = j \/ Before(net.queue[i].text.origin,
                                                      net.queue[j].text.origin)
    BY DEF ExchangesInOrder
  <2>1. /\ NP!TransportInv /\ c \in Clients /\ LettersRight
        /\ LettersInOrder(c) /\ AnswersInOrder(c)
    BY DEF MonitoringInv, OrderInv, NP!TransportInv, NP!TypeOK
  <2>2. ASSUME NEW i \in InFlight(c), NEW j \in InFlight(c),
               owner[net.queue[i].channel] = c,
               i < j \/ owner[net.queue[j].channel] # c
        PROVE  Before(Origin(i), Origin(j))
    <3>1. Side(i) = "client"
      BY <2>1, <2>2, FlightTypes, Receivers DEF Side
    <3>2. Side(j) = "client" => owner[net.queue[j].channel] = c
      BY <2>1, FlightTypes DEF Side, LettersRight, LetterRight
    <3>3. Side(j) \in {"client", "server"}
      BY <2>1, OrderTypes
    <3>4. Ahead(i, j)
      BY <2>2, <3>1, <3>2, <3>3 DEF Ahead
    <3> QED BY <2>1, <3>4 DEF LettersInOrder
  <2> QED BY <2>1, <2>2 DEF AnswersInOrder, Origin
<1> QED BY <1>1, MonitoringInvariance, OrderInvariance, PTL

(* The connection a meterage arrives at remembers the identifier its device has. *)
LEMMA FiledUnderSender ==
  ASSUME MonitoringInv, OrderInv, ServerReceives, Text.origin.device \in clients
  PROVE  peerId[Receiver] = clientId[Text.origin.device]
<1>1. /\ NP!TransportInv /\ Net!IsNext("message") /\ Receiver # None
      /\ Receiver \in net.alive /\ Receiver[2] = "server"
  BY ReplySends DEF MonitoringInv, ServerReceives, Arrives
<1>2. Net!NextTask \in OnTheWay /\ LetterRight(Net!NextTask)
  BY <1>1, HeadLetter DEF MonitoringInv, LettersRight
<1>3. NP!Peer(Receiver) \in net.alive
  BY <1>1, <1>2 DEF OrderInv, SendersStay, Text, Receiver
<1>4. Text.origin.device = owner[NP!Peer(Receiver)]
  BY <1>1, <1>2, <1>3 DEF LetterRight, Text, Receiver
<1>5. NP!Peer(Receiver)[2] = "client" /\ NP!Peer(NP!Peer(Receiver)) = Receiver
  <2>1. Receiver \in NP!Channels
    BY <1>1 DEF NP!TransportInv, NP!TypeOK, NP!Nets
  <2> QED BY <1>1, <2>1, NP!PeerProperties, NetAssumed
<1> QED BY <1>1, <1>3, <1>4, <1>5 DEF OrderInv, NP!LinksAgree

(* A meterage is filed under the identifier of the device that measured it,  *)
(* although the handler of a connection keeps the identifier of its peer and *)
(* a device may bind another one (devicemonitoringserver.cpp:62-68, 83-102,  *)
(* clientconnectionmock.cpp:81-89).                                          *)
THEOREM MeteragesFiledUnderOwner == Spec => FiledUnderOwner
<1>1. MonitoringInv /\ OrderInv /\ ServerReceives /\ Text.origin.device \in clients
         => answered'.deviceId = clientId[Text.origin.device]
  <2> SUFFICES ASSUME MonitoringInv, OrderInv, ServerReceives,
                      Text.origin.device \in clients
               PROVE  answered'.deviceId = clientId[Text.origin.device]
    OBVIOUS
  <2>1. answered'.deviceId = peerId[Receiver]
    BY ServerUsesCenter
       DEF CP!ProcessMeterage, CP!AnswerObsolete, CP!AnswerNoSchedule,
           CP!AnswerNoTimestamp, CP!AnswerCommand, CP!Answer
  <2> QED BY <2>1, FiledUnderSender
<1> QED BY <1>1, MonitoringInvariance, OrderInvariance, PTL DEF Spec, FiledUnderOwner

(* A device is told "Obsolete" only for a reason: the time stamp in its way  *)
(* was left under its identifier by another device, or by an earlier list of *)
(* its own, since setMeterages starts again at 0.  Neither its own exchanges *)
(* nor devices under other identifiers nor a former server are ever in its   *)
(* way (command_center.cpp:30-38, devicemock.cpp:122-126, 143-161).          *)
THEOREM ObsoleteHasAReason == HistorySpec => ObsoleteForAReason
<1> DEFINE c == Text.origin.device
           last == lastOrigin[clientId[c]]
           Reason == /\ last # None
                     /\ last.timeStamp >= Text.origin.timeStamp
                     /\ last.device # c \/ last.list < Text.origin.list
<1>1. MonitoringInv /\ OrderInv /\ FiledInv
        /\ ServerReceives /\ answered'.message = ObsoleteAnswer /\ c \in clients => Reason
  <2> SUFFICES ASSUME MonitoringInv, OrderInv, FiledInv, ServerReceives,
                      answered'.message = ObsoleteAnswer, c \in clients
               PROVE  Reason
    OBVIOUS
  <2> DEFINE t == Text.origin.timeStamp
             d == clientId[c]
             o == Text.origin
  <2>1. /\ Net!IsNext("message") /\ Receiver # None /\ Receiver[2] = "server"
    BY ReplySends DEF MonitoringInv, ServerReceives, Arrives
  <2>2. Net!NextTask \in OnTheWay
    BY <2>1, HeadLetter
  <2>3. Text.message.timeStamp = t
    BY <2>1, <2>2 DEF FiledInv, MeteragesStamped, Text, Receiver
  <2>4. peerId[Receiver] = d /\ d \in ClientIds
    BY FiledUnderSender, ServerUsesCenter
  <2>5. CP!IsObsolete(d, t)
    BY <2>3, <2>4, ServerUsesCenter, StampsMove
  <2>6. o.list \in Nat /\ t \in Nat
    <3>1. Text \in Letters
      BY <2>2, LetterType DEF OnTheWay, MonitoringInv, NP!TransportInv, Text
    <3> QED BY <3>1, OriginTypes DEF Letters
  <2>7. last # None /\ last.timeStamp = lastTimeStamp[d]
    BY <2>4, <2>5 DEF CP!IsObsolete, FiledInv, StampsFiled
  <2>8. last.list \in Nat /\ last.timeStamp \in Nat
    BY <2>4, <2>7, OriginTypes DEF FiledInv
  <2>9. last.device = c => Before(last, o)
    BY <2>1, <2>2, <2>4, <2>7 DEF FiledInv, FiledBefore, Text, Receiver
  <2>10. last.timeStamp >= t
    BY <2>5, <2>7 DEF CP!IsObsolete
  <2> HIDE DEF last
  <2>11. last.device = c => last.list < o.list
    BY <2>6, <2>8, <2>9, <2>10 DEF Before
  <2> QED BY <2>7, <2>10, <2>11
<1> QED BY <1>1, MonitoringInvariance, OrderInvariance, FiledInvariance, HistoryIsRun, PTL
        DEF HistorySpec, ObsoleteForAReason

(* A device has no more meterages and answers under way than it was asked to *)
(* start: no answer starts a second exchange (devicemock.cpp:109, 128-131).  *)
THEOREM ExchangesAreStarted == Spec => []OneExchangePerStart
  BY ExchangesInvariance

(* The exchange of a device ends only when the list is sent, the connection  *)
(* broke, or the two sides do not use the algorithm of the text: as long as  *)
(* a device is connected none of its meterages is left without an answer     *)
(* (devicemonitoringserver.cpp:57-69, devicemock.cpp:79-110).                *)
THEOREM NoExchangeIsLost == Spec => ExchangesEndForAReason
<1>1. MonitoringInv /\ MonitoringInv' /\ OrderInv /\ [Next]_vars =>
         \A c \in clients \cap clients' :
           Cardinality(InFlight(c)') < Cardinality(InFlight(c)) =>
               \/ ~Connected(c)
               \/ ~Connected(c)'
               \/ ListSent(c)
               \/ {Text.algorithm, deviceEncoder[c], serverEncoder} # {deviceEncoder[c]}
               \/ deviceEncoder[c] = None
  <2> SUFFICES ASSUME MonitoringInv, MonitoringInv', OrderInv, [Next]_vars,
                      NEW c \in clients, c \in clients',
                      Connected(c), Connected(c)', ~ListSent(c),
                      {Text.algorithm, deviceEncoder[c], serverEncoder} = {deviceEncoder[c]},
                      deviceEncoder[c] # None
               PROVE  ~(Cardinality(InFlight(c)') < Cardinality(InFlight(c)))
    OBVIOUS
  <2>1. Text.algorithm = deviceEncoder[c] /\ Text.algorithm = serverEncoder
    OBVIOUS
  <2>2. Cardinality(InFlight(c)) <= Cardinality(InFlight(c)')
    BY <2>1, CalmSteps, CalmEndsNone, ServerEndsNone, DeviceEndsNone, StartEndsNone
  <2>3. Cardinality(InFlight(c)) \in Nat /\ Cardinality(InFlight(c)') \in Nat
    BY FlightFinite, FlightFiniteNext DEF MonitoringInv
  <2> QED BY <2>2, <2>3
<1> QED BY <1>1, MonitoringInvariance, OrderInvariance, PTL DEF Spec, ExchangesEndForAReason
=============================================================================
