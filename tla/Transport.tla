------------------------------- MODULE Transport -------------------------------
(***************************************************************************)
(* The client-server connection of the repository (directory servermock):  *)
(* ClientConnectionMock, ConnectionServerMock with its ConnectionMocks,    *)
(* their two global registries, and the task queue through which they      *)
(* reach each other.                                                       *)
(*                                                                         *)
(* Everything runs in one thread, but the program may call any method      *)
(* between two tasks of the queue: that is the interleaving explored here. *)
(* A ConnectionMock has exactly one channel for its whole life and is      *)
(* identified with it.  Handlers of the program do not change connections  *)
(* from inside a task (none in the repository does); what they send is     *)
(* sent by the actions ClientSend and ConnectionSend right after the task. *)
(***************************************************************************)
EXTENDS Channels, FiniteSets, Functions

CONSTANTS
    Clients,     \* objects of class ClientConnectionMock
    Servers,     \* objects of class ConnectionServerMock
    MaxQueue     \* bound: the program schedules nothing beyond this length

ASSUME OwnersAssumption == None \notin Clients \cup Servers
ASSUME ClassesAssumption == Clients \cap Servers = {}
ASSUME MaxQueueAssumption == MaxQueue \in Nat
ASSUME ClientIdsAssumption == IsFiniteSet(ClientIds)

(* Enough identities for channels: every link that exists has a channel    *)
(* held by a client or filed in a server, and one more is being created.   *)
ASSUME LinksSuffice ==
    Cardinality(Links) >
        Cardinality(Clients) + Cardinality(Servers) * Cardinality(ClientIds)

VARIABLES
    net,             \* channels and task queue
    clients,         \* the clients that exist
    clientId,        \* ClientConnectionMock::m_clientId
    clientChannel,   \* ClientConnectionMock::m_channel
    clientsMap,      \* registry of clientconnectionmock.cpp
    servers,         \* the servers that exist
    serverId,        \* ConnectionServerMock::m_serverId
    connections,     \* ConnectionServerMock::m_connections, by client id
    serversMap,      \* registry of connectionservermock.cpp
    owner,           \* whose handlers a channel calls
    peerId           \* ConnectionChannel::m_peerId

clientVars == <<clients, clientId, clientChannel, clientsMap>>
serverVars == <<servers, serverId, connections, serversMap>>
channelVars == <<owner, peerId>>
vars == <<net, clientVars, serverVars, channelVars>>

TypeOK ==
    /\ net \in Nets
    /\ clients \subseteq Clients
    /\ clientId \in [Clients -> ClientIds \cup {None}]
    /\ clientChannel \in [Clients -> Channels \cup {None}]
    /\ clientsMap \in [ClientIds -> Clients \cup {None}]
    /\ servers \subseteq Servers
    /\ serverId \in [Servers -> ServerIds \cup {None}]
    /\ connections \in [Servers -> [ClientIds -> Channels \cup {None}]]
    /\ serversMap \in [ServerIds -> Servers \cup {None}]
    /\ owner \in [Channels -> Clients \cup Servers \cup {None}]
    /\ peerId \in [Channels -> ClientIds \cup ServerIds \cup {None}]

Init ==
    /\ net = EmptyNet
    /\ clients = {}
    /\ clientId = [c \in Clients |-> None]
    /\ clientChannel = [c \in Clients |-> None]
    /\ clientsMap = [id \in ClientIds |-> None]
    /\ servers = {}
    /\ serverId = [s \in Servers |-> None]
    /\ connections = [s \in Servers |-> [id \in ClientIds |-> None]]
    /\ serversMap = [id \in ServerIds |-> None]
    /\ owner = [ch \in Channels |-> None]
    /\ peerId = [ch \in Channels |-> None]

(* A call of the program takes place while there is room in the queue. *)
RoomInQueue == Len(net'.queue) <= MaxQueue

(* The members a deleted channel had are gone with it. *)
ForgetDead ==
    /\ owner' = [ch \in Channels |-> IF ch \in net'.alive THEN owner[ch] ELSE None]
    /\ peerId' = [ch \in Channels |-> IF ch \in net'.alive THEN peerId[ch] ELSE None]

Unregister(map, id) == [i \in DOMAIN map |-> IF i = id THEN None ELSE map[i]]
-----------------------------------------------------------------------------
(* Calls to a client. *)

NewClient(c) ==
    /\ c \notin clients
    /\ clients' = clients \cup {c}
    /\ UNCHANGED <<net, clientId, clientChannel, clientsMap, serverVars, channelVars>>

(* Mutant: the identifier stays in the registry. *)
DeleteClientStaysRegistered(c) ==
    /\ c \in clients
    /\ clients' = clients \ {c}
    /\ clientId' = [clientId EXCEPT ![c] = None]
    /\ net' = IF clientChannel[c] = None THEN net ELSE Delete(net, clientChannel[c])
    /\ clientChannel' = [clientChannel EXCEPT ![c] = None]
    /\ ForgetDead
    /\ RoomInQueue
    /\ UNCHANGED <<clientsMap, serverVars>>

DeleteClient(c) ==
    /\ c \in clients
    /\ clients' = clients \ {c}
    /\ clientsMap' = Unregister(clientsMap, clientId[c])
    /\ clientId' = [clientId EXCEPT ![c] = None]
    /\ net' = IF clientChannel[c] = None THEN net ELSE Delete(net, clientChannel[c])
    /\ clientChannel' = [clientChannel EXCEPT ![c] = None]
    /\ ForgetDead
    /\ RoomInQueue
    /\ UNCHANGED serverVars

(* Mutant: a connected client may take another identifier. *)
BindWhileConnected(c, id) ==
    /\ c \in clients
    /\ clientsMap[id] = None
    /\ clientsMap' = [Unregister(clientsMap, clientId[c]) EXCEPT ![id] = c]
    /\ clientId' = [clientId EXCEPT ![c] = id]
    /\ UNCHANGED <<net, clients, clientChannel, serverVars, channelVars>>

Bind(c, id) ==
    /\ c \in clients
    /\ clientsMap[id] = None
    /\ clientChannel[c] = None
    /\ clientsMap' = [Unregister(clientsMap, clientId[c]) EXCEPT ![id] = c]
    /\ clientId' = [clientId EXCEPT ![c] = id]
    /\ UNCHANGED <<net, clients, clientChannel, serverVars, channelVars>>

(* Mutant: a client without an identifier may ask for a connection. *)
ConnectToHostUnbound(c, sid) ==
    /\ c \in clients
    /\ net' = Schedule(net, ConnectTask(clientId[c], sid))
    /\ RoomInQueue
    /\ UNCHANGED <<clientVars, serverVars, channelVars>>

ConnectToHost(c, sid) ==
    /\ c \in clients
    /\ clientId[c] # None
    /\ net' = Schedule(net, ConnectTask(clientId[c], sid))
    /\ RoomInQueue
    /\ UNCHANGED <<clientVars, serverVars, channelVars>>

ClientDisconnect(c) ==
    /\ clientChannel[c] # None
    /\ net' = Disconnect(net, clientChannel[c])
    /\ RoomInQueue
    /\ UNCHANGED <<clientVars, serverVars, channelVars>>

ClientSend(c, text) ==
    /\ clientChannel[c] # None
    /\ net' = Send(net, clientChannel[c], text)
    /\ RoomInQueue
    /\ UNCHANGED <<clientVars, serverVars, channelVars>>
-----------------------------------------------------------------------------
(* Calls to a server and to one of its connections. *)

(* The map of connections is unordered: its channels in any order. *)
Orders(s) ==
    LET chs == {connections[s][id] : id \in ClientIds} \ {None}
    IN  Bijection(1 .. Cardinality(chs), chs)

NewServer(s) ==
    /\ s \notin servers
    /\ servers' = servers \cup {s}
    /\ UNCHANGED <<net, clientVars, serverId, connections, serversMap, channelVars>>

DeleteServer(s) ==
    /\ s \in servers
    /\ servers' = servers \ {s}
    /\ serversMap' = Unregister(serversMap, serverId[s])
    /\ serverId' = [serverId EXCEPT ![s] = None]
    /\ connections' = [connections EXCEPT ![s] = [id \in ClientIds |-> None]]
    /\ \E order \in Orders(s) : net' = DeleteAll(net, order)
    /\ ForgetDead
    /\ RoomInQueue
    /\ UNCHANGED clientVars

Listen(s, sid) ==
    /\ s \in servers
    /\ serversMap[sid] = None
    /\ serverId[s] = None
    /\ serverId' = [serverId EXCEPT ![s] = sid]
    /\ serversMap' = [serversMap EXCEPT ![sid] = s]
    /\ UNCHANGED <<net, clientVars, servers, connections, channelVars>>

(* Mutant: the connections stay open. *)
ServerDisconnectKeepsOpen(s) ==
    /\ s \in servers
    /\ serversMap' = Unregister(serversMap, serverId[s])
    /\ serverId' = [serverId EXCEPT ![s] = None]
    /\ UNCHANGED <<net, clientVars, servers, connections, channelVars>>

ServerDisconnect(s) ==
    /\ s \in servers
    /\ \E order \in Orders(s) : net' = DisconnectAll(net, order)
    /\ serversMap' = Unregister(serversMap, serverId[s])
    /\ serverId' = [serverId EXCEPT ![s] = None]
    /\ RoomInQueue
    /\ UNCHANGED <<clientVars, servers, connections, channelVars>>

ConnectionDisconnect(s, id) ==
    /\ connections[s][id] # None
    /\ net' = Disconnect(net, connections[s][id])
    /\ RoomInQueue
    /\ UNCHANGED <<clientVars, serverVars, channelVars>>

ConnectionSend(s, id, text) ==
    /\ connections[s][id] # None
    /\ net' = Send(net, connections[s][id], text)
    /\ RoomInQueue
    /\ UNCHANGED <<clientVars, serverVars, channelVars>>
-----------------------------------------------------------------------------
(* TaskQueue::processTask, one action for each class of task. *)

NextTask == net.queue[1]
Popped == [net EXCEPT !.queue = Tail(@)]

IsNext(task) == net.queue # <<>> /\ NextTask.task = task

(* Both identifiers are looked up when the task runs, not when it was      *)
(* scheduled.                                                              *)
ConnectInVain ==
    /\ IsNext("connect")
    /\ \/ serversMap[NextTask.serverId] = None
       \/ clientsMap[NextTask.clientId] = None
    /\ net' = Popped
    /\ UNCHANGED <<clientVars, serverVars, channelVars>>

(* Mutant: the new connection takes the place of the old one. *)
FiledOver(s, id, ch) == ch

(* addConnection: the map keeps the first connection from an identifier. *)
Filed(s, id, ch) == IF connections[s][id] = None THEN ch ELSE connections[s][id]

(* addChannel, addConnection: a second connection is deleted. *)
ServerAfterAdd(n, s, id, ch) == IF Filed(s, id, ch) = ch THEN n ELSE Delete(n, ch)

(* Mutant: the new channel is dropped, not deleted. *)
ClientAfterSetLeaks(n, c, ch) == n

(* setChannel: a client that has a channel deletes the new one. *)
ClientAfterSet(n, c, ch) ==
    IF clientChannel[c] # None THEN Delete(n, ch) ELSE n

ConnectToServer ==
    /\ IsNext("connect")
    /\ \E link \in FreeLinks(net) :
         LET cid == NextTask.clientId
             sid == NextTask.serverId
             s == serversMap[sid]
             c == clientsMap[cid]
             serverSide == <<link, "server">>
             clientSide == <<link, "client">>
             added == ServerAfterAdd(Connect(Popped, link), s, cid, serverSide)
             set == ClientAfterSet(added, c, clientSide)
             kept == {serverSide, clientSide} \cap set.alive
         IN  /\ \A l \in FreeLinks(net) : link <= l
             /\ s # None /\ c # None
             /\ net' = set
             /\ connections' = [connections EXCEPT
                                  ![s][cid] = Filed(s, cid, serverSide)]
             /\ clientChannel' = [clientChannel EXCEPT
                                    ![c] = IF @ = None THEN clientSide ELSE @]
             /\ owner' = [ch \in Channels |->
                            IF ch \notin kept THEN owner[ch]
                            ELSE IF ch = serverSide THEN s ELSE c]
             /\ peerId' = [ch \in Channels |->
                             IF ch \notin kept THEN peerId[ch]
                             ELSE IF ch = serverSide THEN cid ELSE sid]
    /\ UNCHANGED <<clients, clientId, clientsMap, servers, serverId, serversMap>>

(* The handler of the owner gets the message; the transport is unchanged. *)
DeliverMessage ==
    /\ IsNext("message")
    /\ net' = Popped
    /\ UNCHANGED <<clientVars, serverVars, channelVars>>

(* A task whose channel was deleted finds a null pointer. *)
DisconnectDeleted ==
    /\ IsNext("disconnect")
    /\ NextTask.channel = None
    /\ net' = Popped
    /\ UNCHANGED <<clientVars, serverVars, channelVars>>

(* ClientConnectionMock::onDisconnected deletes the client's channel. *)
DisconnectClientSide ==
    /\ IsNext("disconnect")
    /\ NextTask.channel # None
    /\ LET c == owner[NextTask.channel]
       IN  /\ c \in Clients
           /\ net' = IF clientChannel[c] = None THEN Popped
                     ELSE Delete(Popped, clientChannel[c])
           /\ clientChannel' = [clientChannel EXCEPT ![c] = None]
    /\ ForgetDead
    /\ UNCHANGED <<clients, clientId, clientsMap, serverVars>>

(* Mutant: the connection is deleted but stays in the map. *)
DisconnectServerSideKeepsEntry ==
    /\ IsNext("disconnect")
    /\ NextTask.channel # None
    /\ LET s == owner[NextTask.channel]
           id == peerId[NextTask.channel]
       IN  /\ s \in Servers
           /\ net' = IF connections[s][id] = None THEN Popped
                     ELSE Delete(Popped, connections[s][id])
    /\ ForgetDead
    /\ UNCHANGED <<clientVars, serverVars>>

(* ConnectionServerMock::onDisconnected looks the connection up by the     *)
(* identifier of its peer.                                                 *)
DisconnectServerSide ==
    /\ IsNext("disconnect")
    /\ NextTask.channel # None
    /\ LET s == owner[NextTask.channel]
           id == peerId[NextTask.channel]
       IN  /\ s \in Servers
           /\ net' = IF connections[s][id] = None THEN Popped
                     ELSE Delete(Popped, connections[s][id])
           /\ connections' = [connections EXCEPT ![s][id] = None]
    /\ ForgetDead
    /\ UNCHANGED <<clientVars, servers, serverId, serversMap>>

ProcessTask ==
    \/ ConnectInVain
    \/ ConnectToServer
    \/ DeliverMessage
    \/ DisconnectDeleted
    \/ DisconnectClientSide
    \/ DisconnectServerSide
-----------------------------------------------------------------------------
ClientCall(c) ==
    \/ NewClient(c)
    \/ DeleteClient(c)
    \/ \E id \in ClientIds : Bind(c, id)
    \/ \E sid \in ServerIds : ConnectToHost(c, sid)
    \/ ClientDisconnect(c)
    \/ \E text \in Texts : ClientSend(c, text)

ServerCall(s) ==
    \/ NewServer(s)
    \/ DeleteServer(s)
    \/ \E sid \in ServerIds : Listen(s, sid)
    \/ ServerDisconnect(s)
    \/ \E id \in ClientIds :
          \/ ConnectionDisconnect(s, id)
          \/ \E text \in Texts : ConnectionSend(s, id, text)

Next == \/ \E c \in Clients : ClientCall(c)
        \/ \E s \in Servers : ServerCall(s)
        \/ ProcessTask

Spec == Init /\ [][Next]_vars

(* The driver of the program empties the queue: while (processTask()) ;    *)
FairSpec == Spec /\ WF_vars(ProcessTask)
-----------------------------------------------------------------------------
(* The two ends of a link are connected together or not at all, whichever of *)
(* the two sides, or the deletion of one, breaks the link                    *)
(* (connectionchannel.cpp:51-54, 72-88).                                     *)
ConnectedInPairs ==
    \A ch \in net.connected : ch \in net.alive /\ Peer(ch) \in net.connected

(* Channels are passed around by raw owning pointers.  Still no channel      *)
(* leaks or dangles: a channel exists iff exactly one member of one existing *)
(* client or server points at it, and that is the object whose handlers it   *)
(* calls (connectionmock.cpp:17-27, clientconnectionmock.cpp:141-159,        *)
(* connectionservermock.cpp:52-70, 89-97).                                   *)
Holders(ch) ==
         {c \in Clients : clientChannel[c] = ch}
    \cup {key \in Servers \X ClientIds : connections[key[1]][key[2]] = ch}

EveryChannelHeldOnce ==
    /\ \A ch \in Channels :
          Cardinality(Holders(ch)) = IF ch \in net.alive THEN 1 ELSE 0
    /\ \A c \in Clients :
          clientChannel[c] # None => c \in clients /\ owner[clientChannel[c]] = c
    /\ \A s \in Servers, id \in ClientIds :
          connections[s][id] # None => /\ s \in servers
                                       /\ owner[connections[s][id]] = s
                                       /\ peerId[connections[s][id]] = id

(* Every broken connection is reported exactly once: a channel that is no    *)
(* longer connected has one DisconnectTask in the queue, a connected one has *)
(* none (connectionchannel.cpp:72-81).                                       *)
DisconnectTasksOf(ch) ==
    {i \in DOMAIN net.queue : net.queue[i] = DisconnectTask(ch)}

DisconnectScheduledOnce ==
    \A ch \in net.alive :
        Cardinality(DisconnectTasksOf(ch)) = IF ch \in net.connected THEN 0 ELSE 1

(* connectionchannel.cpp:77-78 - "first take all the messages left in the    *)
(* queue, then call the handler": no message for a channel is scheduled      *)
(* behind its DisconnectTask, where it would be lost.                        *)
MessagesBeforeDisconnect ==
    \A ch \in net.alive : \A i \in DisconnectTasksOf(ch) :
        \A j \in DOMAIN net.queue :
            net.queue[j].task = "message" /\ net.queue[j].channel = ch => j < i

(* The server answers a device through the identifier of the device: as long *)
(* as the client is connected, the connection filed under its identifier is  *)
(* the other end of its channel, although requests to connect carry only     *)
(* identifiers, and these are bound again and again                          *)
(* (clientconnectionmock.cpp:38-50, 81-89, devicemonitoringserver.cpp:55-60).*)
EndsAgree ==
    \A c \in Clients :
        clientChannel[c] # None /\ clientChannel[c] \in net.connected =>
            /\ clientId[c] # None
            /\ \E s \in Servers :
                  /\ connections[s][clientId[c]] = Peer(clientChannel[c])
                  /\ peerId[clientChannel[c]] = serverId[s]

(* The registries hold exactly the existing objects that have an identifier, *)
(* so that no task finds a deleted client or server.                         *)
RegistriesExact ==
    /\ \A id \in ClientIds, c \in Clients :
          clientsMap[id] = c <=> c \in clients /\ clientId[c] = id
    /\ \A id \in ServerIds, s \in Servers :
          serversMap[id] = s <=> s \in servers /\ serverId[s] = id

(* abstractconnectionserver.h:27 - a server that has been closed keeps no    *)
(* open connection, not even one whose request was under way.                *)
ClosedServerHasNoConnection ==
    \A s \in Servers, id \in ClientIds :
        serverId[s] = None => connections[s][id] \notin net.connected

(* A client whose connection broke is free to bind and to connect again:     *)
(* its channel does not stay for ever, whoever broke the connection.         *)
ClientIsFreed ==
    \A c \in Clients :
        (clientChannel[c] # None /\ clientChannel[c] \notin net.connected)
            ~> clientChannel[c] = None

(* The entry of a broken connection does not block its identifier for ever.  *)
ConnectionIsFreed ==
    \A s \in Servers, id \in ClientIds :
        (connections[s][id] # None /\ connections[s][id] \notin net.connected)
            ~> connections[s][id] = None

(* abstractclientconnection.h:29 - the connected handler reports that the    *)
(* connection to the server is established (setChannel calls it whenever it  *)
(* stores a channel).                                                        *)
ConnectedHandlerMeansConnected ==
    [][\A c \in Clients :
         clientChannel[c] = None /\ clientChannel'[c] # None
             => clientChannel'[c] \in net'.connected]_vars

(* abstractconnection.h:26 - connected() says that the connection is active; *)
(* ConnectionMock::connected returns true while it has a channel.            *)
ServerConnectionIsActive ==
    \A s \in Servers, id \in ClientIds :
        connections[s][id] # None => connections[s][id] \in net.connected
=============================================================================
