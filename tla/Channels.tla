------------------------------- MODULE Channels -------------------------------
(***************************************************************************)
(* ConnectionChannel, the tasks it schedules and the TaskQueue that runs   *)
(* them (servermock/connectionchannel.cpp, taskqueue.cpp), as operations   *)
(* on one value "net".                                                     *)
(*                                                                         *)
(* A connection is a pair of channels that point at each other: a link and *)
(* one of its two sides.  The pointers to a channel that tasks and peers   *)
(* hold are SafeObjectPointers (servermock/object.cpp): the destructor of  *)
(* the channel turns all of them into null pointers, here None.            *)
(***************************************************************************)
EXTENDS Naturals, Sequences

CONSTANTS
    Links,        \* identities for pairs of connected channels
    ClientIds,    \* identifiers clients may bind to
    ServerIds,    \* identifiers servers may listen to
    Texts,        \* strings that are sent as messages
    None          \* null pointer, identifier zero, absent map entry

ASSUME LinksAssumption == Links \subseteq Nat
ASSUME NoneAssumption == None \notin ClientIds \cup ServerIds

Channels == Links \X {"client", "server"}

ASSUME NullAssumption == None \notin Channels

Peer(ch) == <<ch[1], IF ch[2] = "client" THEN "server" ELSE "client">>

ConnectTask(cid, sid) == [task |-> "connect", clientId |-> cid, serverId |-> sid]
MessageTask(ch, text) == [task |-> "message", channel |-> ch, text |-> text]
DisconnectTask(ch) == [task |-> "disconnect", channel |-> ch]

Tasks ==
         [task : {"connect"}, clientId : ClientIds, serverId : ServerIds]
    \cup [task : {"message"}, channel : Channels \cup {None}, text : Texts]
    \cup [task : {"disconnect"}, channel : Channels \cup {None}]

(* alive: the channels that exist; connected: those with m_connected set;  *)
(* queue: the scheduled tasks, the next one first.                         *)
Nets == [alive : SUBSET Channels, connected : SUBSET Channels, queue : Seq(Tasks)]

EmptyNet == [alive |-> {}, connected |-> {}, queue |-> <<>>]
-----------------------------------------------------------------------------
(* Mutant: the queue is a stack. *)
ScheduleInFront(net, task) == [net EXCEPT !.queue = <<task>> \o @]

Schedule(net, task) == [net EXCEPT !.queue = Append(@, task)]

(* m_connected = false and the DisconnectTask of one channel. *)
Close(net, ch) ==
    Schedule([net EXCEPT !.connected = @ \ {ch}], DisconnectTask(ch))

(* Mutant: only the side on which disconnect() was called is closed. *)
DisconnectOneSide(net, ch) ==
    IF ch \in net.connected THEN Close(net, ch) ELSE net

(* Mutant: the peer is closed without a DisconnectTask. *)
DisconnectPeerQuietly(net, ch) ==
    IF ch \in net.connected
    THEN [Close(net, ch) EXCEPT !.connected = @ \ {Peer(ch)}]
    ELSE net

(* disconnect() and disconnectPeer() call each other until both sides are  *)
(* closed: this side first, then the peer if it exists and is connected.   *)
Disconnect(net, ch) ==
    LET closed == Close(net, ch)
    IN  IF ch \notin net.connected THEN net
        ELSE IF Peer(ch) \in net.connected THEN Close(closed, Peer(ch))
        ELSE closed

Forget(task, ch) ==
    IF task.task # "connect" /\ task.channel = ch
    THEN [task EXCEPT !.channel = None]
    ELSE task

(* ~ConnectionChannel disconnects the peer, which in turn disconnects the  *)
(* dying channel; then ~Object nullifies every pointer to the channel.     *)
Delete(net, ch) ==
    LET told == Disconnect(net, Peer(ch))
    IN  [alive |-> told.alive \ {ch},
         connected |-> told.connected \ {ch},
         queue |-> [i \in DOMAIN told.queue |-> Forget(told.queue[i], ch)]]

(* Mutant: messages are taken for a broken connection. *)
SendToExisting(net, ch, text) ==
    IF Peer(ch) \in net.alive
    THEN Schedule(net, MessageTask(Peer(ch), text))
    ELSE net

(* A message is scheduled for the peer only while both sides are connected. *)
Send(net, ch, text) ==
    IF ch \in net.connected /\ Peer(ch) \in net.connected
    THEN Schedule(net, MessageTask(Peer(ch), text))
    ELSE net

(* Disconnect, or Delete, the channels of a sequence one after the other. *)
DisconnectAll(net, chs) ==
    LET after[i \in 0 .. Len(chs)] ==
            IF i = 0 THEN net ELSE Disconnect(after[i - 1], chs[i])
    IN  after[Len(chs)]

DeleteAll(net, chs) ==
    LET after[i \in 0 .. Len(chs)] ==
            IF i = 0 THEN net ELSE Delete(after[i - 1], chs[i])
    IN  after[Len(chs)]

(* Two new channels, connected to each other. *)
Connect(net, link) ==
    LET both == {<<link, "client">>, <<link, "server">>}
    IN  [net EXCEPT !.alive = @ \cup both, !.connected = @ \cup both]

(* Identities that may be given to a new pair. *)
FreeLinks(net) == {l \in Links : \A ch \in net.alive : ch[1] # l}
=============================================================================
