-------------------------------- MODULE Handlers --------------------------------
(***************************************************************************)
(* The handlers that the program gives to clients, servers and             *)
(* connections.  Transport leaves them out; here they are added to it.     *)
(*                                                                         *)
(* A handler is owned by the object it was given to, which deletes it when *)
(* it gets another one or is deleted itself.  A channel calls the message  *)
(* handler of its owner through a pointer of its own.  The caller gives an *)
(* object of its own or null, never a handler that has an owner already,   *)
(* and a handler does not replace itself while it runs.                    *)
(***************************************************************************)
EXTENDS Transport

CONSTANT Handlers    \* handler objects, in the order of their addresses

ASSUME HandlersAssumption == Handlers \subseteq Nat /\ None \notin Handlers
ASSUME ObjectsAssumption == (Clients \cup Servers) \cap Channels = {}

VARIABLES
    handlers,    \* the handlers that exist
    held,        \* the members that own a handler, see Slots
    called       \* ConnectionChannel::m_messageHandler

handlerVars == <<handlers, held, called>>
allVars == <<vars, handlerVars>>

(* A ConnectionMock is identified with its channel. *)
Slots ==      (Clients \X {"message", "connected", "disconnected"})
         \cup (Servers \X {"newConnection"})
         \cup (Channels \X {"message", "disconnected"})

(* A new handler is created at the first free address. *)
Fresh(taken) == {h \in Handlers \ taken : \A k \in Handlers \ taken : h <= k}
-----------------------------------------------------------------------------
HandlersInit ==
    /\ Init
    /\ handlers = {}
    /\ held = [slot \in Slots |-> None]
    /\ called = [ch \in Channels |-> None]

(* delete member; member = handler; *)
Replace(slot, h) ==
    /\ held' = [held EXCEPT ![slot] = h]
    /\ handlers' = (handlers \ {held[slot]}) \cup ({h} \ {None})

(* Mutant: a channel that is in use keeps the old pointer. *)
SetMessageHandlerOnly(object, channel, h) ==
    /\ Replace(<<object, "message">>, h)
    /\ UNCHANGED called

SetMessageHandler(object, channel, h) ==
    /\ Replace(<<object, "message">>, h)
    /\ called' = [ch \in Channels |-> IF ch = channel THEN h ELSE called[ch]]

SetClientHandler(c, h) ==
    /\ c \in clients
    /\ \/ SetMessageHandler(c, clientChannel[c], h)
       \/ /\ \/ Replace(<<c, "connected">>, h)
             \/ Replace(<<c, "disconnected">>, h)
          /\ UNCHANGED called
    /\ UNCHANGED vars

SetServerHandler(s, h) ==
    /\ s \in servers
    /\ Replace(<<s, "newConnection">>, h)
    /\ UNCHANGED <<vars, called>>

SetConnectionHandler(ch, h) ==
    /\ \E s \in Servers, id \in ClientIds : connections[s][id] = ch
    /\ \/ SetMessageHandler(ch, ch, h)
       \/ Replace(<<ch, "disconnected">>, h) /\ UNCHANGED called
    /\ UNCHANGED vars
-----------------------------------------------------------------------------
(* Mutant: the destructor of a connection leaves its handlers behind. *)
DestroyObjectOnly(objects) ==
    LET lost == {slot \in Slots : slot[1] \in objects}
    IN  /\ handlers' = handlers \ {held[slot] : slot \in lost}
        /\ held' = [slot \in Slots |->
              IF slot \in lost \/ (slot[1] \in Channels /\ slot[1] \notin net'.alive)
              THEN None ELSE held[slot]]
        /\ called' = [ch \in Channels |-> IF ch \in net'.alive THEN called[ch] ELSE None]

(* The members of these objects and of the channels that are gone. *)
Lost(objects) ==
    {slot \in Slots : \/ slot[1] \in objects
                      \/ slot[1] \in Channels /\ slot[1] \notin net'.alive}

(* They delete the handlers they own. *)
Destroy(objects) ==
    /\ handlers' = handlers \ {held[slot] : slot \in Lost(objects)}
    /\ held' = [slot \in Slots |-> IF slot \in Lost(objects) THEN None ELSE held[slot]]
    /\ called' = [ch \in Channels |-> IF ch \in net'.alive THEN called[ch] ELSE None]

(* The new channel calls the handler its client has.  The connection has   *)
(* no handlers yet: a server that has a handler of its own calls it, and   *)
(* that gives the connection its handlers (or leaves them null).           *)
Establish ==
    /\ ConnectToServer
    /\ LET new == net'.alive \ net.alive
           announced == {ch \in new : owner'[ch] \in Servers
                           /\ held[<<owner'[ch], "newConnection">>] # None}
       IN  \E message \in Fresh(handlers) \cup {None} :
           \E disconnected \in Fresh(handlers \cup {message}) \cup {None} :
             /\ announced = {} => message = None /\ disconnected = None
             /\ held' = [slot \in Slots |->
                   IF slot[1] \notin announced THEN held[slot]
                   ELSE IF slot[2] = "message" THEN message ELSE disconnected]
             /\ handlers' = handlers \cup ({message, disconnected} \ {None})
             /\ called' = [ch \in Channels |->
                   IF ch \notin new THEN called[ch]
                   ELSE IF ch \in announced THEN message
                   ELSE IF owner'[ch] \in Clients THEN held[<<owner'[ch], "message">>]
                   ELSE None]

(* The custom handler is called first, then the channel is deleted. *)
Disconnected ==
    /\ DisconnectClientSide \/ DisconnectServerSide
    /\ Destroy({})

HandlersNext ==
    \/ \E h \in Fresh(handlers) \cup {None} :
          \/ \E c \in Clients : SetClientHandler(c, h)
          \/ \E s \in Servers : SetServerHandler(s, h)
          \/ \E ch \in Channels : SetConnectionHandler(ch, h)
    \/ \E c \in Clients : DeleteClient(c) /\ Destroy({c})
    \/ \E s \in Servers : DeleteServer(s) /\ Destroy({s})
    \/ Establish
    \/ Disconnected
    \/ /\ \/ \E c \in Clients :
                \/ NewClient(c)
                \/ \E id \in ClientIds : Bind(c, id)
                \/ \E sid \in ServerIds : ConnectToHost(c, sid)
                \/ ClientDisconnect(c)
                \/ \E text \in Texts : ClientSend(c, text)
          \/ \E s \in Servers :
                \/ NewServer(s)
                \/ \E sid \in ServerIds : Listen(s, sid)
                \/ ServerDisconnect(s)
                \/ \E id \in ClientIds :
                      \/ ConnectionDisconnect(s, id)
                      \/ \E text \in Texts : ConnectionSend(s, id, text)
          \/ ConnectInVain
          \/ DeliverMessage
          \/ DisconnectDeleted
       /\ UNCHANGED handlerVars

HandlersSpec == HandlersInit /\ [][HandlersNext]_allVars
-----------------------------------------------------------------------------
(* A handler exists as long as one member of one existing object owns it: it *)
(* is neither leaked nor deleted twice (the allocationCounter of             *)
(* servertests.cpp:228-330 counts what one scenario leaves behind).          *)
HandlersOwnedOnce ==
    /\ {held[slot] : slot \in Slots} \ {None} = handlers
    /\ \A slot \in Slots : held[slot] # None =>
          /\ slot[1] \in clients \cup servers \cup net.alive
          /\ \A other \in Slots : held[other] = held[slot] => other = slot

(* A message is handled by the handler its receiver was given last, whether  *)
(* that was before or after the connection was made, and by none that has    *)
(* been deleted (clientconnectionmock.cpp:133-149, connectionmock.cpp:51-57).*)
ChannelsCallLastHandler ==
    \A ch \in net.alive :
        LET receiver == IF owner[ch] \in Clients THEN owner[ch] ELSE ch
        IN  called[ch] = held[<<receiver, "message">>]
=============================================================================
