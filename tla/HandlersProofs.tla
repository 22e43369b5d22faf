---------------------------- MODULE HandlersProofs ----------------------------
(***************************************************************************)
(* Theorems about Handlers for every number of clients, servers,           *)
(* identifiers, tasks and handlers.                                        *)
(***************************************************************************)
EXTENDS Handlers, TransportProofs

-----------------------------------------------------------------------------
(* The handlers only watch: every step of Handlers is one of Transport, so  *)
(* that what is proved of Transport holds with handlers as well.            *)
LEMMA StepsOfTransport == [HandlersNext]_allVars => [Next]_vars
<1> SUFFICES ASSUME [HandlersNext]_allVars PROVE [Next]_vars
  OBVIOUS
<1>1. ASSUME NEW h, NEW c \in Clients, SetClientHandler(c, h) PROVE UNCHANGED vars
  BY <1>1 DEF SetClientHandler
<1>2. ASSUME NEW h, NEW s \in Servers, SetServerHandler(s, h) PROVE UNCHANGED vars
  BY <1>2 DEF SetServerHandler, vars
<1>3. ASSUME NEW h, NEW ch \in Channels, SetConnectionHandler(ch, h) PROVE UNCHANGED vars
  BY <1>3 DEF SetConnectionHandler
<1>4. ASSUME NEW c \in Clients, DeleteClient(c) PROVE Next
  BY <1>4 DEF Next, ClientCall
<1>5. ASSUME NEW s \in Servers, DeleteServer(s) PROVE Next
  BY <1>5 DEF Next, ServerCall
<1>6. ASSUME Establish PROVE Next
  BY <1>6 DEF Next, ProcessTask, Establish
<1>7. ASSUME Disconnected PROVE Next
  BY <1>7 DEF Next, ProcessTask, Disconnected
<1>8. ASSUME NEW c \in Clients,
             \/ NewClient(c)
             \/ \E id \in ClientIds : Bind(c, id)
             \/ \E sid \in ServerIds : ConnectToHost(c, sid)
             \/ ClientDisconnect(c)
             \/ \E text \in Texts : ClientSend(c, text)
      PROVE  Next
  BY <1>8 DEF Next, ClientCall
<1>9. ASSUME NEW s \in Servers,
             \/ NewServer(s)
             \/ \E sid \in ServerIds : Listen(s, sid)
             \/ ServerDisconnect(s)
             \/ \E id \in ClientIds :
                   \/ ConnectionDisconnect(s, id)
                   \/ \E text \in Texts : ConnectionSend(s, id, text)
      PROVE  Next
  BY <1>9 DEF Next, ServerCall
<1>10. ASSUME ConnectInVain \/ DeliverMessage \/ DisconnectDeleted PROVE Next
  BY <1>10 DEF Next, ProcessTask
<1>11. ASSUME UNCHANGED allVars PROVE UNCHANGED vars
  BY <1>11 DEF allVars
<1> QED BY <1>1, <1>2, <1>3, <1>4, <1>5, <1>6, <1>7, <1>8, <1>9, <1>10, <1>11
           DEF HandlersNext

(* Handlers implements Transport: clients, servers and connections that get *)
(* handlers, call them and delete them do to channels and registries only   *)
(* what they may do without any.                                            *)
THEOREM HandlersImplementTransport == HandlersSpec => Spec
<1>1. HandlersInit => Init
  BY DEF HandlersInit
<1> QED BY <1>1, StepsOfTransport, PTL DEF HandlersSpec, Spec
-----------------------------------------------------------------------------
(* The inductive invariant. *)
HandlersTyped ==
    /\ handlers \subseteq Handlers
    /\ held \in [Slots -> Handlers \cup {None}]
    /\ called \in [Channels -> Handlers \cup {None}]

HandlersInv ==
    /\ TransportInv
    /\ HandlersTyped
    /\ HandlersOwnedOnce
    /\ ChannelsCallLastHandler

(* A slot belongs to an object of one class only. *)
LEMMA SlotProperties ==
  /\ \A c \in Clients : c \notin Servers /\ c \notin Channels
  /\ \A s \in Servers : s \notin Channels
  /\ None \notin Clients /\ None \notin Servers /\ None \notin Channels
  /\ \A c \in Clients : \A kind \in {"message", "connected", "disconnected"} :
        <<c, kind>> \in Slots
  /\ \A s \in Servers : <<s, "newConnection">> \in Slots
  /\ \A ch \in Channels : \A kind \in {"message", "disconnected"} : <<ch, kind>> \in Slots
  /\ \A slot \in Slots : /\ slot = <<slot[1], slot[2]>>
                         /\ slot[1] \in Clients \cup Servers \cup Channels
                         /\ slot[1] \in Channels => slot[2] \in {"message", "disconnected"}
  BY ClassesAssumption, ObjectsAssumption, OwnersAssumption, NullAssumption DEF Slots

LEMMA FreshProperties ==
  ASSUME NEW taken, NEW h \in Fresh(taken) \cup {None}
  PROVE  h # None => h \in Handlers /\ h \notin taken
  BY DEF Fresh

(* What HandlersOwnedOnce says of one slot. *)
LEMMA OwnedOnce ==
  ASSUME HandlersInv
  PROVE  /\ \A slot \in Slots : held[slot] # None =>
               /\ held[slot] \in handlers
               /\ slot[1] \in clients \cup servers \cup net.alive
         /\ \A h \in handlers : \E slot \in Slots : held[slot] = h
         /\ \A slot, other \in Slots :
               held[slot] # None /\ held[other] = held[slot] => other = slot
         /\ None \notin handlers
  BY HandlersAssumption DEF HandlersInv, HandlersTyped, HandlersOwnedOnce

(* A channel belongs to an existing client, or is a connection. *)
LEMMA OwnersExist ==
  ASSUME TransportInv
  PROVE  \A ch \in net.alive :
           /\ ch \in Channels
           /\ owner[ch] \in Clients => /\ owner[ch] \in clients
                                       /\ clientChannel[owner[ch]] = ch
           /\ owner[ch] \notin Clients => owner[ch] \in Servers /\ ch[2] = "server"
<1> SUFFICES ASSUME NEW ch \in net.alive
             PROVE  /\ ch \in Channels
                    /\ owner[ch] \in Clients => /\ owner[ch] \in clients
                                                /\ clientChannel[owner[ch]] = ch
                    /\ owner[ch] \notin Clients => owner[ch] \in Servers /\ ch[2] = "server"
  OBVIOUS
<1>1. ch \in Channels /\ ch # None /\ ch[2] \in {"client", "server"}
  BY HeldChannels, PeerProperties DEF TransportInv
<1>2. CASE ch[2] = "client"
  BY <1>1, <1>2 DEF TransportInv, Holding, ChannelsHeld, ClientsHold
<1>3. CASE ch[2] = "server"
  BY <1>1, <1>3, ClassesAssumption DEF TransportInv, Holding, ChannelsHeld
<1> QED BY <1>1, <1>2, <1>3
-----------------------------------------------------------------------------
LEMMA HandlersInitInv == HandlersInit => HandlersInv
<1> SUFFICES ASSUME HandlersInit PROVE HandlersInv
  OBVIOUS
<1>1. TransportInv /\ net.alive = {}
  BY InitInv DEF HandlersInit, Init, EmptyNet
<1>2. HandlersTyped /\ HandlersOwnedOnce /\ ChannelsCallLastHandler
  BY <1>1 DEF HandlersInit, HandlersTyped, HandlersOwnedOnce, ChannelsCallLastHandler
<1> QED BY <1>1, <1>2 DEF HandlersInv

(* Steps that concern no handler and create or delete no channel. *)
LEMMA UntouchedKeeps ==
  ASSUME HandlersInv, TransportInv', UNCHANGED handlerVars,
         net'.alive = net.alive, owner' = owner,
         clients \subseteq clients', servers \subseteq servers'
  PROVE  HandlersInv'
<1>1. HandlersTyped' /\ HandlersOwnedOnce'
  BY DEF HandlersInv, HandlersTyped, HandlersOwnedOnce, handlerVars
<1>2. ChannelsCallLastHandler'
  BY DEF HandlersInv, ChannelsCallLastHandler, handlerVars
<1> QED BY <1>1, <1>2 DEF HandlersInv

(* A member of an existing object gets another handler. *)
LEMMA ReplaceKeeps ==
  ASSUME HandlersInv, NEW slot \in Slots, NEW h \in Fresh(handlers) \cup {None},
         Replace(slot, h), slot[1] \in clients \cup servers \cup net.alive, UNCHANGED vars
  PROVE  /\ handlers' \subseteq Handlers /\ held' \in [Slots -> Handlers \cup {None}]
         /\ HandlersOwnedOnce'
         /\ held'[slot] = h
         /\ \A other \in Slots : other # slot => held'[other] = held[other]
<1>1. held \in [Slots -> Handlers \cup {None}] /\ handlers \subseteq Handlers
  BY DEF HandlersInv, HandlersTyped
<1>2. h # None => h \in Handlers /\ h \notin handlers
  BY FreshProperties
<1>3. /\ held' = [held EXCEPT ![slot] = h]
      /\ handlers' = (handlers \ {held[slot]}) \cup ({h} \ {None})
  BY DEF Replace
<1>4. /\ held'[slot] = h
      /\ \A other \in Slots : other # slot => held'[other] = held[other]
      /\ held' \in [Slots -> Handlers \cup {None}]
      /\ handlers' \subseteq Handlers
  BY <1>1, <1>2, <1>3
<1>5. /\ clients' = clients /\ servers' = servers /\ net' = net
  BY DEF vars, clientVars, serverVars
<1>6. ASSUME NEW x \in Slots, held'[x] # None
      PROVE  /\ held'[x] \in handlers'
             /\ x[1] \in clients' \cup servers' \cup net'.alive
             /\ \A other \in Slots : held'[other] = held'[x] => other = x
  <2>1. CASE x = slot
    <3>1. \A other \in Slots : other # slot /\ held[other] # None => held[other] # h
      BY <1>2, <2>1, OwnedOnce
    <3> QED BY <1>3, <1>4, <1>5, <1>6, <2>1, <3>1
  <2>2. CASE x # slot
    <3>1. held'[x] = held[x] /\ held[x] \in handlers /\ held[x] # held[slot]
      BY <1>4, <1>6, <2>2, OwnedOnce
    <3>2. held[x] # h
      BY <1>2, <1>6, <3>1
    <3> QED BY <1>3, <1>4, <1>5, <1>6, <3>1, <3>2, OwnedOnce
  <2> QED BY <2>1, <2>2
<1>7. ASSUME NEW x \in handlers' PROVE x # None /\ \E y \in Slots : held'[y] = x
  <2>1. CASE x = h
    BY <1>2, <1>3, <1>4, <1>7, <2>1, OwnedOnce
  <2>2. CASE x # h
    <3>1. x \in handlers /\ x # held[slot]
      BY <1>3, <1>7, <2>2
    <3>2. PICK y \in Slots : held[y] = x
      BY <3>1, OwnedOnce
    <3> QED BY <1>4, <3>1, <3>2, OwnedOnce
  <2> QED BY <2>1, <2>2
<1>8. HandlersOwnedOnce'
  BY <1>6, <1>7 DEF HandlersOwnedOnce
<1> QED BY <1>4, <1>8

(* SetHandler of a client, a server or a connection. *)
LEMMA SetHandlerKeeps ==
  ASSUME HandlersInv, NEW h \in Fresh(handlers) \cup {None}
  PROVE  /\ \A c \in Clients : SetClientHandler(c, h) => HandlersInv'
         /\ \A s \in Servers : SetServerHandler(s, h) => HandlersInv'
         /\ \A ch \in Channels : SetConnectionHandler(ch, h) => HandlersInv'
<1>1. /\ TransportInv
      /\ called \in [Channels -> Handlers \cup {None}]
      /\ \A ch \in net.alive :
            called[ch] = held[<<IF owner[ch] \in Clients THEN owner[ch] ELSE ch, "message">>]
  BY DEF HandlersInv, HandlersTyped, ChannelsCallLastHandler
<1>2. h \in Handlers \cup {None}
  BY FreshProperties
<1>3. ASSUME UNCHANGED vars PROVE TransportInv'
  BY <1>1, <1>3, UnchangedInv
<1>4. ASSUME NEW slot \in Slots, Replace(slot, h), UNCHANGED <<vars, called>>,
             slot[1] \in clients \cup servers \cup net.alive, slot[2] # "message"
      PROVE  HandlersInv'
  <2>1. /\ handlers' \subseteq Handlers /\ held' \in [Slots -> Handlers \cup {None}]
        /\ HandlersOwnedOnce'
        /\ \A other \in Slots : other # slot => held'[other] = held[other]
    BY <1>4, ReplaceKeeps
  <2>2. net' = net /\ owner' = owner /\ called' = called
    BY <1>4 DEF vars, channelVars
  <2>3. \A ch \in net.alive :
           LET receiver == IF owner[ch] \in Clients THEN owner[ch] ELSE ch
           IN  <<receiver, "message">> \in Slots /\ <<receiver, "message">> # slot
    <3>1. \A receiver : <<receiver, "message">> # slot
      BY <1>4
    <3>2. \A ch \in net.alive : \/ owner[ch] \in Clients /\ <<owner[ch], "message">> \in Slots
                                \/ owner[ch] \notin Clients /\ <<ch, "message">> \in Slots
      BY <1>1, OwnersExist, SlotProperties
    <3> QED BY <3>1, <3>2
  <2>4. ChannelsCallLastHandler'
    BY <1>1, <2>1, <2>2, <2>3 DEF ChannelsCallLastHandler
  <2> QED BY <1>1, <1>3, <1>4, <2>1, <2>2, <2>4 DEF HandlersInv, HandlersTyped
<1>5. ASSUME NEW object, NEW channel, SetMessageHandler(object, channel, h), UNCHANGED vars,
             <<object, "message">> \in Slots,
             object \in clients \cup servers \cup net.alive,
             \A ch \in net.alive :
                (IF owner[ch] \in Clients THEN owner[ch] ELSE ch) = object <=> ch = channel
      PROVE  HandlersInv'
  <2> DEFINE slot == <<object, "message">>
  <2>1. /\ slot \in Slots /\ slot[1] = object /\ Replace(slot, h)
        /\ called' = [ch \in Channels |-> IF ch = channel THEN h ELSE called[ch]]
    BY <1>5 DEF SetMessageHandler
  <2> HIDE DEF slot
  <2>2. /\ handlers' \subseteq Handlers /\ held' \in [Slots -> Handlers \cup {None}]
        /\ HandlersOwnedOnce'
        /\ held'[slot] = h
        /\ \A other \in Slots : other # slot => held'[other] = held[other]
    BY <1>5, <2>1, ReplaceKeeps
  <2>3. net' = net /\ owner' = owner
    BY <1>5 DEF vars, channelVars
  <2>4. called' \in [Channels -> Handlers \cup {None}]
    BY <1>1, <1>2, <2>1
  <2>5. ASSUME NEW ch \in net.alive
        PROVE  called'[ch] = held'[<<IF owner[ch] \in Clients THEN owner[ch] ELSE ch, "message">>]
    <3> DEFINE receiver == IF owner[ch] \in Clients THEN owner[ch] ELSE ch
    <3>1. ch \in Channels /\ <<receiver, "message">> \in Slots
      BY <1>1, OwnersExist, SlotProperties
    <3>2. receiver = object <=> ch = channel
      BY <1>5
    <3>3. called[ch] = held[<<receiver, "message">>]
      BY <1>1
    <3>4. <<receiver, "message">> = slot <=> receiver = object
      BY DEF slot
    <3> HIDE DEF receiver
    <3>5. called'[ch] = held'[<<receiver, "message">>]
      BY <2>1, <2>2, <3>1, <3>2, <3>3, <3>4
    <3> QED BY <3>5 DEF receiver
  <2>6. ChannelsCallLastHandler'
    BY <2>3, <2>5 DEF ChannelsCallLastHandler
  <2> QED BY <1>3, <1>5, <2>2, <2>4, <2>6 DEF HandlersInv, HandlersTyped
<1>6. ASSUME NEW c \in Clients, SetClientHandler(c, h) PROVE HandlersInv'
  <2>1. c \in clients /\ UNCHANGED vars
    BY <1>6 DEF SetClientHandler
  <2>2. CASE SetMessageHandler(c, clientChannel[c], h)
    <3>1. <<c, "message">> \in Slots
      BY SlotProperties
    <3>2. ASSUME NEW ch \in net.alive
          PROVE  (IF owner[ch] \in Clients THEN owner[ch] ELSE ch) = c <=> ch = clientChannel[c]
      <4>1. ASSUME ch = clientChannel[c] PROVE owner[ch] = c
        <5>1. clientChannel[c] # None
          BY <1>1, <4>1, OwnersExist, SlotProperties
        <5> QED BY <1>1, <4>1, <5>1 DEF TransportInv, Holding, ClientsHold
      <4> QED BY <1>1, <4>1, OwnersExist, SlotProperties
    <3> QED BY <1>5, <2>1, <2>2, <3>1, <3>2
  <2>3. CASE UNCHANGED called /\ (Replace(<<c, "connected">>, h) \/ Replace(<<c, "disconnected">>, h))
    BY <1>4, <2>1, <2>3, SlotProperties
  <2> QED BY <1>6, <2>2, <2>3 DEF SetClientHandler
<1>7. ASSUME NEW s \in Servers, SetServerHandler(s, h) PROVE HandlersInv'
  <2>1. s \in servers /\ Replace(<<s, "newConnection">>, h) /\ UNCHANGED <<vars, called>>
    BY <1>7 DEF SetServerHandler
  <2> QED BY <1>4, <2>1, SlotProperties
<1>8. ASSUME NEW ch \in Channels, SetConnectionHandler(ch, h) PROVE HandlersInv'
  <2>1. PICK s \in Servers, id \in ClientIds : connections[s][id] = ch
    BY <1>8 DEF SetConnectionHandler
  <2>2. /\ ch \in net.alive /\ owner[ch] = s /\ UNCHANGED vars
    BY <1>1, <1>8, <2>1, NullAssumption
       DEF SetConnectionHandler, TransportInv, Holding, ServersHold
  <2>3. CASE SetMessageHandler(ch, ch, h)
    <3>1. \A x \in net.alive :
             (IF owner[x] \in Clients THEN owner[x] ELSE x) = ch <=> x = ch
      BY <2>2, SlotProperties
    <3> QED BY <1>5, <2>2, <2>3, <3>1, SlotProperties
  <2>4. CASE Replace(<<ch, "disconnected">>, h) /\ UNCHANGED called
    BY <1>4, <2>2, <2>4, SlotProperties
  <2> QED BY <1>8, <2>3, <2>4 DEF SetConnectionHandler
<1> QED BY <1>6, <1>7, <1>8
-----------------------------------------------------------------------------
(* Objects and channels that are deleted take their handlers with them. *)
LEMMA DestroyKeeps ==
  ASSUME HandlersInv, TransportInv', NEW objects \in SUBSET (Clients \cup Servers),
         Destroy(objects), clients' = clients \ objects, servers' = servers \ objects,
         net'.alive \subseteq net.alive, ForgetDead
  PROVE  HandlersInv'
<1> DEFINE lost == Lost(objects)
<1>1. /\ handlers \subseteq Handlers
      /\ held \in [Slots -> Handlers \cup {None}]
      /\ called \in [Channels -> Handlers \cup {None}]
      /\ TransportInv
  BY DEF HandlersInv, HandlersTyped
<1>2. /\ handlers' = handlers \ {held[slot] : slot \in lost}
      /\ held' = [slot \in Slots |-> IF slot \in lost THEN None ELSE held[slot]]
      /\ called' = [ch \in Channels |-> IF ch \in net'.alive THEN called[ch] ELSE None]
  BY DEF Destroy
<1>3. ASSUME NEW slot \in Slots, slot \notin lost
      PROVE  /\ slot[1] \notin objects
             /\ slot[1] \in Channels => slot[1] \in net'.alive
  BY <1>3 DEF Lost
<1>4. \A receiver \in (Clients \ objects) \cup net'.alive : \A kind :
         <<receiver, kind>> \notin lost
  <2>1. \A ch \in net'.alive : ch \in Channels /\ ch \notin Clients \cup Servers
    BY <1>1, OwnersExist, SlotProperties
  <2>2. \A receiver, kind : <<receiver, kind>>[1] = receiver
    OBVIOUS
  <2> QED BY <2>1, <2>2, SlotProperties DEF Lost
<1>5. lost \subseteq Slots
  BY DEF Lost
<1> HIDE DEF lost
<1>6. HandlersTyped'
  BY <1>1, <1>2 DEF HandlersTyped
<1>7. HandlersOwnedOnce'
  <2>1. ASSUME NEW slot \in Slots, held'[slot] # None
        PROVE  /\ held'[slot] \in handlers'
               /\ slot[1] \in clients' \cup servers' \cup net'.alive
               /\ \A other \in Slots : held'[other] = held'[slot] => other = slot
    <3>1. slot \notin lost /\ held'[slot] = held[slot]
      BY <1>2, <2>1
    <3>2. /\ held[slot] \in handlers
          /\ slot[1] \in clients \cup servers \cup net.alive
          /\ \A other \in Slots : held[other] = held[slot] => other = slot
      BY <2>1, <3>1, OwnedOnce
    <3>3. slot[1] \in clients' \cup servers' \cup net'.alive
      <4>1. slot[1] \in net.alive => slot[1] \in Channels
        BY <1>1, OwnersExist
      <4> QED BY <1>3, <3>1, <3>2, <4>1
    <3>4. held[slot] \in handlers'
      BY <1>2, <1>5, <3>1, <3>2
    <3> QED BY <1>2, <2>1, <3>1, <3>2, <3>3, <3>4
  <2>2. ASSUME NEW h \in handlers' PROVE h # None /\ \E slot \in Slots : held'[slot] = h
    <3>1. h \in handlers /\ \A slot \in lost : held[slot] # h
      BY <1>2, <2>2
    <3>2. PICK slot \in Slots : held[slot] = h
      BY <3>1, OwnedOnce
    <3> QED BY <1>2, <3>1, <3>2, OwnedOnce
  <2> QED BY <2>1, <2>2 DEF HandlersOwnedOnce
<1>8. ChannelsCallLastHandler'
  <2> SUFFICES ASSUME NEW ch \in net'.alive
               PROVE  called'[ch] =
                         held'[<<IF owner'[ch] \in Clients THEN owner'[ch] ELSE ch, "message">>]
    BY DEF ChannelsCallLastHandler
  <2> DEFINE receiver == IF owner[ch] \in Clients THEN owner[ch] ELSE ch
  <2>1. ch \in net.alive /\ ch \in Channels
    BY <1>1, OwnersExist
  <2>2. owner'[ch] = owner[ch]
    BY <2>1 DEF ForgetDead
  <2>3. called'[ch] = called[ch] /\ called[ch] = held[<<receiver, "message">>]
    BY <1>2, <2>1 DEF HandlersInv, ChannelsCallLastHandler
  <2>4. receiver \in (Clients \ objects) \cup net'.alive
    <3>1. owner'[ch] \in Clients => owner'[ch] \in clients'
      <4>1. clients' \subseteq Clients
        BY DEF TransportInv, TypeOK
      <4>2. clientChannel' \in [Clients -> Channels \cup {None}]
        BY DEF TransportInv, TypeOK
      <4>3. ASSUME owner'[ch] \in Clients PROVE clientChannel'[owner'[ch]] = ch
        <5>1. ch[2] \in {"client", "server"}
          BY <2>1, PeerProperties
        <5> QED BY <4>3, <5>1, ClassesAssumption DEF TransportInv, Holding, ChannelsHeld
      <4> QED BY <2>1, <4>3, SlotProperties DEF TransportInv, Holding, ClientsHold
    <3> QED BY <2>2, <3>1
  <2>5. <<receiver, "message">> \in Slots /\ <<receiver, "message">> \notin lost
    BY <1>4, <2>1, <2>4, SlotProperties
  <2> QED BY <1>2, <2>2, <2>3, <2>5
<1> QED BY <1>6, <1>7, <1>8 DEF HandlersInv

(* The actions that delete objects or channels. *)
LEMMA ClientGoes ==
  ASSUME TransportInv, NEW c \in Clients, DeleteClient(c)
  PROVE  /\ net'.alive \subseteq net.alive /\ ForgetDead
         /\ clients' = clients \ {c} /\ servers' = servers
<1>1. net'.alive \subseteq net.alive
  <2>1. CASE clientChannel[c] = None
    BY <2>1 DEF DeleteClient
  <2>2. CASE clientChannel[c] # None
    <3> DEFINE ch == clientChannel[c]
               told == {}
               left == {}
    <3>1. ch \in Channels /\ net' = Delete(net, ch)
      BY <2>2, HeldChannels DEF DeleteClient, TransportInv
    <3>2. Good(net, told) /\ left = told \ {ch}
      BY DEF TransportInv
    <3> HIDE DEF ch, told, left
    <3> QED BY <3>1, <3>2, DeleteGood
  <2> QED BY <2>1, <2>2
<1> QED BY <1>1 DEF DeleteClient, serverVars

LEMMA ServerGoes ==
  ASSUME TransportInv, NEW s \in Servers, DeleteServer(s)
  PROVE  /\ net'.alive \subseteq net.alive /\ ForgetDead
         /\ clients' = clients /\ servers' = servers \ {s}
<1>1. net'.alive \subseteq net.alive
  <2>1. PICK order \in Orders(s) : net' = DeleteAll(net, order)
    BY DEF DeleteServer
  <2>2. order \in Seq(Channels) /\ Good(net, {})
    BY OrdersProperties DEF TransportInv
  <2> QED BY <2>1, <2>2, DeleteAllGood
<1> QED BY <1>1 DEF DeleteServer, clientVars

LEMMA ChannelsGo ==
  ASSUME TransportInv, DisconnectClientSide \/ DisconnectServerSide
  PROVE  /\ net'.alive \subseteq net.alive /\ ForgetDead
         /\ clients' = clients /\ servers' = servers
<1> DEFINE ch == NextTask.channel
<1>1. /\ IsNext("disconnect") /\ ch # None /\ ForgetDead
      /\ clients' = clients /\ servers' = servers
  BY DEF DisconnectClientSide, DisconnectServerSide, clientVars, serverVars
<1>2. \E x \in Channels \cup {None} :
         net' = IF x = None THEN Popped ELSE Delete(Popped, x)
  <2>1. CASE DisconnectClientSide
    BY <2>1 DEF DisconnectClientSide, TransportInv, TypeOK
  <2>2. CASE DisconnectServerSide
    <3>1. ch \in net.alive
      BY <1>1, TakeDisconnect
    <3>2. owner[ch] \in Servers
      BY <2>2 DEF DisconnectServerSide
    <3>3. ch \in Channels /\ ch[2] = "server"
      BY <3>1, <3>2, OwnersExist, SlotProperties
    <3>4. peerId[ch] \in ClientIds
      BY <3>1, <3>3 DEF TransportInv, Holding, ChannelsHeld
    <3> DEFINE x == connections[owner[ch]][peerId[ch]]
    <3>5. x \in Channels \cup {None}
      BY <3>2, <3>4 DEF TransportInv, TypeOK
    <3>6. net' = IF x = None THEN Popped ELSE Delete(Popped, x)
      BY <2>2 DEF DisconnectServerSide
    <3> HIDE DEF x
    <3> QED BY <3>5, <3>6
  <2> QED BY <2>1, <2>2
<1>3. Good(Popped, {ch}) /\ Popped.alive = net.alive
  BY <1>1, TakeDisconnect
<1>4. PICK x \in Channels \cup {None} :
         net' = IF x = None THEN Popped ELSE Delete(Popped, x)
  BY <1>2
<1>5. CASE x = None
  BY <1>1, <1>3, <1>4, <1>5
<1>6. CASE x # None
  <2> DEFINE told == {ch}
             popped == Popped
             left == told \ {x}
  <2>1. Good(popped, told) /\ x \in Channels /\ left = told \ {x} /\ net' = Delete(popped, x)
    BY <1>3, <1>4, <1>6
  <2> HIDE DEF told, popped, left
  <2>2. net'.alive = popped.alive \ {x}
    BY <2>1, DeleteGood
  <2> QED BY <1>1, <1>3, <2>2 DEF popped
<1> QED BY <1>5, <1>6

(* Nothing but the two channels of one link may be new. *)
LEMMA ChannelsCome ==
  ASSUME TransportInv, ConnectToServer
  PROVE  /\ net.alive \subseteq net'.alive
         /\ \A ch \in net.alive : owner'[ch] = owner[ch]
         /\ \E link : \A ch \in net'.alive : ch \in net.alive \/ ch[1] = link
         /\ clients' = clients /\ servers' = servers
<1>1. TypeOK
  BY DEF TransportInv
<1>2. IsNext("connect") /\ clients' = clients /\ servers' = servers
  BY DEF ConnectToServer
<1>3. NextTask.clientId \in ClientIds /\ NextTask.serverId \in ServerIds
  BY <1>2, TakeTask DEF Tasks
<1> DEFINE cid == NextTask.clientId
           s == serversMap[NextTask.serverId]
           c == clientsMap[cid]
<1>4. PICK link \in FreeLinks(net) :
        LET serverSide == <<link, "server">>
            clientSide == <<link, "client">>
            added == ServerAfterAdd(Connect(Popped, link), s, cid, serverSide)
            set == ClientAfterSet(added, c, clientSide)
            kept == {serverSide, clientSide} \cap set.alive
        IN  /\ s # None /\ c # None
            /\ net' = set
            /\ owner' = [ch \in Channels |->
                           IF ch \notin kept THEN owner[ch]
                           ELSE IF ch = serverSide THEN s ELSE c]
  BY DEF ConnectToServer
<1> DEFINE serverSide == <<link, "server">>
           clientSide == <<link, "client">>
<1>5. net' = ClientAfterSet(ServerAfterAdd(Connect(Popped, link), s, cid, serverSide),
                            c, clientSide)
  BY <1>4
<1>6. \A ch \in Channels : ch # serverSide /\ ch # clientSide => owner'[ch] = owner[ch]
  BY <1>4
<1>7. s \in Servers /\ c \in Clients /\ cid \in ClientIds
  BY <1>1, <1>3, <1>4 DEF TypeOK
<1>8. serverSide = <<link, "server">> /\ clientSide = <<link, "client">>
  OBVIOUS
<1> HIDE DEF serverSide, clientSide, cid, s, c
<1>9. /\ Good(net', {})
      /\ \A ch : ch \in net'.alive <=>
               \/ ch \in net.alive
               \/ ch = serverSide /\ connections[s][cid] = None
               \/ ch = clientSide /\ clientChannel[c] = None
      /\ net'.connected = IF connections[s][cid] = None /\ clientChannel[c] = None
                          THEN net.connected \cup {serverSide, clientSide}
                          ELSE net.connected
      /\ serverSide \in Channels /\ serverSide \notin net.alive
      /\ clientSide \in Channels /\ clientSide \notin net.alive
      /\ serverSide # clientSide /\ Peer(clientSide) = serverSide
      /\ Moved(net', net, 1)
  BY <1>2, <1>5, <1>7, <1>8, ConnectNet
<1>10. \A ch \in net.alive : ch \in Channels
  BY <1>1, HeldChannels
<1>11. \A ch \in net.alive : owner'[ch] = owner[ch]
  BY <1>6, <1>9, <1>10
<1>12. serverSide[1] = link /\ clientSide[1] = link
  BY <1>8
<1> QED BY <1>2, <1>9, <1>11, <1>12

(* A connection is announced to the handler of its server, and gets its own. *)
LEMMA EstablishKeeps ==
  ASSUME HandlersInv, TransportInv', Establish
  PROVE  HandlersInv'
<1> DEFINE new == net'.alive \ net.alive
           announced == {ch \in new : owner'[ch] \in Servers
                           /\ held[<<owner'[ch], "newConnection">>] # None}
<1>1. PICK message \in Fresh(handlers) \cup {None} :
      \E disconnected \in Fresh(handlers \cup {message}) \cup {None} :
        /\ announced = {} => message = None /\ disconnected = None
        /\ held' = [slot \in Slots |->
              IF slot[1] \notin announced THEN held[slot]
              ELSE IF slot[2] = "message" THEN message ELSE disconnected]
        /\ handlers' = handlers \cup ({message, disconnected} \ {None})
        /\ called' = [ch \in Channels |->
              IF ch \notin new THEN called[ch]
              ELSE IF ch \in announced THEN message
              ELSE IF owner'[ch] \in Clients THEN held[<<owner'[ch], "message">>]
              ELSE None]
  BY DEF Establish
<1>2. PICK disconnected \in Fresh(handlers \cup {message}) \cup {None} :
        /\ announced = {} => message = None /\ disconnected = None
        /\ held' = [slot \in Slots |->
              IF slot[1] \notin announced THEN held[slot]
              ELSE IF slot[2] = "message" THEN message ELSE disconnected]
        /\ handlers' = handlers \cup ({message, disconnected} \ {None})
        /\ called' = [ch \in Channels |->
              IF ch \notin new THEN called[ch]
              ELSE IF ch \in announced THEN message
              ELSE IF owner'[ch] \in Clients THEN held[<<owner'[ch], "message">>]
              ELSE None]
  BY <1>1
<1>3. /\ TransportInv /\ ConnectToServer
      /\ handlers \subseteq Handlers
      /\ held \in [Slots -> Handlers \cup {None}]
      /\ called \in [Channels -> Handlers \cup {None}]
  BY DEF HandlersInv, HandlersTyped, Establish
<1>4. /\ net.alive \subseteq net'.alive
      /\ \A ch \in net.alive : owner'[ch] = owner[ch]
      /\ clients' = clients /\ servers' = servers
  BY <1>3, ChannelsCome
<1>5. \A ch \in net'.alive :
         /\ ch \in Channels
         /\ owner'[ch] \in Clients \/ (owner'[ch] \in Servers /\ ch[2] = "server")
  <2> SUFFICES ASSUME NEW ch \in net'.alive
               PROVE  /\ ch \in Channels
                      /\ owner'[ch] \in Clients \/ (owner'[ch] \in Servers /\ ch[2] = "server")
    OBVIOUS
  <2>1. ch \in Channels
    BY DEF TransportInv, Good, Orderly, Nets
  <2>2. ch[2] \in {"client", "server"}
    BY <2>1, PeerProperties
  <2> QED BY <2>1, <2>2 DEF TransportInv, Holding, ChannelsHeld
<1>6. \A ch, other \in announced : ch = other
  <2>1. PICK link : \A ch \in net'.alive : ch \in net.alive \/ ch[1] = link
    BY <1>3, ChannelsCome
  <2>2. \A ch \in announced : ch \in Channels /\ ch[1] = link /\ ch[2] = "server"
    BY <1>5, <2>1, SlotProperties
  <2> HIDE DEF announced
  <2> QED BY <2>2 DEF Channels
<1>7. /\ message # None => message \in Handlers /\ message \notin handlers
      /\ disconnected # None => /\ disconnected \in Handlers
                               /\ disconnected \notin handlers /\ disconnected # message
  BY FreshProperties
<1>8. announced \subseteq new /\ new \subseteq Channels /\ new \cap net.alive = {}
  BY <1>5
<1>9. \A ch \in announced : owner'[ch] \in Servers
  OBVIOUS
<1>10. new \subseteq net'.alive /\ \A ch \in net'.alive : ch \in new \/ ch \in net.alive
  OBVIOUS
<1> HIDE DEF announced, new
<1>11. HandlersTyped'
  BY <1>2, <1>3, <1>7, SlotProperties DEF HandlersTyped
<1>12. \A slot \in Slots : slot[1] \in announced =>
          /\ held[slot] = None
          /\ held'[slot] = IF slot[2] = "message" THEN message ELSE disconnected
          /\ slot[2] \in {"message", "disconnected"}
  <2>1. \A slot \in Slots : slot[1] \in announced => held[slot] = None
    BY <1>8, OwnedOnce, SlotProperties DEF HandlersInv, TransportInv, TypeOK
  <2> QED BY <1>2, <1>8, <2>1, SlotProperties
<1>13. \A slot \in Slots : slot[1] \notin announced => held'[slot] = held[slot]
  BY <1>2
<1>14. HandlersOwnedOnce'
  <2>1. ASSUME NEW slot \in Slots, held'[slot] # None
        PROVE  /\ held'[slot] \in handlers'
               /\ slot[1] \in clients' \cup servers' \cup net'.alive
               /\ \A other \in Slots : held'[other] = held'[slot] => other = slot
    <3>1. CASE slot[1] \in announced
      <4>1. held'[slot] \in handlers' /\ held'[slot] \notin handlers
        BY <1>2, <1>7, <1>12, <2>1, <3>1
      <4>2. \A other \in Slots : held'[other] = held'[slot] => other[1] \in announced
        BY <1>13, <2>1, <4>1, OwnedOnce
      <4>3. ASSUME NEW other \in Slots, held'[other] = held'[slot] PROVE other = slot
        <5>1. other[1] = slot[1]
          BY <1>6, <3>1, <4>2, <4>3
        <5>2. other[2] = slot[2]
          BY <1>7, <1>12, <2>1, <3>1, <4>2, <4>3
        <5> QED BY <5>1, <5>2, SlotProperties
      <4> QED BY <1>8, <1>10, <3>1, <4>1, <4>3
    <3>2. CASE slot[1] \notin announced
      <4>1. /\ held'[slot] = held[slot] /\ held[slot] \in handlers
            /\ slot[1] \in clients \cup servers \cup net.alive
        BY <1>13, <2>1, <3>2, OwnedOnce
      <4>2. ASSUME NEW other \in Slots, held'[other] = held'[slot] PROVE other = slot
        <5>1. other[1] \notin announced
          BY <1>7, <1>12, <2>1, <4>1, <4>2
        <5> QED BY <1>13, <2>1, <4>1, <4>2, <5>1, OwnedOnce
      <4> QED BY <1>2, <1>4, <4>1, <4>2
    <3> QED BY <3>1, <3>2
  <2>2. ASSUME NEW h \in handlers' PROVE h # None /\ \E slot \in Slots : held'[slot] = h
    <3>1. CASE h \in handlers
      <4>1. PICK slot \in Slots : held[slot] = h
        BY <3>1, OwnedOnce
      <4>2. h # None
        BY <3>1, OwnedOnce
      <4> QED BY <1>12, <1>13, <4>1, <4>2
    <3>2. CASE h \notin handlers
      <4>1. h # None /\ (h = message \/ h = disconnected)
        BY <1>2, <2>2, <3>2
      <4>2. PICK ch \in announced : ch \in Channels
        BY <1>2, <1>8, <4>1
      <4>3. /\ <<ch, "message">> \in Slots /\ <<ch, "disconnected">> \in Slots
            /\ <<ch, "message">>[1] = ch /\ <<ch, "disconnected">>[1] = ch
            /\ <<ch, "message">>[2] = "message" /\ <<ch, "disconnected">>[2] = "disconnected"
        BY <4>2, SlotProperties
      <4>4. held'[<<ch, "message">>] = message /\ held'[<<ch, "disconnected">>] = disconnected
        BY <1>12, <4>2, <4>3
      <4> QED BY <4>1, <4>3, <4>4
    <3> QED BY <3>1, <3>2
  <2> QED BY <2>1, <2>2 DEF HandlersOwnedOnce
<1>15. ChannelsCallLastHandler'
  <2> SUFFICES ASSUME NEW ch \in net'.alive
               PROVE  called'[ch] =
                         held'[<<IF owner'[ch] \in Clients THEN owner'[ch] ELSE ch, "message">>]
    BY DEF ChannelsCallLastHandler
  <2>1. \A x, kind : <<x, kind>>[1] = x /\ <<x, kind>>[2] = kind
    OBVIOUS
  <2>2. ch \in Channels /\ <<ch, "message">> \in Slots
    BY <1>5, SlotProperties
  <2>3. \A c \in Clients : <<c, "message">> \in Slots /\ c \notin announced
    BY <1>8, SlotProperties
  <2>4. CASE ch \in net.alive
    <3>1. ch \notin new /\ ch \notin announced /\ owner'[ch] = owner[ch]
      BY <1>4, <1>8, <2>4
    <3>2. called'[ch] = called[ch]
      BY <1>2, <2>2, <3>1
    <3>3. called[ch] = held[<<IF owner[ch] \in Clients THEN owner[ch] ELSE ch, "message">>]
      BY <2>4 DEF HandlersInv, ChannelsCallLastHandler
    <3>4. CASE owner[ch] \in Clients
      BY <1>13, <2>1, <2>3, <3>1, <3>2, <3>3, <3>4
    <3>5. CASE owner[ch] \notin Clients
      BY <1>13, <2>1, <2>2, <3>1, <3>2, <3>3, <3>5
    <3> QED BY <3>4, <3>5
  <2>5. CASE ch \in announced
    <3>1. ch \in new /\ owner'[ch] \notin Clients
      BY <1>8, <1>9, <2>5, SlotProperties
    <3> QED BY <1>2, <1>12, <2>1, <2>2, <2>5, <3>1
  <2>6. CASE ch \in new /\ ch \notin announced
    <3>1. CASE owner'[ch] \in Clients
      BY <1>2, <1>13, <2>1, <2>2, <2>3, <2>6, <3>1
    <3>2. CASE owner'[ch] \notin Clients
      <4>1. called'[ch] = None
        BY <1>2, <2>2, <2>6, <3>2
      <4>2. ch \notin clients \cup servers \cup net.alive
        BY <1>8, <2>2, <2>6, SlotProperties DEF HandlersInv, TransportInv, TypeOK
      <4>3. held[<<ch, "message">>] = None
        BY <2>1, <2>2, <4>2, OwnedOnce
      <4> QED BY <1>13, <2>1, <2>2, <2>6, <3>2, <4>1, <4>3
    <3> QED BY <3>1, <3>2
  <2> QED BY <1>10, <2>4, <2>5, <2>6
<1> QED BY <1>11, <1>14, <1>15 DEF HandlersInv

(* The other actions are those of Transport that create and delete no        *)
(* channel.                                                                  *)
LEMMA OtherCalls ==
  ASSUME TransportInv
  PROVE  /\ \A c \in Clients :
               \/ NewClient(c)
               \/ \E id \in ClientIds : Bind(c, id)
               \/ \E sid \in ServerIds : ConnectToHost(c, sid)
               \/ ClientDisconnect(c)
               \/ \E text \in Texts : ClientSend(c, text)
               => /\ net'.alive = net.alive /\ owner' = owner
                  /\ clients \subseteq clients' /\ servers \subseteq servers'
         /\ \A s \in Servers :
               \/ NewServer(s)
               \/ \E sid \in ServerIds : Listen(s, sid)
               \/ ServerDisconnect(s)
               \/ \E id \in ClientIds :
                     \/ ConnectionDisconnect(s, id)
                     \/ \E text \in Texts : ConnectionSend(s, id, text)
               => /\ net'.alive = net.alive /\ owner' = owner
                  /\ clients \subseteq clients' /\ servers \subseteq servers'
         /\ ConnectInVain \/ DeliverMessage \/ DisconnectDeleted
               => /\ net'.alive = net.alive /\ owner' = owner
                  /\ clients \subseteq clients' /\ servers \subseteq servers'
<1> USE DEF clientVars, serverVars, channelVars
<1>1. TypeOK /\ Good(net, {}) /\ net \in Nets
  BY DEF TransportInv, TypeOK
<1>2. ASSUME NEW c \in Clients, NEW sid \in ServerIds, ConnectToHost(c, sid)
      PROVE  net'.alive = net.alive
  <2> DEFINE task == ConnectTask(clientId[c], sid)
  <2>1. task \in Tasks /\ net' = Schedule(net, task)
    BY <1>1, <1>2, TaskTypes DEF TypeOK, ConnectToHost
  <2> HIDE DEF task
  <2> QED BY <1>1, <2>1, ScheduleProperties
<1>3. ASSUME NEW c \in Clients, ClientDisconnect(c) PROVE net'.alive = net.alive
  BY <1>1, <1>3, HeldChannels, DisconnectGood DEF ClientDisconnect
<1>4. ASSUME NEW c \in Clients, NEW text \in Texts, ClientSend(c, text)
      PROVE  net'.alive = net.alive
  BY <1>1, <1>4, HeldChannels, SendGood DEF ClientSend
<1>5. ASSUME NEW s \in Servers, ServerDisconnect(s) PROVE net'.alive = net.alive
  <2>1. PICK order \in Orders(s) : net' = DisconnectAll(net, order)
    BY <1>5 DEF ServerDisconnect
  <2> QED BY <1>1, <2>1, OrdersProperties, DisconnectAllGood
<1>6. ASSUME NEW s \in Servers, NEW id \in ClientIds, ConnectionDisconnect(s, id)
      PROVE  net'.alive = net.alive
  BY <1>1, <1>6, HeldChannels, DisconnectGood DEF ConnectionDisconnect
<1>7. ASSUME NEW s \in Servers, NEW id \in ClientIds, NEW text \in Texts,
             ConnectionSend(s, id, text)
      PROVE  net'.alive = net.alive
  BY <1>1, <1>7, HeldChannels, SendGood DEF ConnectionSend
<1>8. ASSUME ConnectInVain \/ DeliverMessage \/ DisconnectDeleted
      PROVE  net'.alive = net.alive
  <2>1. ASSUME NEW kind \in {"connect", "message"}, IsNext(kind)
        PROVE  Popped.alive = net.alive
    BY <2>1, TakeTask
  <2>2. ASSUME IsNext("disconnect") PROVE Popped.alive = net.alive
    BY <2>2, TakeDisconnect
  <2> QED BY <1>8, <2>1, <2>2 DEF ConnectInVain, DeliverMessage, DisconnectDeleted
<1>9. ASSUME NEW c \in Clients,
             \/ NewClient(c)
             \/ \E id \in ClientIds : Bind(c, id)
             \/ \E sid \in ServerIds : ConnectToHost(c, sid)
             \/ ClientDisconnect(c)
             \/ \E text \in Texts : ClientSend(c, text)
      PROVE  /\ net'.alive = net.alive /\ owner' = owner
             /\ clients \subseteq clients' /\ servers \subseteq servers'
  BY <1>2, <1>3, <1>4, <1>9 DEF NewClient, Bind, ConnectToHost, ClientDisconnect, ClientSend
<1>10. ASSUME NEW s \in Servers,
              \/ NewServer(s)
              \/ \E sid \in ServerIds : Listen(s, sid)
              \/ ServerDisconnect(s)
              \/ \E id \in ClientIds :
                    \/ ConnectionDisconnect(s, id)
                    \/ \E text \in Texts : ConnectionSend(s, id, text)
       PROVE  /\ net'.alive = net.alive /\ owner' = owner
              /\ clients \subseteq clients' /\ servers \subseteq servers'
  BY <1>5, <1>6, <1>7, <1>10
     DEF NewServer, Listen, ServerDisconnect, ConnectionDisconnect, ConnectionSend
<1>11. ASSUME ConnectInVain \/ DeliverMessage \/ DisconnectDeleted
       PROVE  /\ net'.alive = net.alive /\ owner' = owner
              /\ clients \subseteq clients' /\ servers \subseteq servers'
  BY <1>8, <1>11 DEF ConnectInVain, DeliverMessage, DisconnectDeleted
<1> QED BY <1>9, <1>10, <1>11
-----------------------------------------------------------------------------
LEMMA HandlersNextInv == HandlersInv /\ [HandlersNext]_allVars => HandlersInv'
<1> SUFFICES ASSUME HandlersInv, [HandlersNext]_allVars PROVE HandlersInv'
  OBVIOUS
<1>1. TransportInv
  BY DEF HandlersInv
<1>2. TransportInv'
  BY <1>1, StepsOfTransport, NextInv
<1>3. ASSUME UNCHANGED allVars PROVE HandlersInv'
  BY <1>2, <1>3, UntouchedKeeps DEF allVars, vars, clientVars, serverVars, channelVars
<1>4. ASSUME NEW h \in Fresh(handlers) \cup {None},
             \/ \E c \in Clients : SetClientHandler(c, h)
             \/ \E s \in Servers : SetServerHandler(s, h)
             \/ \E ch \in Channels : SetConnectionHandler(ch, h)
      PROVE  HandlersInv'
  BY <1>4, SetHandlerKeeps
<1>5. ASSUME NEW c \in Clients, DeleteClient(c), Destroy({c}) PROVE HandlersInv'
  <2> DEFINE objects == {c}
  <2>1. /\ objects \in SUBSET (Clients \cup Servers) /\ Destroy(objects)
        /\ clients' = clients \ objects /\ servers' = servers \ objects
        /\ net'.alive \subseteq net.alive /\ ForgetDead
    BY <1>1, <1>5, ClientGoes, SlotProperties DEF TransportInv, TypeOK
  <2> HIDE DEF objects
  <2> QED BY <1>2, <2>1, DestroyKeeps
<1>6. ASSUME NEW s \in Servers, DeleteServer(s), Destroy({s}) PROVE HandlersInv'
  <2> DEFINE objects == {s}
  <2>1. /\ objects \in SUBSET (Clients \cup Servers) /\ Destroy(objects)
        /\ clients' = clients \ objects /\ servers' = servers \ objects
        /\ net'.alive \subseteq net.alive /\ ForgetDead
    BY <1>1, <1>6, ServerGoes, SlotProperties DEF TransportInv, TypeOK
  <2> HIDE DEF objects
  <2> QED BY <1>2, <2>1, DestroyKeeps
<1>7. ASSUME Disconnected PROVE HandlersInv'
  <2> DEFINE objects == {}
  <2>1. /\ objects \in SUBSET (Clients \cup Servers) /\ Destroy(objects)
        /\ clients' = clients \ objects /\ servers' = servers \ objects
        /\ net'.alive \subseteq net.alive /\ ForgetDead
    BY <1>1, <1>7, ChannelsGo DEF Disconnected
  <2> HIDE DEF objects
  <2> QED BY <1>2, <2>1, DestroyKeeps
<1>8. ASSUME Establish PROVE HandlersInv'
  BY <1>2, <1>8, EstablishKeeps
<1>9. ASSUME UNCHANGED handlerVars,
             net'.alive = net.alive, owner' = owner,
             clients \subseteq clients', servers \subseteq servers'
      PROVE  HandlersInv'
  BY <1>2, <1>9, UntouchedKeeps
<1>10. ASSUME UNCHANGED handlerVars,
              \/ \E c \in Clients :
                    \/ NewClient(c)
                    \/ \E id \in ClientIds : Bind(c, id)
                    \/ \E sid \in ServerIds : ConnectToHost(c, sid)
                    \/ ClientDisconnect(c)
                    \/ \E text \in Texts : ClientSend(c, text)
              \/ \E s \in Servers :
                    \/ NewServer(s)
                    \/ \E sid \in ServerIds : Listen(s, sid)
                    \/ ServerDisconnect(s)
                    \/ \E id \in ClientIds :
                          \/ ConnectionDisconnect(s, id)
                          \/ \E text \in Texts : ConnectionSend(s, id, text)
              \/ ConnectInVain
              \/ DeliverMessage
              \/ DisconnectDeleted
       PROVE  HandlersInv'
  BY <1>1, <1>9, <1>10, OtherCalls
<1> QED BY <1>3, <1>4, <1>5, <1>6, <1>7, <1>8, <1>10 DEF HandlersNext

LEMMA HandlersInvariance == HandlersSpec => []HandlersInv
<1> QED BY HandlersInitInv, HandlersNextInv, PTL DEF HandlersSpec

(* No handler is leaked or deleted twice, whatever is set, connected, broken *)
(* or deleted in which order (the destructors and the set...Handler methods  *)
(* of the three connection classes).                                         *)
THEOREM HandlersStayOwnedOnce == HandlersSpec => []HandlersOwnedOnce
<1>1. HandlersInv => HandlersOwnedOnce
  BY DEF HandlersInv
<1> QED BY <1>1, HandlersInvariance, PTL

(* The pointer of a channel follows the handler its owner was given last     *)
(* (clientconnectionmock.cpp:133-149, connectionmock.cpp:51-57).             *)
THEOREM LastHandlerIsCalled == HandlersSpec => []ChannelsCallLastHandler
<1>1. HandlersInv => ChannelsCallLastHandler
  BY DEF HandlersInv
<1> QED BY <1>1, HandlersInvariance, PTL
=============================================================================
