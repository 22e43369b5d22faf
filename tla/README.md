# Formal model of the device monitoring server

The repository is a C++ program (`src/devicemonitoringserver`) in which a server
monitors devices. Devices connect to the server, send it measurements ("meterages")
with time stamps, and get back either a command that corrects the measured parameter or
an error. The network is simulated in the process: two kinds of mock objects exchange
messages through a task queue. Everything runs in one thread. What makes the program
hard is not parallelism but the order of calls: any method may be called between two
tasks of the queue, tasks find the world changed since they were scheduled, and objects
that are linked by raw pointers are deleted from inside each other's handlers.

This directory holds TLA+ modules that model it, TLC configurations that check them on
small instances, and proofs checked by TLAPS. `PROJECT.json` lists components, runs,
mutants, hazards and theorems, and maps every definition to the lines it models.

## 1. Inventory

Paths are relative to `src/devicemonitoringserver`.

| Component | State | Operations | What makes it correct |
|---|---|---|---|
| **CommandCenter** `command_center.*` | per device: sorted plan and index of its current phase, last accepted time stamp, buffer of squared differences, list of statistics entries | `set_schedule`, `process_meterage`, `deviation_stats` | each meterage gets the answer the plan calls for; the index never misleads; the statistics are those of the past, across replaced plans |
| **Messages, plans** `message_*.h`, `deviceworkschedule.h` | none | construction, comparison, printing | the width of a command: `int8_t` |
| **TaskQueue** `servermock/taskqueue.*` | FIFO of owned tasks | `scheduleTask`, `processTask` | first in, first out; a task is deleted once |
| **ConnectionChannel** `servermock/connectionchannel.*` | peer (safe pointer), connected flag, handlers | `connect`, `sendMessage`, `disconnect`, destructor | both ends close together, each is told once, and after all messages |
| **ClientConnectionMock** `servermock/clientconnectionmock.*` | identifier, channel; global registry of clients | `bind`, `connectToHost`, `disconnect`, `sendMessage`, `setChannel`, `onDisconnected` | registry exact; owns at most one channel, which is released when broken |
| **ConnectionServerMock, ConnectionMock** `servermock/connectionservermock.*`, `connectionmock.*` | identifier, connections by client identifier; global registry of servers | `listen`, `disconnect`, `addChannel`, `onDisconnected`, `connection` | one connection for an identifier, and it is the other end of that client's channel |
| **Object, SafeObjectPointer** `servermock/object.*` | shared reference-counted block | construction, copy, assignment, destruction | a pointer is null iff its object is gone; the block is freed exactly once |
| **DeviceMonitoringServer** `devicemonitoringserver.*` | command centre, serializer, encoder, connection server | handlers of messages and connections, `setDeviceWorkSchedule` | each answer goes to the device that sent the meterage |
| **DeviceMock** `devicemock.*` | list of meterages, time stamp, received messages | `setMeterages`, `startMeterageSending`, `onMessageReceived`, `sendNextMeterage` | the next meterage is sent when the last one is answered; the list is sent to its end |
| **MessageSerializer** `message_serializer.*`, `big_endian.h` | none | `serialize`, `deserialize` | round trip; malformed strings are rejected |
| **MessageEncoder** and executors `message_encoder.*`, `*_encoder_executor.*` | owned executors, selected one | `add_executor`, `select_executor`, `encode`, `decode` | round trip; the selection stays valid; nothing is deleted twice |
| Interfaces `server/*.h`, `handlers/*.h` | none | – | their comments are promises: several are stated as properties |
| Tests, `main.cpp`, build files | none | – | they show how the classes are driven |

How they interact: `DeviceMock` owns a client connection, `DeviceMonitoringServer` owns
the connection server. `connectToHost` schedules a `ConnectToServerTask`. When it runs, it
looks up both sides in the registries *by identifier*, creates two channels that point at
each other, gives one to a new connection of the server and the other to the client.
`sendMessage` schedules a task for the peer; `disconnect` closes both sides and schedules
one `DisconnectTask` for each. The task of a channel calls the handler of its owner:
messages go to `DeviceMonitoringServer::onMessageReceived` (decode, deserialize,
`process_meterage`, serialize, encode, send to the *identifier*) or to
`DeviceMock::onMessageReceived` (decode, deserialize, remember, send the next meterage);
a disconnection deletes the channel.

Hard behaviours: lookups by identifier at the time a task runs; deletion of a linked object from
inside a handler or a destructor; messages in flight while a connection breaks; a plan that is
replaced while a device reports; a cursor and a buffer that survive from call to
call; conversion to narrower integers. `PROJECT.json` "hazards" gives each with its line.

## 2. Plan

Done: **DeviceMessages**, **CommandCenter** with its history, abstract specification and
proofs; **Channels** and **Transport** with proofs; **Handlers**; **Bytes**, **Executors**,
**Codec** and **MessageEncoder** with its abstract specification and proofs;
**SafePointer** likewise; **Monitoring**, the whole program, composed of Transport, the command
centre, both sides' choice of algorithm and the devices' exchanges, with proofs.

    DeviceMessages <- CommandCenter <- CommandCenterHistory  (implements MonitoringPolicy)
    Channels <- Transport <- Handlers
    Transport, CommandCenter <- Monitoring (INSTANCE of both) <- MonitoringHistory
    Bytes, Executors, DeviceMessages <- Codec
    MessageEncoder (implements EncoderRegistry)    SafePointer (implements WeakPointers)

What could follow: handlers that replace or delete themselves or their object while they run (the interface does not forbid
it, no handler of the repository does it).

Modules that are proved about declare no `RECURSIVE` operator; parameters are
`CONSTANTS` with named assumptions; each operation is an action; invariants are
conjunctions of named parts.

## 3. The command centre

**Modules.** `DeviceMessages` (data) ← `CommandCenter` (the class) ←
`CommandCenterHistory` (adds the history variable `journal`: every accepted meterage with
the phase it was compared to), which instantiates `MonitoringPolicy` (the promise of README
section 7 of the repository, stated over plans as sets and the journal, with no cursor, no
sorting and no buffer). `MCCommandCenter` gives values to
constants; `CommandCenterProofs`, `CommandCenterHistoryProofs` hold the proofs.

**Correspondence.** An action is one whole call. `SetSchedule` is `set_schedule`,
including the sort (any sorted permutation: `std::sort` is not stable). `ProcessMeterage`
is `process_meterage` with one disjunct per return: `AnswerObsolete`,
`AnswerNoSchedule`, `AnswerNoTimestamp`, `AnswerCommand`. The `while` loop is
`LoopStopsAt(s, from, t, k)`: the loop started at `from` stops at `k`; it is a relation, so
that it can be proved about without recursion. `current_phase_index` counts from 1 in the
model. The callback's argument is `answered`. Entries of the C++ maps that do not exist are
modelled by the value-initialised entries that `operator[]` would create, except in
`m_last_time_stamp`, which is searched with `find`. `square_diffs` is kept as sum and
count, and a deviation as the same pair: the code stores `sqrt(sum / count)`. Floating
point is not modelled; the sums involved are integers far below 2^53.

**Runs.**

| Run | Instance | Result |
|---|---|---|
| `command_center` | 2 devices (symmetric), times 0..2, three plans: none; an unsorted one with two phases at one time; one that starts late and shares a phase with it | 194,436 states, all properties hold |
| `cc_obsolete` | as above, 1 device | violated: finding 1 |

The state space is finite without a bound on steps: a device's time stamps only grow, so
there are at most as many accepted meterages as times. Three times are enough for a meterage
before, between, and after two phases, and for a phase that is visited, left and
visited again when plans are replaced. Plan value 255 makes `int8_t` wrap, with the meterage 100; 0..100 is the
domain of the parameter. Two devices are enough to see state leak from one to another, as no
operation concerns three. Plans of other shapes, more times and more devices are covered by
the proofs.

**Properties.**
`CursorFindsPhase`: for every meterage that could be accepted next, the loop started at the
cursor stops where a scan of the whole plan stops – the cursor is only an optimisation,
although plans are replaced and times skipped. `CommandReachesPlan`: a command takes the
measured value to a latest started phase, modulo 2^8, hence exactly within 0..100.
`StatsOrdered`, `BufferOfLastEntry`, `StatsOnlyGrow`: what the list of entries and the one
shared buffer owe each other. `StatsAreRuns`: the running statistics equal the statistics of
the maximal runs of the journal, computed from the whole past. `RefinesPolicy`: the class
implements `MonitoringPolicy`.

**Proved** (for all devices, time stamps, values and plans; assumptions: time stamps are
naturals, values are bytes, plans are sequences of phases, `None` is no phase): every property of this section, by
`TypeCorrect`, `CursorSound`, `CommandCorrect`, `StatsAreChronicle`, `BufferBelongsToLastEntry`,
`StatsNeverRewritten`, `StatisticsAreOfRuns` and `CommandCenterImplementsPolicy`.
`CursorFindsPhase` is not inductive: it says nothing of how the cursor relates to the
past. The strengthening `CursorInv` says that the plan is sorted, and that a cursor that has
left the first phase stands on a position of the plan whose phase had started when the last
meterage was accepted. The next accepted meterage is newer, and as the plan is sorted, every
phase that the loop skips by starting at the cursor has started; the lemma `LoopSplitsPlan` (the loop's result separates the started from the not started
phases of a sorted plan) gives the equality. `CommandCorrect` uses the same lemma;
`StatsNeverRewritten` needs `BufferOfLastEntry`, which is inductive together with
`TypeOK`. The refinement proof adds `JournalInv`: the last time stamp decides
whether a meterage is obsolete as the whole journal would.

`StatsAreRuns` needs three things more (`StatsInv`, with `BufferOfLastEntry` and `JournalInv`). The code compares a command with
the last *entry*, the policy with the last *command*: `StatsInv` adds that each command served the phase of the
entry of its run, so that `RunOpensWithEntry` holds. A meterage appended to a journal changes no run but the
last (`PastStays`, `CommandRuns`, `RunsNow`). And the sum over a run that gets one more command grows by its square
(`OneMoreSummand`): the fold of the community modules takes the elements in an arbitrary order, so that its existence
(`SumsExist`), its independence of the set it is defined on (`SumsAgree`) and of the order (`SumsAdd`) are
proved first, by induction over the size of the set in the form of `SetInduction`.

## 4. The transport

**Modules.** `Channels` defines the state of channels and the queue as one record `net`
and the operations on it (`Send`, `Disconnect`, `Delete`, `Connect`); `Transport` adds
clients, servers, registries and the task queue's `processTask`. `MCTransport` adds the
symmetry set.

**Correspondence.** A pair of channels has a link identity (their addresses), from a
pool that `LinksSuffice` shows to be large enough; the identity of a dead pair is reused,
so a pointer that outlived its channel would be seen. `Disconnect` is the whole mutual
recursion of `disconnect` and `disconnectPeer`; `Delete` is the destructor with the
nullification of safe pointers. Every call of the program on a client, a server or a
connection is an action (`ClientCall`, `ServerCall`); `ProcessTask` has an action for each
outcome of each class of task. A call that returns `false` or does nothing changes nothing
and is left to stuttering. A server's `unordered_map` of connections is walked in
any order. Identifier 0 and null pointers are `None`.

The handlers an application may set are no part of Transport (section 5). The ones in the repository
never connect, disconnect or delete from inside a task; what they send is sent by
`ClientSend` and `ConnectionSend`, which may follow a task directly.

**Runs.**

| Run | Instance | Result |
|---|---|---|
| `transport` | 2 clients, 2 servers, 2 identifiers of each kind, queue up to 3, symmetric | 52,159 states, hold |
| `transport_liveness` | 2 clients, 1 server, 1 client identifier, queue up to 5, no symmetry | 13,516 states, hold |
| `tr_connected_handler` | 2 clients, 1 server, 1 client identifier, queue up to 4 | violated: finding 2 |
| `tr_server_connected` | the same | violated: finding 3 |

The only bound is `MaxQueue`: the program makes no call that would leave the queue longer
than that (tasks may still schedule what they must). Three entries hold a request and the two
`DisconnectTask`s of a broken link; five hold two broken links, or one with messages ahead,
so that liveness is checked with other tasks in the way. Two clients that compete for one
identifier are the smallest instance in which a request is answered for somebody else, and two
servers the smallest in which one client asks twice.

**Properties.** `ConnectedInPairs`, `DisconnectScheduledOnce`, `MessagesBeforeDisconnect`
(the promise of the comment in `disconnect()`), `EveryChannelHeldOnce` (a channel exists iff
exactly one owner holds it, and that owner's handlers are called: no leak, no dangling pointer,
although the pointers are raw), `EndsAgree` (the server's lookup by identifier finds the
other end of that client's channel), `RegistriesExact`, `ClosedServerHasNoConnection`;
and, as liveness, `ClientIsFreed` and `ConnectionIsFreed`: both ends of a broken connection are
released.

**Fairness.** `FairSpec` assumes weak fairness of `ProcessTask` only: the program's driver
is `while (taskQueue.processTask());` (`tests.cpp`, `servertests.cpp`), which takes the next
task whenever there is one. Nothing is assumed of clients and servers. Liveness is
checked without symmetry and only by TLC.

**Proved** (`TransportProofs`), for any number of clients, servers, identifiers and
tasks: `TypeCorrect`, `PairsStayPaired`, `NoLeakNoDangling`, `BreakReportedOnce`,
`MessagesComeFirst`, `IdentifiersFindTheirEnds`, `RegistriesStayExact` and `ClosedStaysClosed`: every
invariant the run checks. Assumptions: `None` is no object, identifier or channel; no object is both client and
server; there are finitely many client identifiers; the addresses suffice.

None of these invariants is inductive. What the queue owes to channels is
`Good(net, told)`: tasks point only at existing channels; a closed channel has exactly one
`DisconnectTask`, behind its messages, and an open one none; both channels of a pair are open or
neither is. `told` is the set of channels whose `DisconnectTask` is being run at this
moment: between two actions it is empty, inside one the channel has been
told and must be deleted before the action ends. `Delete`,
`Send`, `Connect` and taking a task are lemmas about `Good`; `Transport`'s own invariant,
`TransportInv`, adds that a holder knows its channel and the channel its holder (`Holding`), that an object that does not
exist has no identifier, and that the two channels of a pair remember each other's
identifiers (`PeersAgree`): without the last one the identifier a server files a connection under would
say nothing of the client at the other end. `DisconnectAll` and `DeleteAll` are recursive functions over
a server's connections; what holds after all of them is proved with the
smallest number at which it would fail (`LeastNat`), as the prover cannot instantiate the
induction theorems.

## 5. Handlers

**Modules.** `Handlers` extends `Transport` with the handler objects that users set on clients,
servers and connections. `held` maps each member that owns a handler (`Slots`) to it, `called` is the
pointer a channel keeps to the message handler of its owner (`m_messageHandler`).

**Correspondence.** A setter deletes the old handler and stores the new one (`Replace`); the setters
of message handlers also give it to the channel, if there is one. Every action of Transport that deletes an object or a
channel deletes the handlers with it (`Destroy`). When a connection is established (`Establish`) the
client's channel gets the handler the client has, and the server's own handler, if there is one, gives handlers to the
new connection, as `DeviceMonitoringServer::onNewIncomingConnection` does. New handlers come at
the lowest free address, so that addresses are used again at once. A
caller that passes a handler which already has an owner, and a handler that replaces itself while it runs, are
not modelled: no caller in the repository does either.

**Run.** `handlers`: 1 client, 1 server, 1 identifier, four handlers, queue up to 3: 218,389
states, holds. There are fewer handlers than members, so that the handlers that exist are compared with
each other in every combination of members.

**Properties.** `HandlersOwnedOnce`: no handler is leaked, owned twice or deleted twice.
`ChannelsCallLastHandler`: the second pointer, in the channel, never goes stale.

**Proved** (`HandlersProofs`), for any number of clients, servers, identifiers and handlers:
`HandlersStayOwnedOnce`, `LastHandlerIsCalled`, and `HandlersImplementTransport`: handlers change nothing of what Transport
does, so `TransportInv` and all that follows from it hold here. Assumption: no channel is a client or a server
(`ObjectsAssumption`; they are all objects at different addresses). Neither property
is inductive. `HandlersInv` is both of them with `TransportInv`, of which the holders of channels
are needed most: an action names the handlers of the objects and channels that Transport deletes (`Destroy`), and one lemma for
each way in which Transport changes the channels (none deleted, some deleted, one pair made) shows that these are all
the slots that are emptied.

## 6. The monitoring system

**Modules.** `Monitoring` is the whole program: `Net` is an INSTANCE of `Transport`, `Center` one of
`CommandCenter`, with the identifiers of clients as devices. `MonitoringHistory` adds the history variable `lastOrigin`: the meterage
that gave the command centre the time stamp it keeps for an identifier. `MCMonitoring` gives values to constants.

**Correspondence.** A device is identified with the client connection it owns, a server with its
connection server. Each public method of `DeviceMock` and `DeviceMonitoringServer` is an action. The tasks of the queue
are those of Transport, where a message task includes the whole handler of the receiver:
`ServerReceives` is `onMessageReceived` with decoding, `process_meterage` and the answer,
`DeviceReceives` the one of the device with `sendNextMeterage`. Where the code ignores a text
(`ServerIgnores`) or throws out of `processTask` (`DeviceThrows`), the task is gone and nothing follows.
`DeleteMonitoringServer` takes the command centre and the encoder with it.

A text on its way is a record: a message and the name of the algorithm that encoded it. It is
understood by a receiver that has selected the same algorithm and by nobody else, which is what
`Codec` shows of strings (`ExecutorsInvert`, `OnlySameAlgorithmIsUnderstood`). Its `origin` is no
part of the string: it records which meterage of which device and list the exchange is about. `lists` and `starts` are
history variables too; they also carry the two bounds `MaxLists` and `MaxStarts`.

**Runs.**

| Run | Instance | Result |
|---|---|---|
| `monitoring` | 2 devices (symmetric), 1 server, one identifier, one algorithm, a list of two meterages, a plan that starts with the second, up to two exchanges at once, queue up to 4 | 288,663 states, hold |
| `monitoring_encoders` | 1 device, 1 server, two identifiers, two algorithms, two lists one after the other, queue up to 2 | 91,428 states, hold |

The first is the smallest instance in which answers can go astray: two devices use one identifier in
turn, and a device may start a second exchange. The queue of four is what it takes: a request to connect, a meterage behind
it and both `DisconnectTask`s of its connection. The second lets one device change everything it
can change while a meterage is under way. Two meterages are enough for a next one and an end of the list;
the plan is there for both kinds of answer, error and command. A device that was deleted is not
constructed again under the same name.

**Properties.** `AnswersReachAsker`: an answer addressed by identifier reaches the device that measured, or
nobody. `ExchangesInOrder`: meterages are answered in the order in which they were taken, each at most
once, also across lists and with several exchanges at once. `OneExchangePerStart`: an answer never starts
a second exchange. `ExchangesEndForAReason`: an exchange ends only when the list is sent, the
connection broke or the algorithms differ. `ObsoleteForAReason`: who is told `Obsolete` is held up by a time
stamp that another device left under its identifier, or that came from an earlier list of its own; never by its own
exchanges of the same list, by a device under another identifier, or by what was sent to a former server. In the runs, the first has the
other device and the former server, the second the own list. Two devices under different identifiers at once make
the whole program too large for a run: that neither is in the other's way is in the proof, and `command_center` has it for the command
centre alone. `OnlyChangedDeviceThrows`: the exception of the device needs a change of algorithm on the
device itself; the server's choice never causes it. `FiledUnderOwner`: the identifier the server's handler has kept is
still the device's. `UsesCenter`: every step of the program is a step of the command centre, or leaves it alone, or
starts a new one with a new server; so what is shown of `CommandCenter` holds in the program.

**Liveness.** `ListIsSent`: a list that is not replaced any more is sent to its end by answers alone,
as long as the device stays connected and both sides use the algorithm of the text under way. `FairSpec` assumes weak fairness of `ProcessTask` only, justified by
`while (task_queue.processTask());` in `tests.cpp:61`.

**Proved** (`MonitoringProofs`), for any number of devices, identifiers, algorithms, lists and plans: every
safety property of this section. The assumptions
are those of Transport and CommandCenter about the constants given to them
(`TransportAssumption`, `CenterAssumption`), that there is at most one server at a time
(`OneServer`: the command centre and the encoder modelled are its members), that lists hold meterages and fit in the time stamps
(`ListsAssumption`, `StampsSuffice`), that `MaxLists` and `MaxStarts` are numbers (`BoundsAssumption`), and that
`None` is none of all these (`AlgorithmsAssumption`, `NoOriginAssumption`). The module instantiates `TransportProofs` and
`CommandCenterProofs`; its first lemmas (`Same...`) say that `Net` and `Center` are those instances, so
their inductive invariants hold here too. What `AnswersReachAsker` says is not
inductive: it speaks of answers, and the meterage they answer may have been sent long before. `MonitoringInv` therefore adds
`LetterRight` for every text that waits: its message fits the side of its channel, it was
encoded with the algorithm of its meterage, and its origin is the device that holds the client side of
the connection (of a meterage, as long as that side exists). Steps that send nothing preserve it because they are `Calm`
(`TransportProofs`): no text is added, and no channel changes its owner or gets its peer
back. The steps that send are covered by `SendLetter`. `TypeCorrect`, `AnswersReachOnlyTheAsker`,
`ProgramUsesCenter` and `OnlyOwnChangeThrows` follow from `MonitoringInv` alone; the others need more:

- `AnsweredInOrder`. `ExchangesInOrder` compares letters with answers, but a letter sent next gets its place from
  `lists` and `timeStamp`. `OrderInv` says that all letters and all answers of a device come before the place from
  which it will send next (`LettersInOrder`, `AnswersInOrder`), and that a channel on the server's side
  that still waits for a letter has a client side that exists (`SendersStay`). Letters keep their places in the queue:
  `Moved` (`TransportProofs`) says so of every operation, by position.
- `MeteragesFiledUnderOwner`. `LinksAgree`, a conjunct of `OrderInv` that `TransportProofs` shows to be kept, says that
  the server side of a link has the identifier that the client at the other end has now, also after the link broke.
- `ObsoleteHasAReason`, of `HistorySpec`, whose behaviours are those of `Spec` with `lastOrigin`. `FiledInv` says that the
  last time stamp of an identifier is that of the meterage `lastOrigin` names, and that this meterage came before (in
  list and time stamp) every one its device has under way or will send next (`FiledBefore`). An obsolete meterage of the
  same device therefore belongs to a later list. That the stamp is looked up under the identifier the device has is
  `FiledUnderSender`, the argument of `FiledUnderOwner`.
- `ExchangesAreStarted`, `NoExchangeIsLost`. Both count letters. `NoMoreThan` and `NoFewerThan` compare the number of a device's
  letters before and after a step through the shift of their places; that an arriving meterage becomes one
  answer, and an answer one meterage, is `Exchanged`. For the second, `Answered` shows that a letter
  of a connected device is neither dropped nor ignored nor thrown at while all use its algorithm.

Only `ListIsSent` stays with TLC: it is liveness.

## 7. Serializer and encoders

**Modules.** `Bytes` (integers in bytes) and `Executors` (the four algorithms) are
operators on sequences of bytes. `Codec` adds `MessageSerializer` and what a sender and a
receiver do (`Send`, `Receive`). `MessageEncoder` models the class of that name, and
instantiates `EncoderRegistry`: what it promises about names, without pointers.

**Correspondence.** Functions are translated with their widths: `uint16_t` in `mirror`
(`% 2^16`), `signed char` in ROT3, `int8_t` of a command, the byte that `static_cast` keeps. A
loop over a counter is a recursive function; a loop over a string is a function on positions.
`Deserialize` answers the message passed to the callback, or `None` for `false`; an
end of the string inside an integer is the `fail()` the code asks for. `Codec` has no state of its own:
its only action, `NextByte`, spells out every string, so that TLC evaluates the properties
on each. In `MessageEncoder` an executor is its address, and an address may be used again once its
executor is deleted. `add_executor` has two outcomes (`AppendExecutor`, `ReplaceExecutor`); calls that
return `false` change nothing. A caller that passes an executor which the encoder owns
already breaks the ownership the class relies on and is not modelled.

**Runs.**

| Run | Instance | Result |
|---|---|---|
| `codec` | strings of up to five bytes chosen from sets of letters for each place, time stamps of two bytes | 39,686 states, hold |
| `encoder` | four names, two executors each, three of them built in | 113 states, hold |

A time stamp has two bytes instead of eight: the loops over bytes are the same, and a string that is cut
off inside or after the time stamp still occurs. The second place takes every byte a
command may have, the others the tags, 0, 255, the ends of the ranges of ROT3 and of the number of
digits. Two executors per name are enough to replace an executor by another and
to come back to the first address.

**Properties.** `AcceptedWasSerialized`: what the deserializer accepts starts with the
serialized form of what it read (the code allows bytes after it). `ExecutorsInvert`: each
algorithm gives back what it encoded. `OnlySameAlgorithmIsUnderstood`: a message that is
encoded with one algorithm and decoded with another is rejected, never mistaken for another
message; this is a fact about the tag bytes and the algorithms together that no class
states. `OwnedOnce`: executors in
the list are exactly those that exist, each is there once, and the selected one is among them.
`RefinesRegistry`: registering never changes the name that is selected.

**Proved** (`CodecProofs`), for strings of any length and time stamps of any number of bytes: `AllExecutorsInvert`,
`AcceptedIsSerialized` and `StrangersUnderstandNothing`. The loops are recursive functions; `LoopExists`
shows once that such a function exists, by induction over a set of numbers (`SetInduction`, from the well-founded order on
them: the prover cannot instantiate the rule that takes a predicate). From that follow that
`ToBigEndian` inverts `FromBigEndian` (`BigEndianInverts`) and that `mirror` is the number with its three digits reversed
(`MirroredDigits`). A stranger's text is refused because of its first byte. It is 99, 101 or 109 before it is encoded, and
each algorithm takes it to bytes of its own; decoding these with another one yields one of the three only when
Multiply41 decodes a command in clear, and then no byte follows the tag. Mirror given a number of digits that no byte has
goes on multiplying by ten, and after thirteen rounds the low eight of its sixteen bits are zero
(`MirroredTooFar`). The only invariant is that a text is one of bytes.

**Proved** (`MessageEncoderProofs`):
`ExecutorsOwnedOnce` and `EncoderImplementsRegistry`, for every set of names, executors and
built-in list in which names are different. The inductive invariant `EncoderInv` adds
`NamesUnique`: without it the executor found first need not be the only one of its name, and replacing it
would let another one of the same name appear.

## 8. Safe pointers

**Modules.** `SafePointer` models `servermock/object.*`, and instantiates `WeakPointers`, the promise of
its comments: a pointer answers its object until that is deleted, and null from then on.
`MCSafePointer` gives the instance, `SafePointerProofs` the proofs.

**Correspondence.** Objects, pointers and blocks (`SharedData`) are addresses that are used again.
`memory` is the set of allocated blocks with their contents; `sharedData` is
`m_sharedData` of both kinds of holder. `Join` and `Detach` are the two methods; the destructor of an
object writes null into the block before it detaches. `Assign` is the whole of `operator=`: the
copy joins, the blocks are swapped, the copy detaches the old one. An assignment from `Object*`, as in
`connectionchannel.cpp:68`, is `NewPointer` for the temporary, `Assign`, `DeletePointer`. The copy
constructor reads through the object, so copying a pointer that answers null dereferences
null; nobody in the repository does that, and the guard of `CopyPointer` and `Assign`
excludes it. The counter is a natural number: no program holds 2^32 pointers to one object.

**Run.** `safe_pointer`: two addresses of objects, three pointers, five blocks (at most one for each
holder), blocks symmetric: 332 states, holds. Two objects are enough to move a pointer from one to the
other and to create one where another was; three pointers to share a block between several that are
deleted in any order.

**Properties.** `CountsExact`: the count of a block is the number of its holders and positive, so
no block is freed early, twice or never. `RefinesWeakPointers`: the promise.

**Proved**, for every finite set of objects and pointers: `BlocksCounted` and
`PointersAreWeak`. `CountsExact` is not inductive, as it does not say that what does not exist refers
to no block, nor that the block of an object leads back to it (which the copy
constructor relies on); `BlocksKnowObjects` adds both. Every step moves one holder from one block to another:
the lemma `Repointed` says what that does to the number of holders of each block, `Moved` that the
counters follow.

## 9. Findings

1. `README.md:63` calls a meterage obsolete if one with a *greater* time stamp was
   accepted; `command_center.cpp:33` uses `>=`, and so does the test
   `commandCenterObsoleteTest`. The README is behind the code.
2. `abstractclientconnection.h:29`: the connected handler reports that a connection is
   established. `ClientConnectionMock::setChannel` calls it also for a channel whose server
   side was deleted a moment before, because the server still had a connection under that
   identifier. In the trace a client asks twice and is deleted while its second request waits ahead of
   the server side's `DisconnectTask`; another client binds the identifier, and the request finds that one.
3. `abstractconnection.h:26`: `connected()` says that the connection is active.
   `ConnectionMock::connected` stays true after the connection broke until the
   `DisconnectTask` has run; the client's `connected` does not.

## 10. Not modelled

- **Abstract interfaces, handlers' base classes**: no state and no behaviour. What their comments promise is
  stated as properties.
- **Tests, entry point, build files**: they drive the program; the models explore their calls in any order.
- **Memory of task objects**: `processTask` does not delete a task whose handler throws, and the
  queue's destructor deletes the tasks that are left. Tasks hold values and safe
  pointers only, so nothing else depends on it.
- **Handlers that change connections or themselves from inside a call**, and **copies of a safe pointer
  that answers null** (they dereference null): no caller in the repository makes either.
- **Printing and comparison of messages**, floating-point rounding of `sqrt`: no property is about them.

## 11. How to run

    tlc -workers 2 -config MCCommandCenter.cfg MCCommandCenter
    tlapm CommandCenterProofs.tla

Each run in `PROJECT.json` names its module and configuration. Mutants are operators marked
"Mutant:" next to the definition they would replace; each shows that a property can fail.
