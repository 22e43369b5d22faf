---------------------------- MODULE TransportProofs ----------------------------
(***************************************************************************)
(* Theorems about Transport for every number of clients, servers,          *)
(* identifiers and tasks.                                                  *)
(*                                                                         *)
(* The first part is about Channels alone: what each operation does to a   *)
(* good net, one whose connections are closed on both sides together and   *)
(* whose broken channels are announced once, behind their messages.  The   *)
(* second part is about the clients and servers that hold the channels.    *)
(***************************************************************************)
EXTENDS Transport, SequenceTheorems, WellFoundedInduction, FiniteSetTheorems,
        TLAPS

USE NullAssumption

-----------------------------------------------------------------------------
(* No task refers to a channel that is gone. *)
PointersAlive(n) ==
    \A i \in DOMAIN n.queue :
        n.queue[i].task # "connect" => n.queue[i].channel \in n.alive \cup {None}

(* One DisconnectTask for a broken channel, none for a connected one.  The *)
(* channels in "told" are those whose task has been taken from the queue.  *)
Announced(n, told) ==
    \A ch \in n.alive \ (n.connected \cup told) :
        \E i \in DOMAIN n.queue : n.queue[i] = DisconnectTask(ch)

NotTooEarly(n) ==
    \A ch \in n.connected : \A i \in DOMAIN n.queue : n.queue[i] # DisconnectTask(ch)

AnnouncedOnce(n) ==
    \A ch \in n.alive : \A i, j \in DOMAIN n.queue :
        n.queue[i] = DisconnectTask(ch) /\ n.queue[j] = DisconnectTask(ch) => i = j

IsMessageFor(task, ch) == task.task = "message" /\ task.channel = ch

(* No message for either side of a link behind the DisconnectTask of one. *)
IsMessageOfLink(task, ch) == IsMessageFor(task, ch) \/ IsMessageFor(task, Peer(ch))

AnnouncedLast(n) ==
    \A ch \in n.alive : \A i, j \in DOMAIN n.queue :
        n.queue[i] = DisconnectTask(ch) /\ IsMessageOfLink(n.queue[j], ch) => j < i

(* These hold between the closing of one side and that of the other. *)
Orderly(n, told) ==
    /\ n \in Nets
    /\ n.connected \subseteq n.alive
    /\ PointersAlive(n)
    /\ Announced(n, told)
    /\ NotTooEarly(n)
    /\ AnnouncedOnce(n)
    /\ AnnouncedLast(n)

Paired(n) == \A ch \in n.connected : Peer(ch) \in n.connected

Good(n, told) == Orderly(n, told) /\ Paired(n)
-----------------------------------------------------------------------------
LEMMA PeerProperties ==
  ASSUME NEW ch \in Channels
  PROVE  /\ Peer(ch) \in Channels
         /\ Peer(Peer(ch)) = ch
         /\ Peer(ch) # ch
         /\ ch[2] = "client" <=> Peer(ch)[2] = "server"
         /\ ch[2] \in {"client", "server"}
         /\ Peer(ch)[1] = ch[1]
  BY DEF Channels, Peer

LEMMA TaskTypes ==
  /\ \A ch \in Channels \cup {None} : DisconnectTask(ch) \in Tasks
  /\ \A ch \in Channels \cup {None}, text \in Texts : MessageTask(ch, text) \in Tasks
  /\ \A cid \in ClientIds, sid \in ServerIds : ConnectTask(cid, sid) \in Tasks
  BY DEF Tasks, DisconnectTask, MessageTask, ConnectTask

LEMMA TaskFields ==
  /\ \A ch : DisconnectTask(ch).task = "disconnect" /\ DisconnectTask(ch).channel = ch
  /\ \A ch, text : MessageTask(ch, text).task = "message" /\ MessageTask(ch, text).channel = ch
  /\ \A cid, sid : ConnectTask(cid, sid).task = "connect"
  BY DEF DisconnectTask, MessageTask, ConnectTask

LEMMA DisconnectTasksDiffer ==
  ASSUME NEW ch, NEW x, DisconnectTask(ch) = DisconnectTask(x)
  PROVE  ch = x
  BY TaskFields

(* A task is appended to the queue. *)
LEMMA ScheduleProperties ==
  ASSUME NEW n \in Nets, NEW task \in Tasks
  PROVE  /\ Schedule(n, task) \in Nets
         /\ Schedule(n, task).alive = n.alive
         /\ Schedule(n, task).connected = n.connected
         /\ Len(n.queue) \in Nat
         /\ DOMAIN n.queue = 1 .. Len(n.queue)
         /\ DOMAIN Schedule(n, task).queue = 1 .. Len(n.queue) + 1
         /\ \A i \in 1 .. Len(n.queue) : Schedule(n, task).queue[i] = n.queue[i]
         /\ Schedule(n, task).queue[Len(n.queue) + 1] = task
<1> DEFINE q == n.queue
           m == Schedule(n, task)
<1>1. q \in Seq(Tasks)
  BY DEF Nets
<1>2. Len(q) \in Nat /\ DOMAIN q = 1 .. Len(q)
  BY <1>1, LenProperties
<1>3. /\ Append(q, task) \in Seq(Tasks)
      /\ Len(Append(q, task)) = Len(q) + 1
      /\ \A i \in 1 .. Len(q) : Append(q, task)[i] = q[i]
      /\ Append(q, task)[Len(q) + 1] = task
  BY <1>1, AppendProperties
<1>4. DOMAIN Append(q, task) = 1 .. Len(q) + 1
  BY <1>3, LenProperties
<1>5. /\ m.queue = Append(q, task)
      /\ m.alive = n.alive /\ m.connected = n.connected
  BY DEF Schedule, Nets
<1>6. m \in Nets
  BY <1>3 DEF Schedule, Nets
<1> HIDE DEF q, m
<1> QED BY <1>2, <1>3, <1>4, <1>5, <1>6 DEF q, m

LEMMA NewNet ==
  /\ EmptyNet \in Nets
  /\ Good(EmptyNet, {})
  BY DEF EmptyNet, Nets, Good, Orderly, Paired, PointersAlive,
       Announced, NotTooEarly, AnnouncedOnce, AnnouncedLast

(* The closing of one side. *)
LEMMA CloseOrderly ==
  ASSUME NEW told, NEW n, Orderly(n, told), NEW ch \in n.connected
  PROVE  /\ Orderly(Close(n, ch), told)
         /\ Close(n, ch).alive = n.alive
         /\ Close(n, ch).connected = n.connected \ {ch}
<1> DEFINE open == [n EXCEPT !.connected = @ \ {ch}]
           task == DisconnectTask(ch)
           m == Close(n, ch)
           k == Len(n.queue)
<1>1. n \in Nets /\ n.connected \subseteq n.alive /\ ch \in Channels /\ ch \in n.alive
  BY DEF Orderly, Nets
<1>2. /\ open \in Nets
      /\ open.alive = n.alive /\ open.connected = n.connected \ {ch}
      /\ open.queue = n.queue
  BY <1>1 DEF Nets
<1>3. task \in Tasks
  BY <1>1, TaskTypes
<1>4. m = Schedule(open, task)
  BY DEF Close
<1>5. /\ m \in Nets
      /\ m.alive = n.alive /\ m.connected = n.connected \ {ch}
      /\ k \in Nat
      /\ DOMAIN n.queue = 1 .. k
      /\ DOMAIN m.queue = 1 .. k + 1
      /\ \A i \in 1 .. k : m.queue[i] = n.queue[i]
      /\ m.queue[k + 1] = task
  <2> HIDE DEF open, task
  <2>1. /\ m \in Nets
        /\ m.alive = open.alive /\ m.connected = open.connected
        /\ Len(open.queue) \in Nat
        /\ DOMAIN open.queue = 1 .. Len(open.queue)
        /\ DOMAIN m.queue = 1 .. Len(open.queue) + 1
        /\ \A i \in 1 .. Len(open.queue) : m.queue[i] = open.queue[i]
        /\ m.queue[Len(open.queue) + 1] = task
    <3> HIDE DEF m, open, task
    <3>1. open \in Nets /\ task \in Tasks
      BY <1>2, <1>3
    <3> QED BY <1>4, <3>1, ScheduleProperties
  <2> HIDE DEF m
  <2> QED BY <2>1, <1>2
<1> HIDE DEF open, m, k
<1>6. PointersAlive(m)
  <2> SUFFICES ASSUME NEW i \in 1 .. k + 1, m.queue[i].task # "connect"
               PROVE  m.queue[i].channel \in m.alive \cup {None}
    BY <1>5 DEF PointersAlive
  <2>1. CASE i \in 1 .. k
    BY <2>1, <1>5 DEF Orderly, PointersAlive
  <2>2. CASE i = k + 1
    BY <2>2, <1>1, <1>5, TaskFields
  <2> QED BY <2>1, <2>2, <1>5
<1>7. Announced(m, told)
  <2> SUFFICES ASSUME NEW x \in m.alive \ (m.connected \cup told)
               PROVE  \E i \in DOMAIN m.queue : m.queue[i] = DisconnectTask(x)
    BY DEF Announced
  <2>1. CASE x = ch
    BY <2>1, <1>5
  <2>2. CASE x # ch
    <3>1. PICK i \in 1 .. k : n.queue[i] = DisconnectTask(x)
      BY <2>2, <1>5 DEF Orderly, Announced
    <3> QED BY <3>1, <1>5
  <2> QED BY <2>1, <2>2
<1>8. NotTooEarly(m)
  <2> SUFFICES ASSUME NEW x \in m.connected, NEW i \in 1 .. k + 1
               PROVE  m.queue[i] # DisconnectTask(x)
    BY <1>5 DEF NotTooEarly
  <2>1. CASE i \in 1 .. k
    BY <2>1, <1>5 DEF Orderly, NotTooEarly
  <2>2. CASE i = k + 1
    BY <2>2, <1>5, DisconnectTasksDiffer
  <2> QED BY <2>1, <2>2, <1>5
<1>9. AnnouncedOnce(m)
  <2> SUFFICES ASSUME NEW x \in m.alive, NEW i \in 1 .. k + 1, NEW j \in 1 .. k + 1,
                      m.queue[i] = DisconnectTask(x), m.queue[j] = DisconnectTask(x)
               PROVE  i = j
    BY <1>5 DEF AnnouncedOnce
  <2>1. CASE x = ch
    <3>1. \A l \in 1 .. k : m.queue[l] # DisconnectTask(x)
      BY <2>1, <1>5 DEF Orderly, NotTooEarly
    <3> QED BY <3>1, <1>5
  <2>2. CASE x # ch
    <3>1. m.queue[k + 1] # DisconnectTask(x)
      BY <2>2, <1>5, DisconnectTasksDiffer
    <3>2. i \in 1 .. k /\ j \in 1 .. k
      BY <3>1, <1>5
    <3> QED BY <3>2, <1>5 DEF Orderly, AnnouncedOnce
  <2> QED BY <2>1, <2>2
<1>10. AnnouncedLast(m)
  <2> SUFFICES ASSUME NEW x \in m.alive, NEW i \in DOMAIN m.queue, NEW j \in DOMAIN m.queue,
                      m.queue[i] = DisconnectTask(x), IsMessageOfLink(m.queue[j], x)
               PROVE  j < i
    BY DEF AnnouncedLast
  <2>1. j \in 1 .. k
    BY <1>5, TaskFields DEF IsMessageOfLink, IsMessageFor
  <2>2. CASE i = k + 1
    BY <2>1, <2>2, <1>5
  <2>3. CASE i \in 1 .. k
    BY <2>1, <2>3, <1>5 DEF Orderly, AnnouncedLast
  <2> QED BY <2>2, <2>3, <1>5
<1> QED BY <1>1, <1>5, <1>6, <1>7, <1>8, <1>9, <1>10 DEF Orderly, m

(* Both sides are closed together. *)
LEMMA DisconnectGood ==
  ASSUME NEW told, NEW n, Good(n, told), NEW ch \in Channels
  PROVE  /\ Good(Disconnect(n, ch), told)
         /\ Disconnect(n, ch).alive = n.alive
         /\ Disconnect(n, ch).connected = n.connected \ {ch, Peer(ch)}
<1>1. CASE ch \notin n.connected
  <2>1. Disconnect(n, ch) = n
    BY <1>1 DEF Disconnect
  <2>2. Peer(ch) \notin n.connected
    BY <1>1, PeerProperties DEF Good, Paired
  <2> QED BY <1>1, <2>1, <2>2
<1>2. CASE ch \in n.connected
  <2> DEFINE closed == Close(n, ch)
             m == Close(closed, Peer(ch))
  <2>1. Peer(ch) \in n.connected /\ Peer(ch) # ch
    BY <1>2, PeerProperties DEF Good, Paired
  <2>2. Disconnect(n, ch) = m
    BY <1>2, <2>1 DEF Disconnect
  <2>3. Orderly(n, told)
    BY DEF Good
  <2>4. /\ Orderly(closed, told)
        /\ closed.alive = n.alive
        /\ closed.connected = n.connected \ {ch}
    BY <1>2, <2>3, CloseOrderly
  <2> HIDE DEF closed
  <2>5. /\ Orderly(m, told)
        /\ m.alive = n.alive
        /\ m.connected = n.connected \ {ch, Peer(ch)}
    BY <2>1, <2>4, CloseOrderly
  <2> HIDE DEF m
  <2>6. Paired(m)
    <3> SUFFICES ASSUME NEW x \in m.connected
                 PROVE  Peer(x) \in m.connected
      BY DEF Paired
    <3>1. x \in Channels /\ x \in n.connected
      BY <2>5, <2>3 DEF Orderly, Nets
    <3>2. Peer(x) \in n.connected
      BY <3>1 DEF Good, Paired
    <3>3. Peer(x) # ch /\ Peer(x) # Peer(ch)
      BY <2>5, <3>1, PeerProperties
    <3> QED BY <2>5, <3>2, <3>3
  <2> QED BY <2>2, <2>5, <2>6 DEF Good
<1> QED BY <1>1, <1>2

LEMMA ForgetProperties ==
  ASSUME NEW task \in Tasks, NEW ch \in Channels
  PROVE  /\ Forget(task, ch) \in Tasks
         /\ Forget(task, ch).task = task.task
         /\ task.task # "connect" =>
               Forget(task, ch).channel = IF task.channel = ch THEN None ELSE task.channel
         /\ \A x \in Channels \ {ch} :
               /\ Forget(task, ch) = DisconnectTask(x) <=> task = DisconnectTask(x)
               /\ IsMessageFor(Forget(task, ch), x) <=> IsMessageFor(task, x)
  BY DEF Forget, Tasks, DisconnectTask, IsMessageFor

(* The pointers of the tasks to a channel that is gone become null. *)
LEMMA DeleteGood ==
  ASSUME NEW told, NEW n, Good(n, told), NEW ch \in Channels,
         NEW left, left = told \ {ch}
  PROVE  /\ Good(Delete(n, ch), left)
         /\ Delete(n, ch).alive = n.alive \ {ch}
         /\ Delete(n, ch).connected = n.connected \ {ch, Peer(ch)}
<1> DEFINE d == Disconnect(n, Peer(ch))
           m == Delete(n, ch)
<1>1. /\ Good(d, told)
      /\ d.alive = n.alive
      /\ d.connected = n.connected \ {ch, Peer(ch)}
  BY PeerProperties, DisconnectGood
<1>2. m = [alive |-> d.alive \ {ch}, connected |-> d.connected \ {ch},
           queue |-> [i \in DOMAIN d.queue |-> Forget(d.queue[i], ch)]]
  BY DEF Delete
<1> HIDE DEF d, m
<1>3. d \in Nets /\ d.queue \in Seq(Tasks) /\ d.connected \subseteq d.alive
  BY <1>1 DEF Good, Orderly, Nets
<1> DEFINE k == Len(d.queue)
<1>4. k \in Nat /\ DOMAIN d.queue = 1 .. k /\ \A i \in 1 .. k : d.queue[i] \in Tasks
  BY <1>3, LenProperties
<1> HIDE DEF k
<1>5. /\ m.alive = n.alive \ {ch}
      /\ m.connected = n.connected \ {ch, Peer(ch)}
      /\ DOMAIN m.queue = 1 .. k
      /\ \A i \in 1 .. k : m.queue[i] = Forget(d.queue[i], ch)
  BY <1>1, <1>2, <1>4
<1>6. \A i \in 1 .. k :
        /\ m.queue[i] \in Tasks
        /\ m.queue[i].task = d.queue[i].task
        /\ m.queue[i].task # "connect" =>
              m.queue[i].channel =
                 IF d.queue[i].channel = ch THEN None ELSE d.queue[i].channel
        /\ \A x \in Channels \ {ch} :
              /\ m.queue[i] = DisconnectTask(x) <=> d.queue[i] = DisconnectTask(x)
              /\ IsMessageFor(m.queue[i], x) <=> IsMessageFor(d.queue[i], x)
  BY <1>4, <1>5, ForgetProperties
<1>7. m \in Nets
  <2>1. m.queue \in Seq(Tasks)
    <3>1. m.queue = [i \in 1 .. k |-> m.queue[i]]
      BY <1>2, <1>4, <1>5
    <3>2. [i \in 1 .. k |-> m.queue[i]] \in Seq(Tasks)
      BY <1>4, <1>6
    <3> QED BY <3>1, <3>2
  <2>2. m.alive \subseteq Channels /\ m.connected \subseteq Channels
    BY <1>1, <1>3, <1>5 DEF Nets
  <2>3. m = [alive |-> m.alive, connected |-> m.connected, queue |-> m.queue]
    BY <1>2
  <2> QED BY <2>1, <2>2, <2>3 DEF Nets
<1>8. m.connected \subseteq m.alive
  BY <1>1, <1>3, <1>5
<1>9. \A x \in m.alive : x \in Channels \ {ch} /\ x \in d.alive
  BY <1>1, <1>3, <1>5 DEF Nets
<1>10. PointersAlive(m)
  BY <1>1, <1>4, <1>5, <1>6 DEF Good, Orderly, PointersAlive
<1>11. Announced(m, left)
  <2> SUFFICES ASSUME NEW x \in m.alive \ (m.connected \cup left)
               PROVE  \E i \in 1 .. k : m.queue[i] = DisconnectTask(x)
    BY <1>5 DEF Announced
  <2>1. x \in Channels \ {ch} /\ x \in d.alive \ (d.connected \cup told)
    BY <1>1, <1>5, <1>9
  <2>2. PICK i \in 1 .. k : d.queue[i] = DisconnectTask(x)
    BY <2>1, <1>1, <1>4 DEF Good, Orderly, Announced
  <2> QED BY <2>1, <2>2, <1>6
<1>12. NotTooEarly(m)
  <2> SUFFICES ASSUME NEW x \in m.connected, NEW i \in 1 .. k
               PROVE  m.queue[i] # DisconnectTask(x)
    BY <1>5 DEF NotTooEarly
  <2>1. x \in Channels \ {ch} /\ x \in d.connected
    BY <1>1, <1>5, <1>8, <1>9
  <2> QED BY <2>1, <1>1, <1>4, <1>6 DEF Good, Orderly, NotTooEarly
<1>13. AnnouncedOnce(m)
  BY <1>1, <1>4, <1>5, <1>6, <1>9 DEF Good, Orderly, AnnouncedOnce
<1>14. AnnouncedLast(m)
  <2>1. \A x \in m.alive : \A i \in 1 .. k :
           IsMessageOfLink(m.queue[i], x) => IsMessageOfLink(d.queue[i], x)
    <3> SUFFICES ASSUME NEW x \in m.alive, NEW i \in 1 .. k, NEW y \in {x, Peer(x)},
                        IsMessageFor(m.queue[i], y)
                 PROVE  IsMessageFor(d.queue[i], y)
      BY DEF IsMessageOfLink
    <3>1. y \in Channels
      BY <1>9, PeerProperties
    <3>2. y # ch
      BY <1>6, <3>1, NullAssumption DEF IsMessageFor
    <3> QED BY <1>6, <3>1, <3>2
  <2> QED BY <1>1, <1>4, <1>5, <1>6, <1>9, <2>1 DEF Good, Orderly, AnnouncedLast
<1>15. Paired(m)
  <2> SUFFICES ASSUME NEW x \in m.connected
               PROVE  Peer(x) \in m.connected
    BY DEF Paired
  <2>1. x \in Channels /\ x \in d.connected
    BY <1>1, <1>5, <1>8, <1>9
  <2>2. Peer(x) \in d.connected
    BY <2>1, <1>1 DEF Good, Paired
  <2> QED BY <2>2, <1>1, <1>5
<1> QED
  BY <1>5, <1>7, <1>8, <1>10, <1>11, <1>12, <1>13, <1>14, <1>15 DEF Good, Orderly, m

(* A task that is neither a disconnection nor for a broken channel. *)
LEMMA ScheduleGood ==
  ASSUME NEW told, NEW n, Good(n, told), NEW task \in Tasks,
         task.task # "disconnect",
         task.task = "message" => task.channel \in n.connected
  PROVE  /\ Good(Schedule(n, task), told)
         /\ Schedule(n, task).alive = n.alive
         /\ Schedule(n, task).connected = n.connected
<1> DEFINE m == Schedule(n, task)
           k == Len(n.queue)
<1>1. n \in Nets /\ n.connected \subseteq n.alive
  BY DEF Good, Orderly
<1>2. /\ m \in Nets
      /\ m.alive = n.alive /\ m.connected = n.connected
      /\ k \in Nat
      /\ DOMAIN n.queue = 1 .. k
      /\ DOMAIN m.queue = 1 .. k + 1
      /\ \A i \in 1 .. k : m.queue[i] = n.queue[i]
      /\ m.queue[k + 1] = task
  <2> HIDE DEF m
  <2> QED BY <1>1, ScheduleProperties DEF m
<1> HIDE DEF m, k
<1>3. \A ch : m.queue[k + 1] # DisconnectTask(ch)
  BY <1>2, TaskFields
<1>4. PointersAlive(m)
  <2> SUFFICES ASSUME NEW i \in 1 .. k + 1, m.queue[i].task # "connect"
               PROVE  m.queue[i].channel \in m.alive \cup {None}
    BY <1>2 DEF PointersAlive
  <2>1. CASE i \in 1 .. k
    BY <2>1, <1>2 DEF Good, Orderly, PointersAlive
  <2>2. CASE i = k + 1
    <3>1. task.task = "message"
      BY <2>2, <1>2 DEF Tasks
    <3> QED BY <3>1, <2>2, <1>1, <1>2
  <2> QED BY <2>1, <2>2, <1>2
<1>5. Announced(m, told)
  <2> SUFFICES ASSUME NEW x \in n.alive \ (n.connected \cup told)
               PROVE  \E i \in 1 .. k + 1 : m.queue[i] = DisconnectTask(x)
    BY <1>2 DEF Announced
  <2>1. PICK i \in 1 .. k : n.queue[i] = DisconnectTask(x)
    BY <1>2 DEF Good, Orderly, Announced
  <2> QED BY <2>1, <1>2
<1>6. NotTooEarly(m)
  <2> SUFFICES ASSUME NEW x \in n.connected, NEW i \in 1 .. k + 1
               PROVE  m.queue[i] # DisconnectTask(x)
    BY <1>2 DEF NotTooEarly
  <2>1. CASE i \in 1 .. k
    BY <2>1, <1>2 DEF Good, Orderly, NotTooEarly
  <2> QED BY <2>1, <1>2, <1>3
<1>7. AnnouncedOnce(m)
  <2> SUFFICES ASSUME NEW x \in n.alive, NEW i \in 1 .. k + 1, NEW j \in 1 .. k + 1,
                      m.queue[i] = DisconnectTask(x), m.queue[j] = DisconnectTask(x)
               PROVE  i = j
    BY <1>2 DEF AnnouncedOnce
  <2>1. i \in 1 .. k /\ j \in 1 .. k
    BY <1>2, <1>3
  <2> QED BY <2>1, <1>2 DEF Good, Orderly, AnnouncedOnce
<1>8. AnnouncedLast(m)
  <2> SUFFICES ASSUME NEW x \in n.alive, NEW i \in 1 .. k + 1, NEW j \in 1 .. k + 1,
                      m.queue[i] = DisconnectTask(x), IsMessageOfLink(m.queue[j], x)
               PROVE  j < i
    BY <1>2 DEF AnnouncedLast
  <2>1. i \in 1 .. k
    BY <1>2, <1>3
  <2>2. CASE j \in 1 .. k
    BY <2>1, <2>2, <1>2 DEF Good, Orderly, AnnouncedLast
  <2>3. CASE j = k + 1
    <3>1. x \in n.connected
      <4>1. x \in n.connected \/ Peer(x) \in n.connected
        BY <2>3, <1>2 DEF IsMessageOfLink, IsMessageFor
      <4>2. x \in Channels
        BY <1>1 DEF Nets
      <4> QED BY <4>1, <4>2, PeerProperties DEF Good, Paired
    <3> QED BY <2>1, <3>1, <1>2 DEF Good, Orderly, NotTooEarly
  <2> QED BY <2>2, <2>3, <1>2
<1>9. Paired(m)
  BY <1>2 DEF Good, Paired
<1> QED
  BY <1>1, <1>2, <1>4, <1>5, <1>6, <1>7, <1>8, <1>9 DEF Good, Orderly, m

LEMMA SendGood ==
  ASSUME NEW told, NEW n, Good(n, told), NEW ch \in Channels, NEW text \in Texts
  PROVE  /\ Good(Send(n, ch, text), told)
         /\ Send(n, ch, text).alive = n.alive
         /\ Send(n, ch, text).connected = n.connected
<1>1. CASE ch \in n.connected /\ Peer(ch) \in n.connected
  <2> DEFINE task == MessageTask(Peer(ch), text)
  <2>1. Peer(ch) \in Channels
    BY PeerProperties
  <2>2. task \in Tasks /\ task.task = "message" /\ task.channel = Peer(ch)
    BY <2>1, TaskTypes, TaskFields
  <2>3. Send(n, ch, text) = Schedule(n, task)
    BY <1>1 DEF Send
  <2> HIDE DEF task
  <2> QED BY <1>1, <2>2, <2>3, ScheduleGood
<1>2. CASE ~(ch \in n.connected /\ Peer(ch) \in n.connected)
  BY <1>2 DEF Send
<1> QED BY <1>1, <1>2

(* The next task is taken; a disconnection leaves its channel told. *)
LEMMA PopGood ==
  ASSUME NEW n, Good(n, {}), n.queue # <<>>, NEW m,
         m = [n EXCEPT !.queue = Tail(@)], NEW told,
         told = IF n.queue[1].task = "disconnect" THEN {n.queue[1].channel} ELSE {}
  PROVE  /\ Good(m, told)
         /\ m.alive = n.alive
         /\ m.connected = n.connected
         /\ n.queue[1] \in Tasks
         /\ n.queue[1].task # "connect" => n.queue[1].channel \in n.alive \cup {None}
         /\ \A ch \in n.connected : n.queue[1] # DisconnectTask(ch)
<1> DEFINE k == Len(n.queue)
<1>1. n \in Nets /\ n.connected \subseteq n.alive /\ n.queue \in Seq(Tasks)
  BY DEF Good, Orderly, Nets
<1>2. k \in Nat /\ k # 0 /\ DOMAIN n.queue = 1 .. k
  BY <1>1, LenProperties, EmptySeq
<1>3. /\ m \in Nets
      /\ m.alive = n.alive /\ m.connected = n.connected
      /\ m.queue = Tail(n.queue)
  <2>1. Tail(n.queue) \in Seq(Tasks)
    BY <1>1, HeadTailProperties
  <2> QED BY <2>1, <1>1 DEF Nets
<1>4. /\ DOMAIN m.queue = 1 .. k - 1
      /\ \A i \in 1 .. k - 1 : m.queue[i] = n.queue[i + 1] /\ i + 1 \in 1 .. k
  <2>1. /\ Tail(n.queue) \in Seq(Tasks)
        /\ Len(Tail(n.queue)) = k - 1
        /\ \A i \in 1 .. Len(Tail(n.queue)) : Tail(n.queue)[i] = n.queue[i + 1]
    BY <1>1, HeadTailProperties
  <2>2. DOMAIN Tail(n.queue) = 1 .. k - 1
    BY <2>1, LenProperties
  <2> QED BY <2>1, <2>2, <1>2, <1>3
<1>5. n.queue[1] \in Tasks
  BY <1>1, <1>2
<1> HIDE DEF k
<1>6. n.queue[1].task # "connect" => n.queue[1].channel \in n.alive \cup {None}
  BY <1>2 DEF Good, Orderly, PointersAlive
<1>7. \A ch \in n.connected : n.queue[1] # DisconnectTask(ch)
  BY <1>2 DEF Good, Orderly, NotTooEarly
<1>8. PointersAlive(m)
  BY <1>2, <1>3, <1>4 DEF Good, Orderly, PointersAlive
<1>9. Announced(m, told)
  <2> SUFFICES ASSUME NEW x \in n.alive \ (n.connected \cup told)
               PROVE  \E i \in 1 .. k - 1 : m.queue[i] = DisconnectTask(x)
    BY <1>3, <1>4 DEF Announced
  <2>1. PICK i \in 1 .. k : n.queue[i] = DisconnectTask(x)
    BY <1>2 DEF Good, Orderly, Announced
  <2>2. i # 1
    BY <2>1, TaskFields
  <2>3. i - 1 \in 1 .. k - 1 /\ (i - 1) + 1 = i
    BY <2>1, <2>2, <1>2
  <2> QED BY <2>1, <2>3, <1>4
<1>10. NotTooEarly(m)
  BY <1>2, <1>3, <1>4 DEF Good, Orderly, NotTooEarly
<1>11. AnnouncedOnce(m)
  <2> SUFFICES ASSUME NEW x \in n.alive, NEW i \in 1 .. k - 1, NEW j \in 1 .. k - 1,
                      m.queue[i] = DisconnectTask(x), m.queue[j] = DisconnectTask(x)
               PROVE  i = j
    <3>1. m.alive = n.alive /\ DOMAIN m.queue = 1 .. k - 1
      BY <1>3, <1>4
    <3> QED BY <3>1 DEF AnnouncedOnce
  <2>1. i + 1 = j + 1
    <3>1. /\ i + 1 \in DOMAIN n.queue /\ n.queue[i + 1] = DisconnectTask(x)
          /\ j + 1 \in DOMAIN n.queue /\ n.queue[j + 1] = DisconnectTask(x)
      BY <1>2, <1>4
    <3>2. AnnouncedOnce(n)
      BY <1>2 DEF Good, Orderly
    <3> QED BY <3>1, <3>2 DEF AnnouncedOnce
  <2> QED BY <2>1, <1>2
<1>12. AnnouncedLast(m)
  <2> SUFFICES ASSUME NEW x \in n.alive, NEW i \in 1 .. k - 1, NEW j \in 1 .. k - 1,
                      m.queue[i] = DisconnectTask(x), IsMessageOfLink(m.queue[j], x)
               PROVE  j < i
    BY <1>3, <1>4 DEF AnnouncedLast
  <2>1. j + 1 < i + 1
    BY <1>2, <1>4 DEF Good, Orderly, AnnouncedLast
  <2> QED BY <2>1, <1>2
<1>13. Paired(m)
  BY <1>3 DEF Good, Paired
<1> QED
  BY <1>1, <1>3, <1>5, <1>6, <1>7, <1>8, <1>9, <1>10, <1>11, <1>12, <1>13
     DEF Good, Orderly

-----------------------------------------------------------------------------
(* The messages on their way to channels that exist. *)
IsWaiting(n, i) == n.queue[i].task = "message" /\ n.queue[i].channel # None

Waiting(n) == {n.queue[i] : i \in {j \in DOMAIN n.queue : IsWaiting(n, j)}}

(* No operation makes up a message, changes its text or its place in the     *)
(* queue, or loses it: compared to n, the first k tasks are gone in m, and   *)
(* the messages for channels that are gone.                                  *)
Moved(m, n, k) ==
    /\ \A i \in DOMAIN m.queue : IsWaiting(m, i) =>
          i + k \in DOMAIN n.queue /\ m.queue[i] = n.queue[i + k]
    /\ \A i \in DOMAIN n.queue :
          IsWaiting(n, i) /\ i > k /\ n.queue[i].channel \in m.alive =>
              i - k \in DOMAIN m.queue /\ m.queue[i - k] = n.queue[i]

LEMMA Places ==
  ASSUME NEW n \in Nets
  PROVE  DOMAIN n.queue \subseteq Nat \ {0}
<1>1. n.queue \in Seq(Tasks)
  BY DEF Nets
<1>2. Len(n.queue) \in Nat /\ DOMAIN n.queue = 1 .. Len(n.queue)
  BY <1>1, LenProperties
<1> QED BY <1>2

LEMMA MovedWaiting ==
  ASSUME NEW n, NEW m, NEW k, Moved(m, n, k)
  PROVE  Waiting(m) \subseteq Waiting(n)
BY DEF Waiting, IsWaiting, Moved

LEMMA MovedThrough ==
  ASSUME NEW n, NEW m \in Nets, NEW l \in Nets, NEW k \in Nat, n \in Nets,
         Moved(m, n, k), Moved(l, m, 0),
         \A i \in DOMAIN n.queue :
            IsWaiting(n, i) /\ n.queue[i].channel \in l.alive
               => n.queue[i].channel \in m.alive
  PROVE  Moved(l, n, k)
<1>1. ASSUME NEW i \in DOMAIN l.queue, IsWaiting(l, i)
      PROVE  i + k \in DOMAIN n.queue /\ l.queue[i] = n.queue[i + k]
  <2>1. i + 0 = i
    BY Places
  <2>2. i \in DOMAIN m.queue /\ l.queue[i] = m.queue[i]
    BY <1>1, <2>1 DEF Moved
  <2>3. IsWaiting(m, i)
    BY <1>1, <2>2 DEF IsWaiting
  <2> QED BY <2>2, <2>3 DEF Moved
<1>2. ASSUME NEW i \in DOMAIN n.queue, IsWaiting(n, i), i > k,
             n.queue[i].channel \in l.alive
      PROVE  i - k \in DOMAIN l.queue /\ l.queue[i - k] = n.queue[i]
  <2> DEFINE j == i - k
  <2>1. j \in DOMAIN m.queue /\ m.queue[j] = n.queue[i]
    BY <1>2 DEF Moved
  <2>2. j > 0 /\ j - 0 = j
    BY <2>1, Places
  <2>3. IsWaiting(m, j)
    BY <1>2, <2>1 DEF IsWaiting
  <2> HIDE DEF j
  <2>4. j - 0 \in DOMAIN l.queue /\ l.queue[j - 0] = m.queue[j]
    BY <1>2, <2>1, <2>2, <2>3 DEF Moved
  <2> QED BY <2>1, <2>2, <2>4 DEF j
<1> QED BY <1>1, <1>2 DEF Moved

LEMMA MovedTwice ==
  ASSUME NEW n, NEW m \in Nets, NEW l \in Nets, NEW k \in Nat, n \in Nets,
         Moved(m, n, k), Moved(l, m, 0), l.alive \subseteq m.alive
  PROVE  Moved(l, n, k)
BY MovedThrough

LEMMA SameQueueMoved ==
  ASSUME NEW n \in Nets, NEW m, m.queue = n.queue
  PROVE  Moved(m, n, 0)
<1>1. \A i \in DOMAIN n.queue : i + 0 = i /\ i - 0 = i
  BY Places
<1> QED BY <1>1 DEF Moved, IsWaiting

LEMMA ScheduleMoved ==
  ASSUME NEW n \in Nets, NEW task \in Tasks, task.task # "message"
  PROVE  Moved(Schedule(n, task), n, 0)
<1> DEFINE m == Schedule(n, task)
           k == Len(n.queue)
<1>1. /\ k \in Nat /\ DOMAIN n.queue = 1 .. k
      /\ DOMAIN m.queue = 1 .. k + 1
      /\ \A i \in 1 .. k : m.queue[i] = n.queue[i]
      /\ m.queue[k + 1] = task
  BY ScheduleProperties
<1> HIDE DEF m, k
<1>2. ASSUME NEW i \in DOMAIN m.queue, IsWaiting(m, i)
      PROVE  i + 0 \in DOMAIN n.queue /\ m.queue[i] = n.queue[i + 0]
  <2>1. i # k + 1
    BY <1>1, <1>2 DEF IsWaiting
  <2> QED BY <1>1, <2>1
<1>3. ASSUME NEW i \in DOMAIN n.queue
      PROVE  i - 0 \in DOMAIN m.queue /\ m.queue[i - 0] = n.queue[i]
  BY <1>1
<1> QED BY <1>2, <1>3 DEF Moved, m

LEMMA CloseMoved ==
  ASSUME NEW n \in Nets, NEW ch \in Channels
  PROVE  Moved(Close(n, ch), n, 0)
<1> DEFINE open == [n EXCEPT !.connected = @ \ {ch}]
           task == DisconnectTask(ch)
           m == Schedule(open, task)
<1>1. open \in Nets /\ open.queue = n.queue
  BY DEF Nets
<1>2. task \in Tasks /\ task.task = "disconnect"
  BY TaskTypes, TaskFields
<1>3. Close(n, ch) = m
  BY DEF Close
<1> HIDE DEF open, task
<1>4. Moved(open, n, 0)
  BY <1>1, SameQueueMoved
<1>5. Moved(m, open, 0) /\ m \in Nets /\ m.alive = open.alive
  BY <1>1, <1>2, ScheduleMoved, ScheduleProperties
<1> HIDE DEF m
<1> QED BY <1>1, <1>3, <1>4, <1>5, MovedTwice

LEMMA DisconnectMoved ==
  ASSUME NEW told, NEW n, Good(n, told), NEW ch \in Channels
  PROVE  Moved(Disconnect(n, ch), n, 0)
<1>0. n \in Nets /\ Orderly(n, told)
  BY DEF Good, Orderly
<1>1. CASE ch \notin n.connected
  BY <1>0, <1>1, SameQueueMoved DEF Disconnect
<1>2. CASE ch \in n.connected
  <2> DEFINE closed == Close(n, ch)
             m == Close(closed, Peer(ch))
  <2>1. Peer(ch) \in n.connected /\ Peer(ch) \in Channels /\ Peer(ch) # ch
    BY <1>2, PeerProperties DEF Good, Paired
  <2>2. Disconnect(n, ch) = m
    BY <1>2, <2>1 DEF Disconnect
  <2>3. Orderly(closed, told) /\ closed.alive = n.alive /\ closed.connected = n.connected \ {ch}
    BY <1>0, <1>2, CloseOrderly
  <2>4. Moved(closed, n, 0)
    BY <1>0, CloseMoved
  <2> HIDE DEF closed
  <2>5. closed \in Nets /\ Peer(ch) \in closed.connected
    BY <2>1, <2>3 DEF Orderly
  <2>6. Moved(m, closed, 0) /\ Orderly(m, told) /\ m.alive = closed.alive
    BY <2>1, <2>3, <2>5, CloseMoved, CloseOrderly
  <2> HIDE DEF m
  <2>7. m \in Nets
    BY <2>6 DEF Orderly
  <2> QED BY <1>0, <2>2, <2>4, <2>5, <2>6, <2>7, MovedTwice
<1> QED BY <1>1, <1>2

LEMMA DeleteMoved ==
  ASSUME NEW told, NEW n, Good(n, told), NEW ch \in Channels
  PROVE  Moved(Delete(n, ch), n, 0)
<1> DEFINE d == Disconnect(n, Peer(ch))
           m == Delete(n, ch)
           left == told \ {ch}
<1>1. Good(d, told) /\ Moved(d, n, 0) /\ d.alive = n.alive
  BY PeerProperties, DisconnectGood, DisconnectMoved
<1>2. /\ m.queue = [i \in DOMAIN d.queue |-> Forget(d.queue[i], ch)]
      /\ m.alive = d.alive \ {ch}
  BY DEF Delete
<1>3. left = told \ {ch}
  OBVIOUS
<1> HIDE DEF d, left
<1>4. Good(m, left)
  BY <1>3, DeleteGood
<1> HIDE DEF m
<1>5. n \in Nets /\ d \in Nets /\ m \in Nets /\ d.queue \in Seq(Tasks)
  BY <1>1, <1>4 DEF Good, Orderly, Nets
<1>6. \A i \in DOMAIN d.queue : d.queue[i] \in Tasks
  BY <1>5, ElementOfSeq, LenProperties
<1>7. \A i \in DOMAIN d.queue : i + 0 = i /\ i - 0 = i
  BY <1>5, Places
<1>8. ASSUME NEW i \in DOMAIN d.queue, IsWaiting(m, i)
      PROVE  m.queue[i] = d.queue[i]
  <2>1. m.queue[i] = Forget(d.queue[i], ch) /\ m.queue[i].channel # None
        /\ m.queue[i].task = "message"
    BY <1>2, <1>8 DEF IsWaiting
  <2>2. ~(d.queue[i].task # "connect" /\ d.queue[i].channel = ch)
    BY <1>6, <2>1, ForgetProperties
  <2> QED BY <2>1, <2>2 DEF Forget
<1>9. ASSUME NEW i \in DOMAIN d.queue, d.queue[i].channel \in m.alive
      PROVE  m.queue[i] = d.queue[i]
  BY <1>2, <1>9 DEF Forget
<1>10. Moved(m, d, 0)
  BY <1>2, <1>7, <1>8, <1>9 DEF Moved
<1> QED BY <1>1, <1>2, <1>5, <1>10, MovedTwice DEF m

(* A text that is sent over a sound connection comes behind all the others.  *)
Sent(m, n, k, task) ==
    /\ \A i \in DOMAIN m.queue : IsWaiting(m, i) =>
          \/ i + k \in DOMAIN n.queue /\ m.queue[i] = n.queue[i + k]
          \/ i + k = Len(n.queue) + 1 /\ m.queue[i] = task
    /\ \A i \in DOMAIN n.queue :
          IsWaiting(n, i) /\ i > k =>
              i - k \in DOMAIN m.queue /\ m.queue[i - k] = n.queue[i]
    /\ Len(n.queue) + 1 - k \in DOMAIN m.queue
    /\ m.queue[Len(n.queue) + 1 - k] = task

LEMMA SendMoved ==
  ASSUME NEW told, NEW n, Good(n, told), NEW m, Good(m, {}), NEW k \in Nat,
         Moved(n, m, k), Len(n.queue) + k = Len(m.queue), n.alive = m.alive,
         NEW ch \in Channels, NEW text \in Texts,
         NEW task, task = MessageTask(Peer(ch), text)
  PROVE  /\ ch \in n.connected /\ Peer(ch) \in n.connected
               => Sent(Send(n, ch, text), m, k, task)
         /\ ~(ch \in n.connected /\ Peer(ch) \in n.connected) => Send(n, ch, text) = n
<1>1. ASSUME ch \in n.connected, Peer(ch) \in n.connected
      PROVE  Sent(Send(n, ch, text), m, k, task)
  <2> DEFINE l == Send(n, ch, text)
             last == Len(n.queue)
  <2>1. task \in Tasks
    BY PeerProperties, TaskTypes
  <2>2. l = Schedule(n, task) /\ n \in Nets /\ m \in Nets
    BY <1>1 DEF Send, Good, Orderly
  <2> HIDE DEF l
  <2>3. /\ last \in Nat /\ DOMAIN n.queue = 1 .. last
        /\ DOMAIN l.queue = 1 .. last + 1
        /\ \A i \in 1 .. last : l.queue[i] = n.queue[i]
        /\ l.queue[last + 1] = task
    BY <2>1, <2>2, ScheduleProperties
  <2>4. Len(m.queue) = last + k
    OBVIOUS
  <2> HIDE DEF last
  <2>5. ASSUME NEW i \in DOMAIN l.queue, IsWaiting(l, i)
        PROVE  \/ i + k \in DOMAIN m.queue /\ l.queue[i] = m.queue[i + k]
               \/ i + k = Len(m.queue) + 1 /\ l.queue[i] = task
    <3>1. CASE i = last + 1
      <4>1. (last + 1) + k = (last + k) + 1
        BY <2>3
      <4> QED BY <2>3, <2>4, <3>1, <4>1
    <3>2. CASE i # last + 1
      <4>1. i \in DOMAIN n.queue /\ l.queue[i] = n.queue[i]
        BY <2>3, <2>5, <3>2
      <4>2. IsWaiting(n, i)
        BY <2>5, <4>1 DEF IsWaiting
      <4> QED BY <4>1, <4>2 DEF Moved
    <3> QED BY <3>1, <3>2
  <2>6. ASSUME NEW i \in DOMAIN m.queue, IsWaiting(m, i), i > k
        PROVE  i - k \in DOMAIN l.queue /\ l.queue[i - k] = m.queue[i]
    <3> DEFINE j == i - k
    <3>1. m.queue[i].channel \in n.alive
      BY <2>6 DEF Good, Orderly, PointersAlive, IsWaiting
    <3>2. j \in DOMAIN n.queue /\ n.queue[j] = m.queue[i]
      BY <2>6, <3>1 DEF Moved
    <3> HIDE DEF j
    <3>3. j \in DOMAIN l.queue /\ l.queue[j] = n.queue[j]
      BY <2>3, <3>2
    <3> QED BY <3>2, <3>3 DEF j
  <2>7. Len(m.queue) + 1 - k = last + 1
    BY <2>3, <2>4
  <2>8. Sent(l, m, k, task)
    BY <2>3, <2>5, <2>6, <2>7 DEF Sent
  <2> QED BY <2>8 DEF l
<1> QED BY <1>1 DEF Send

LEMMA PopMoved ==
  ASSUME NEW n, Good(n, {}), n.queue # <<>>, NEW m,
         m = [n EXCEPT !.queue = Tail(@)]
  PROVE  /\ Moved(m, n, 1)
         /\ Len(m.queue) + 1 = Len(n.queue)
         /\ n.queue[1].task = "message" /\ n.queue[1].channel # None
               => n.queue[1] \in Waiting(n)
<1> DEFINE k == Len(n.queue)
<1>1. n \in Nets /\ n.queue \in Seq(Tasks)
  BY DEF Good, Orderly, Nets
<1>2. k \in Nat /\ k # 0 /\ DOMAIN n.queue = 1 .. k
  BY <1>1, LenProperties, EmptySeq
<1>3. m.queue = Tail(n.queue)
  BY <1>1 DEF Nets
<1>4. /\ Len(Tail(n.queue)) = k - 1
      /\ \A i \in 1 .. k - 1 : Tail(n.queue)[i] = n.queue[i + 1]
      /\ Tail(n.queue) \in Seq(Tasks)
  BY <1>1, HeadTailProperties
<1>5. DOMAIN m.queue = 1 .. k - 1
  BY <1>3, <1>4, LenProperties
<1> HIDE DEF k
<1>6. \A i \in DOMAIN m.queue : i + 1 \in DOMAIN n.queue /\ m.queue[i] = n.queue[i + 1]
  BY <1>2, <1>3, <1>4, <1>5
<1>7. \A i \in DOMAIN n.queue : i > 1 =>
         i - 1 \in DOMAIN m.queue /\ (i - 1) + 1 = i
  BY <1>2, <1>5
<1>8. \A i \in DOMAIN n.queue : i > 1 =>
         i - 1 \in DOMAIN m.queue /\ m.queue[i - 1] = n.queue[i]
  BY <1>6, <1>7
<1>9. 1 \in DOMAIN n.queue
  BY <1>2
<1>10. Len(m.queue) + 1 = Len(n.queue)
  BY <1>2, <1>3, <1>4 DEF k
<1> QED BY <1>6, <1>8, <1>9, <1>10 DEF Waiting, IsWaiting, Moved

(* New channels have no tasks, even if their identity was used before. *)
LEMMA ConnectGood ==
  ASSUME NEW told, NEW n, Good(n, told), NEW link \in FreeLinks(n),
         NEW both, both = {<<link, "client">>, <<link, "server">>}
  PROVE  /\ Good(Connect(n, link), told)
         /\ Connect(n, link).alive = n.alive \cup both
         /\ Connect(n, link).connected = n.connected \cup both
         /\ both \subseteq Channels
         /\ both \cap n.alive = {}
<1> DEFINE m == Connect(n, link)
<1>1. n \in Nets /\ n.connected \subseteq n.alive
  BY DEF Good, Orderly
<1>2. both \subseteq Channels
  BY DEF Channels, FreeLinks
<1>3. both \cap n.alive = {}
  BY DEF FreeLinks
<1>4. /\ m.alive = n.alive \cup both
      /\ m.connected = n.connected \cup both
      /\ m.queue = n.queue
      /\ m \in Nets
  BY <1>1, <1>2 DEF Connect, Nets
<1> HIDE DEF m
<1>5. \A x \in both : \A i \in DOMAIN n.queue : n.queue[i] # DisconnectTask(x)
  <2> SUFFICES ASSUME NEW x \in both, NEW i \in DOMAIN n.queue,
                      n.queue[i] = DisconnectTask(x)
               PROVE  FALSE
    OBVIOUS
  <2>1. x \in n.alive \cup {None}
    BY TaskFields DEF Good, Orderly, PointersAlive
  <2> QED BY <2>1, <1>2, <1>3
<1>6. PointersAlive(m)
  BY <1>4 DEF Good, Orderly, PointersAlive
<1>7. Announced(m, told)
  BY <1>4 DEF Good, Orderly, Announced
<1>8. NotTooEarly(m)
  BY <1>4, <1>5 DEF Good, Orderly, NotTooEarly
<1>9. AnnouncedOnce(m)
  BY <1>4, <1>5 DEF Good, Orderly, AnnouncedOnce
<1>10. AnnouncedLast(m)
  BY <1>4, <1>5 DEF Good, Orderly, AnnouncedLast
<1>11. Paired(m)
  <2>1. \A x \in both : Peer(x) \in both
    BY DEF Peer
  <2> QED BY <2>1, <1>4 DEF Good, Paired
<1> QED
  BY <1>1, <1>2, <1>3, <1>4, <1>6, <1>7, <1>8, <1>9, <1>10, <1>11 DEF Good, Orderly, m
-----------------------------------------------------------------------------
(* The operations on several channels are recursive functions on 0 .. k;   *)
(* that they exist, and what they keep, is shown by the least number for   *)
(* which it would fail.                                                    *)
LEMMA LeastNat ==
  ASSUME NEW T, T \subseteq Nat, T # {}
  PROVE  \E m \in T : \A k \in T : m <= k
<1>1. PICK m \in T : \A k \in T : <<k, m>> \notin OpToRel(<, Nat)
  BY NatLessThanWellFounded, WFMin
<1>2. \A k \in T : ~(k < m)
  BY <1>1 DEF OpToRel
<1>3. \A k \in T : k \in Nat /\ m \in Nat
  OBVIOUS
<1> QED BY <1>2, <1>3

LEMMA DisconnectAllSteps ==
  ASSUME NEW n, NEW chs, Len(chs) \in Nat
  PROVE  \E f : /\ f = [i \in 0 .. Len(chs) |->
                           IF i = 0 THEN n ELSE Disconnect(f[i - 1], chs[i])]
               /\ DisconnectAll(n, chs) = f[Len(chs)]
<1> DEFINE IsFn(f, m) == f = [i \in 0 .. m |->
                               IF i = 0 THEN n ELSE Disconnect(f[i - 1], chs[i])]
           T == {m \in Nat : ~ \E f : IsFn(f, m)}
<1>1. T = {}
  <2> SUFFICES ASSUME T # {} PROVE FALSE
    OBVIOUS
  <2>1. PICK m \in T : \A k \in T : m <= k
    BY LeastNat
  <2>2. m # 0
    <3>1. IsFn([i \in 0 .. 0 |-> n], 0)
      OBVIOUS
    <3> QED BY <3>1
  <2>3. PICK g : IsFn(g, m - 1)
    BY <2>1, <2>2
  <2> DEFINE f == [i \in 0 .. m |-> IF i = m THEN Disconnect(g[m - 1], chs[m]) ELSE g[i]]
  <2>4. IsFn(f, m)
    <3> SUFFICES ASSUME NEW i \in 0 .. m
                 PROVE  f[i] = IF i = 0 THEN n ELSE Disconnect(f[i - 1], chs[i])
      OBVIOUS
    <3>1. CASE i = m
      BY <3>1, <2>1, <2>2
    <3>2. CASE i # m
      BY <3>2, <2>1, <2>2, <2>3
    <3> QED BY <3>1, <3>2
  <2> QED BY <2>1, <2>4
<1>2. \E f : IsFn(f, Len(chs))
  BY <1>1
<1>3. IsFn((CHOOSE f : IsFn(f, Len(chs))), Len(chs))
  BY <1>2
<1>4. DisconnectAll(n, chs) = (CHOOSE f : IsFn(f, Len(chs)))[Len(chs)]
  BY DEF DisconnectAll
<1> QED BY <1>3, <1>4

LEMMA DeleteAllSteps ==
  ASSUME NEW n, NEW chs, Len(chs) \in Nat
  PROVE  \E f : /\ f = [i \in 0 .. Len(chs) |->
                           IF i = 0 THEN n ELSE Delete(f[i - 1], chs[i])]
               /\ DeleteAll(n, chs) = f[Len(chs)]
<1> DEFINE IsFn(f, m) == f = [i \in 0 .. m |->
                               IF i = 0 THEN n ELSE Delete(f[i - 1], chs[i])]
           T == {m \in Nat : ~ \E f : IsFn(f, m)}
<1>1. T = {}
  <2> SUFFICES ASSUME T # {} PROVE FALSE
    OBVIOUS
  <2>1. PICK m \in T : \A k \in T : m <= k
    BY LeastNat
  <2>2. m # 0
    <3>1. IsFn([i \in 0 .. 0 |-> n], 0)
      OBVIOUS
    <3> QED BY <3>1
  <2>3. PICK g : IsFn(g, m - 1)
    BY <2>1, <2>2
  <2> DEFINE f == [i \in 0 .. m |-> IF i = m THEN Delete(g[m - 1], chs[m]) ELSE g[i]]
  <2>4. IsFn(f, m)
    <3> SUFFICES ASSUME NEW i \in 0 .. m
                 PROVE  f[i] = IF i = 0 THEN n ELSE Delete(f[i - 1], chs[i])
      OBVIOUS
    <3>1. CASE i = m
      BY <3>1, <2>1, <2>2
    <3>2. CASE i # m
      BY <3>2, <2>1, <2>2, <2>3
    <3> QED BY <3>1, <3>2
  <2> QED BY <2>1, <2>4
<1>2. \E f : IsFn(f, Len(chs))
  BY <1>1
<1>3. IsFn((CHOOSE f : IsFn(f, Len(chs))), Len(chs))
  BY <1>2
<1>4. DeleteAll(n, chs) = (CHOOSE f : IsFn(f, Len(chs)))[Len(chs)]
  BY DEF DeleteAll
<1> QED BY <1>3, <1>4

LEMMA DisconnectAllGood ==
  ASSUME NEW told, NEW n, Good(n, told), NEW chs \in Seq(Channels)
  PROVE  /\ Good(DisconnectAll(n, chs), told)
         /\ DisconnectAll(n, chs).alive = n.alive
         /\ DisconnectAll(n, chs).connected \subseteq n.connected
         /\ \A i \in 1 .. Len(chs) : chs[i] \notin DisconnectAll(n, chs).connected
         /\ Moved(DisconnectAll(n, chs), n, 0)
<1>1. Len(chs) \in Nat /\ \A i \in 1 .. Len(chs) : chs[i] \in Channels
  BY LenProperties, ElementOfSeq
<1>2. PICK f : /\ f = [i \in 0 .. Len(chs) |->
                         IF i = 0 THEN n ELSE Disconnect(f[i - 1], chs[i])]
               /\ DisconnectAll(n, chs) = f[Len(chs)]
  BY <1>1, DisconnectAllSteps
<1> DEFINE k == Len(chs)
           Right(i) == /\ Good(f[i], told)
                       /\ f[i].alive = n.alive
                       /\ f[i].connected \subseteq n.connected
                       /\ \A j \in 1 .. i : chs[j] \notin f[i].connected
                       /\ Moved(f[i], n, 0)
           T == {i \in 0 .. k : ~Right(i)}
<1> HIDE DEF k
<1>3. Right(0)
  <2>1. f[0] = n
    BY <1>1, <1>2
  <2>2. Moved(n, n, 0)
    BY SameQueueMoved DEF Good, Orderly
  <2> QED BY <2>1, <2>2
<1>4. ASSUME NEW i \in 1 .. k, Right(i - 1)
      PROVE  Right(i)
  <2>1. f[i] = Disconnect(f[i - 1], chs[i]) /\ chs[i] \in Channels
    BY <1>1, <1>2 DEF k
  <2>2. /\ Good(f[i], told)
        /\ f[i].alive = f[i - 1].alive
        /\ f[i].connected = f[i - 1].connected \ {chs[i], Peer(chs[i])}
        /\ Moved(f[i], f[i - 1], 0)
    <3> DEFINE g == f[i - 1]
               ch == chs[i]
    <3>1. Good(g, told) /\ ch \in Channels
      BY <2>1, <1>4
    <3> HIDE DEF Right, T, g, ch
    <3>2. /\ Good(Disconnect(g, ch), told)
          /\ Disconnect(g, ch).alive = g.alive
          /\ Disconnect(g, ch).connected = g.connected \ {ch, Peer(ch)}
          /\ Moved(Disconnect(g, ch), g, 0)
      BY <3>1, DisconnectGood, DisconnectMoved
    <3> QED BY <2>1, <3>2 DEF g, ch
  <2>3. \A j \in 1 .. i : j = i \/ j \in 1 .. i - 1
    OBVIOUS
  <2>4. Moved(f[i], n, 0)
    <3> DEFINE g == f[i - 1]
               h == f[i]
    <3>1. /\ Moved(g, n, 0) /\ Moved(h, g, 0) /\ h.alive \subseteq g.alive
          /\ n \in Nets /\ g \in Nets /\ h \in Nets
      BY <2>2, <1>4 DEF Good, Orderly
    <3> HIDE DEF Right, T, g, h
    <3> QED BY <3>1, MovedTwice DEF h
  <2> QED BY <2>2, <2>3, <2>4, <1>4
<1>5. T = {}
  <2> SUFFICES ASSUME T # {} PROVE FALSE
    OBVIOUS
  <2> HIDE DEF Right
  <2>1. PICK m \in T : \A i \in T : m <= i
    <3>1. T \subseteq Nat
      BY <1>1 DEF k
    <3> QED BY <3>1, LeastNat
  <2>2. m \in 1 .. k /\ Right(m - 1)
    <3>1. m # 0 /\ m \in 0 .. k /\ k \in Nat
      BY <1>1, <1>3 DEF k
    <3>2. m - 1 \in 0 .. k /\ m - 1 \notin T
      BY <3>1, <2>1
    <3> QED BY <3>1, <3>2
  <2> QED BY <2>1, <2>2, <1>4
<1>6. Right(k)
  BY <1>1, <1>5 DEF k
<1> QED BY <1>2, <1>6 DEF k

LEMMA DeleteAllGood ==
  ASSUME NEW told, NEW n, Good(n, told), NEW chs \in Seq(Channels)
  PROVE  /\ Good(DeleteAll(n, chs), told)
         /\ \A ch : ch \in DeleteAll(n, chs).alive <=>
               ch \in n.alive /\ \A i \in 1 .. Len(chs) : chs[i] # ch
         /\ DeleteAll(n, chs).connected \subseteq n.connected
         /\ Moved(DeleteAll(n, chs), n, 0)
<1>1. Len(chs) \in Nat /\ \A i \in 1 .. Len(chs) : chs[i] \in Channels
  BY LenProperties, ElementOfSeq
<1>2. PICK f : /\ f = [i \in 0 .. Len(chs) |->
                         IF i = 0 THEN n ELSE Delete(f[i - 1], chs[i])]
               /\ DeleteAll(n, chs) = f[Len(chs)]
  BY <1>1, DeleteAllSteps
<1> DEFINE k == Len(chs)
           Right(i) == /\ Good(f[i], told)
                       /\ \A ch : ch \in f[i].alive <=>
                             ch \in n.alive /\ \A j \in 1 .. i : chs[j] # ch
                       /\ f[i].connected \subseteq n.connected
                       /\ Moved(f[i], n, 0)
           T == {i \in 0 .. k : ~Right(i)}
<1> HIDE DEF k
<1>3. Right(0)
  <2>1. f[0] = n
    BY <1>1, <1>2
  <2>2. Moved(n, n, 0)
    BY SameQueueMoved DEF Good, Orderly
  <2> QED BY <2>1, <2>2
<1>4. ASSUME NEW i \in 1 .. k, Right(i - 1)
      PROVE  Right(i)
  <2>1. f[i] = Delete(f[i - 1], chs[i]) /\ chs[i] \in Channels
    BY <1>1, <1>2 DEF k
  <2> DEFINE left == told \ {chs[i]}
  <2>2. /\ Good(f[i], left)
        /\ f[i].alive = f[i - 1].alive \ {chs[i]}
        /\ f[i].connected = f[i - 1].connected \ {chs[i], Peer(chs[i])}
        /\ Moved(f[i], f[i - 1], 0)
    <3>1. Good(f[i - 1], told)
      BY <1>4
    <3>2. left = told \ {chs[i]}
      OBVIOUS
    <3> DEFINE g == f[i - 1]
               ch == chs[i]
    <3>3. Good(g, told) /\ ch \in Channels /\ left = told \ {ch}
      BY <2>1, <3>1, <3>2
    <3> HIDE DEF Right, left, T, g, ch
    <3>4. /\ Good(Delete(g, ch), left)
          /\ Delete(g, ch).alive = g.alive \ {ch}
          /\ Delete(g, ch).connected = g.connected \ {ch, Peer(ch)}
          /\ Moved(Delete(g, ch), g, 0)
      BY <3>3, DeleteGood, DeleteMoved
    <3> QED BY <2>1, <3>4 DEF g, ch
  <2>3. Good(f[i], told)
    BY <2>2 DEF Good, Orderly, Announced
  <2>4. \A j \in 1 .. i : j = i \/ j \in 1 .. i - 1
    OBVIOUS
  <2>5. Moved(f[i], n, 0)
    <3> DEFINE g == f[i - 1]
               h == f[i]
    <3>1. /\ Moved(g, n, 0) /\ Moved(h, g, 0) /\ h.alive \subseteq g.alive
          /\ n \in Nets /\ g \in Nets /\ h \in Nets
      BY <2>2, <1>4 DEF Good, Orderly
    <3> HIDE DEF Right, T, g, h
    <3> QED BY <3>1, MovedTwice DEF h
  <2> QED BY <2>2, <2>3, <2>4, <2>5, <1>4
<1>5. T = {}
  <2> SUFFICES ASSUME T # {} PROVE FALSE
    OBVIOUS
  <2> HIDE DEF Right
  <2>1. PICK m \in T : \A i \in T : m <= i
    <3>1. T \subseteq Nat
      BY <1>1 DEF k
    <3> QED BY <3>1, LeastNat
  <2>2. m \in 1 .. k /\ Right(m - 1)
    <3>1. m # 0 /\ m \in 0 .. k /\ k \in Nat
      BY <1>1, <1>3 DEF k
    <3>2. m - 1 \in 0 .. k /\ m - 1 \notin T
      BY <3>1, <2>1
    <3> QED BY <3>1, <3>2
  <2> QED BY <2>1, <2>2, <1>4
<1>6. Right(k)
  BY <1>1, <1>5 DEF k
<1> QED BY <1>2, <1>6 DEF k

HIDE NullAssumption
-----------------------------------------------------------------------------
(* The inductive invariant.  Nothing is told ({}) between two actions.  A   *)
(* channel knows its holder and its holder knows it; the side of a channel  *)
(* tells which kind of holder it has.                                       *)
ClientsHold ==
    \A c \in Clients : clientChannel[c] # None =>
        /\ c \in clients
        /\ clientChannel[c] \in net.alive
        /\ clientChannel[c][2] = "client"
        /\ owner[clientChannel[c]] = c

ServersHold ==
    \A s \in Servers, id \in ClientIds : connections[s][id] # None =>
        /\ s \in servers
        /\ connections[s][id] \in net.alive
        /\ connections[s][id][2] = "server"
        /\ owner[connections[s][id]] = s
        /\ peerId[connections[s][id]] = id

ChannelsHeld ==
    \A ch \in net.alive :
        /\ ch[2] = "client" => /\ owner[ch] \in Clients
                               /\ clientChannel[owner[ch]] = ch
        /\ ch[2] = "server" => /\ owner[ch] \in Servers
                               /\ peerId[ch] \in ClientIds
                               /\ connections[owner[ch]][peerId[ch]] = ch

Holding == ClientsHold /\ ServersHold /\ ChannelsHeld

(* An object that does not exist has no identifier. *)
NoIdleIds ==
    /\ \A c \in Clients \ clients : clientId[c] = None
    /\ \A s \in Servers \ servers : serverId[s] = None

(* What the two channels of a pair remember of each other. *)
PeersAgree ==
    \A c \in Clients : clientChannel[c] \in net.connected =>
        /\ clientId[c] # None
        /\ peerId[Peer(clientChannel[c])] = clientId[c]
        /\ peerId[clientChannel[c]] = serverId[owner[Peer(clientChannel[c])]]

TransportInv ==
    /\ TypeOK
    /\ Good(net, {})
    /\ Holding
    /\ NoIdleIds
    /\ RegistriesExact
    /\ PeersAgree
    /\ ClosedServerHasNoConnection
-----------------------------------------------------------------------------
LEMMA InitInv == Init => TransportInv
<1> SUFFICES ASSUME Init PROVE TransportInv
  OBVIOUS
<1> USE DEF Init
<1>1. Good(net, {}) /\ net \in Nets
  BY NewNet
<1>2. net.alive = {} /\ net.connected = {}
  BY DEF EmptyNet
<1>3. TypeOK
  BY <1>1, NoneAssumption, OwnersAssumption DEF TypeOK
<1>4. Holding
  BY <1>2 DEF Holding, ClientsHold, ServersHold, ChannelsHeld
<1>5. NoIdleIds /\ RegistriesExact
  BY NoneAssumption, OwnersAssumption DEF NoIdleIds, RegistriesExact
<1>6. PeersAgree /\ ClosedServerHasNoConnection
  BY <1>2 DEF PeersAgree, ClosedServerHasNoConnection
<1> QED BY <1>1, <1>3, <1>4, <1>5, <1>6 DEF TransportInv

(* Steps that only schedule or take tasks, or break connections. *)
LEMMA NetOnly ==
  ASSUME TransportInv, Good(net', {}), net'.alive = net.alive,
         net'.connected \subseteq net.connected,
         UNCHANGED <<clientVars, serverVars, channelVars>>
  PROVE  TransportInv'
<1> USE DEF clientVars, serverVars, channelVars
<1>1. TypeOK'
  <2>1. net' \in Nets
    BY DEF Good, Orderly
  <2> QED BY <2>1 DEF TransportInv, TypeOK
<1>2. Holding'
  BY DEF TransportInv, Holding, ClientsHold, ServersHold, ChannelsHeld
<1>3. NoIdleIds' /\ RegistriesExact'
  BY DEF TransportInv, NoIdleIds, RegistriesExact
<1>4. PeersAgree'
  BY DEF TransportInv, PeersAgree
<1>5. ClosedServerHasNoConnection'
  BY DEF TransportInv, ClosedServerHasNoConnection
<1> QED BY <1>1, <1>2, <1>3, <1>4, <1>5 DEF TransportInv

LEMMA UnchangedInv == TransportInv /\ UNCHANGED vars => TransportInv'
<1> SUFFICES ASSUME TransportInv, UNCHANGED vars PROVE TransportInv'
  OBVIOUS
<1>1. net' = net /\ UNCHANGED <<clientVars, serverVars, channelVars>>
  BY DEF vars
<1>2. Good(net', {})
  BY <1>1 DEF TransportInv
<1> QED BY <1>1, <1>2, NetOnly

LEMMA HeldChannels ==
  ASSUME TypeOK
  PROVE  /\ \A c \in Clients : clientChannel[c] # None => clientChannel[c] \in Channels
         /\ \A s \in Servers, id \in ClientIds :
               connections[s][id] # None => connections[s][id] \in Channels
         /\ \A ch \in net.alive : ch \in Channels /\ ch # None
  BY NullAssumption DEF TypeOK, Nets

LEMMA NetCallsInv ==
  ASSUME TransportInv
  PROVE  /\ \A c \in Clients, sid \in ServerIds : ConnectToHost(c, sid) => TransportInv'
         /\ \A c \in Clients : ClientDisconnect(c) => TransportInv'
         /\ \A c \in Clients, text \in Texts : ClientSend(c, text) => TransportInv'
         /\ \A s \in Servers, id \in ClientIds : ConnectionDisconnect(s, id) => TransportInv'
         /\ \A s \in Servers, id \in ClientIds, text \in Texts :
               ConnectionSend(s, id, text) => TransportInv'
<1>1. TypeOK /\ Good(net, {})
  BY DEF TransportInv
<1>2. ASSUME NEW c \in Clients, NEW sid \in ServerIds, ConnectToHost(c, sid)
      PROVE  TransportInv'
  <2> DEFINE task == ConnectTask(clientId[c], sid)
  <2>1. task \in Tasks /\ task.task = "connect"
    BY <1>1, <1>2, TaskTypes, TaskFields DEF TypeOK, ConnectToHost
  <2>2. net' = Schedule(net, task)
    BY <1>2 DEF ConnectToHost
  <2> HIDE DEF task
  <2>3. Good(net', {}) /\ net'.alive = net.alive /\ net'.connected = net.connected
    BY <1>1, <2>1, <2>2, ScheduleGood
  <2> QED BY <1>2, <2>3, NetOnly DEF ConnectToHost
<1>3. ASSUME NEW ch \in Channels, net' = Disconnect(net, ch),
             UNCHANGED <<clientVars, serverVars, channelVars>>
      PROVE  TransportInv'
  <2>1. /\ Good(net', {}) /\ net'.alive = net.alive
        /\ net'.connected \subseteq net.connected
    BY <1>1, <1>3, DisconnectGood
  <2> QED BY <1>3, <2>1, NetOnly
<1>4. ASSUME NEW ch \in Channels, NEW text \in Texts, net' = Send(net, ch, text),
             UNCHANGED <<clientVars, serverVars, channelVars>>
      PROVE  TransportInv'
  <2>1. /\ Good(net', {}) /\ net'.alive = net.alive
        /\ net'.connected \subseteq net.connected
    BY <1>1, <1>4, SendGood
  <2> QED BY <1>4, <2>1, NetOnly
<1>5. ASSUME NEW c \in Clients, ClientDisconnect(c) PROVE TransportInv'
  BY <1>1, <1>3, <1>5, HeldChannels DEF ClientDisconnect
<1>6. ASSUME NEW c \in Clients, NEW text \in Texts, ClientSend(c, text) PROVE TransportInv'
  BY <1>1, <1>4, <1>6, HeldChannels DEF ClientSend
<1>7. ASSUME NEW s \in Servers, NEW id \in ClientIds, ConnectionDisconnect(s, id)
      PROVE  TransportInv'
  BY <1>1, <1>3, <1>7, HeldChannels DEF ConnectionDisconnect
<1>8. ASSUME NEW s \in Servers, NEW id \in ClientIds, NEW text \in Texts,
             ConnectionSend(s, id, text)
      PROVE  TransportInv'
  BY <1>1, <1>4, <1>8, HeldChannels DEF ConnectionSend
<1> QED BY <1>2, <1>5, <1>6, <1>7, <1>8

(* What is known of the next task. *)
LEMMA TakeTask ==
  ASSUME TransportInv, NEW kind, IsNext(kind), kind # "disconnect"
  PROVE  /\ Good(Popped, {})
         /\ Popped.alive = net.alive /\ Popped.connected = net.connected
         /\ NextTask \in Tasks /\ NextTask.task = kind
         /\ Moved(Popped, net, 1) /\ Len(Popped.queue) + 1 = Len(net.queue)
         /\ kind = "message" /\ NextTask.channel # None => NextTask \in Waiting(net)
<1>1. Good(net, {}) /\ net.queue # <<>> /\ NextTask.task = kind
  BY DEF TransportInv, IsNext
<1> DEFINE told == {}
<1>2. told = IF net.queue[1].task = "disconnect" THEN {net.queue[1].channel} ELSE {}
  BY <1>1 DEF NextTask
<1> DEFINE m == Popped
<1>3. m = [net EXCEPT !.queue = Tail(@)]
  BY DEF Popped
<1> HIDE DEF told, m
<1>4. /\ Good(m, told)
      /\ m.alive = net.alive /\ m.connected = net.connected
      /\ net.queue[1] \in Tasks
  BY <1>1, <1>2, <1>3, PopGood
<1>5. /\ Moved(m, net, 1) /\ Len(m.queue) + 1 = Len(net.queue)
      /\ kind = "message" /\ NextTask.channel # None => NextTask \in Waiting(net)
  BY <1>1, <1>3, PopMoved DEF NextTask
<1> QED BY <1>1, <1>4, <1>5 DEF told, m, NextTask

LEMMA TakeDisconnect ==
  ASSUME TransportInv, IsNext("disconnect"), NEW ch, ch = NextTask.channel
  PROVE  /\ Good(Popped, {ch})
         /\ Popped.alive = net.alive /\ Popped.connected = net.connected
         /\ ch # None => ch \in net.alive /\ ch \notin net.connected
         /\ Moved(Popped, net, 1)
<1>1. Good(net, {}) /\ net.queue # <<>> /\ net.queue[1].task = "disconnect"
  BY DEF TransportInv, IsNext, NextTask
<1> DEFINE told == {ch}
           m == Popped
<1>2. told = IF net.queue[1].task = "disconnect" THEN {net.queue[1].channel} ELSE {}
  BY <1>1 DEF NextTask
<1>3. m = [net EXCEPT !.queue = Tail(@)]
  BY DEF Popped
<1> HIDE DEF told, m
<1>4. /\ Good(m, told)
      /\ m.alive = net.alive /\ m.connected = net.connected
      /\ net.queue[1] \in Tasks
      /\ net.queue[1].task # "connect" => net.queue[1].channel \in net.alive \cup {None}
      /\ \A x \in net.connected : net.queue[1] # DisconnectTask(x)
  BY <1>1, <1>2, <1>3, PopGood
<1>5. net.queue[1] = DisconnectTask(ch)
  BY <1>1, <1>4 DEF Tasks, DisconnectTask, NextTask
<1>6. Moved(m, net, 1)
  BY <1>1, <1>3, PopMoved
<1> QED BY <1>1, <1>4, <1>5, <1>6 DEF told, m, NextTask

LEMMA QuietTasksInv ==
  ASSUME TransportInv
  PROVE  /\ ConnectInVain => TransportInv'
         /\ DeliverMessage => TransportInv'
         /\ DisconnectDeleted => TransportInv'
<1>1. ASSUME ConnectInVain PROVE TransportInv'
  <2>1. net' = Popped /\ IsNext("connect")
    BY <1>1 DEF ConnectInVain
  <2>2. Good(net', {}) /\ net'.alive = net.alive /\ net'.connected = net.connected
    BY <2>1, TakeTask
  <2> QED BY <1>1, <2>2, NetOnly DEF ConnectInVain
<1>2. ASSUME DeliverMessage PROVE TransportInv'
  <2>1. net' = Popped /\ IsNext("message")
    BY <1>2 DEF DeliverMessage
  <2>2. Good(net', {}) /\ net'.alive = net.alive /\ net'.connected = net.connected
    BY <2>1, TakeTask
  <2> QED BY <1>2, <2>2, NetOnly DEF DeliverMessage
<1>3. ASSUME DisconnectDeleted PROVE TransportInv'
  <2>1. net' = Popped /\ IsNext("disconnect") /\ NextTask.channel = None
    BY <1>3 DEF DisconnectDeleted
  <2>2. /\ Good(net', {None})
        /\ net'.alive = net.alive /\ net'.connected = net.connected
    BY <2>1, TakeDisconnect
  <2>3. Good(net', {})
    <3>1. None \notin net.alive
      BY HeldChannels DEF TransportInv
    <3>2. Announced(net', {None}) => Announced(net', {})
      BY <2>2, <3>1 DEF Announced
    <3> QED BY <2>2, <3>2 DEF Good, Orderly
  <2> QED BY <1>3, <2>2, <2>3, NetOnly DEF DisconnectDeleted
<1> QED BY <1>1, <1>2, <1>3
-----------------------------------------------------------------------------
(* The channels in "gone" are deleted, and nobody holds them any more. *)
Release(gone) ==
    /\ gone \subseteq Channels
    /\ Good(net', {})
    /\ net'.alive = net.alive \ gone
    /\ net'.connected \subseteq net.connected
    /\ clientChannel' = [c \in Clients |->
          IF clientChannel[c] \in gone THEN None ELSE clientChannel[c]]
    /\ connections' = [s \in Servers |-> [id \in ClientIds |->
          IF connections[s][id] \in gone THEN None ELSE connections[s][id]]]
    /\ ForgetDead

LEMMA ReleaseHolding ==
  ASSUME TransportInv, NEW gone, Release(gone),
         \A c \in clients \ clients' : clientChannel'[c] = None,
         \A s \in servers \ servers' : \A id \in ClientIds : connections'[s][id] = None
  PROVE  Holding'
<1>1. TypeOK /\ Holding
  BY DEF TransportInv
<1>2. \A ch \in net'.alive : /\ ch \in Channels /\ ch \in net.alive /\ ch \notin gone
                             /\ owner'[ch] = owner[ch] /\ peerId'[ch] = peerId[ch]
  BY <1>1, HeldChannels DEF Release, ForgetDead
<1>3. None \notin gone
  BY NullAssumption DEF Release
<1>4. /\ \A c \in Clients : clientChannel'[c] # None =>
            clientChannel'[c] = clientChannel[c] /\ clientChannel[c] \notin gone
      /\ \A c \in Clients : clientChannel[c] \notin gone =>
            clientChannel'[c] = clientChannel[c]
      /\ \A s \in Servers, id \in ClientIds : connections'[s][id] # None =>
            connections'[s][id] = connections[s][id] /\ connections[s][id] \notin gone
      /\ \A s \in Servers, id \in ClientIds : connections[s][id] \notin gone =>
            connections'[s][id] = connections[s][id]
  BY DEF Release
<1>5. ClientsHold'
  <2> SUFFICES ASSUME NEW c \in Clients, clientChannel'[c] # None
               PROVE  /\ c \in clients'
                      /\ clientChannel'[c] \in net'.alive
                      /\ clientChannel'[c][2] = "client"
                      /\ owner'[clientChannel'[c]] = c
    BY DEF ClientsHold
  <2>1. /\ clientChannel'[c] = clientChannel[c] /\ clientChannel[c] \notin gone
        /\ clientChannel[c] # None
    BY <1>4
  <2>2. /\ c \in clients /\ clientChannel[c] \in net.alive
        /\ clientChannel[c][2] = "client" /\ owner[clientChannel[c]] = c
    BY <1>1, <2>1 DEF Holding, ClientsHold
  <2>3. clientChannel[c] \in net'.alive
    BY <2>1, <2>2 DEF Release
  <2> QED BY <1>2, <2>1, <2>2, <2>3
<1>6. ServersHold'
  <2> SUFFICES ASSUME NEW s \in Servers, NEW id \in ClientIds, connections'[s][id] # None
               PROVE  /\ s \in servers'
                      /\ connections'[s][id] \in net'.alive
                      /\ connections'[s][id][2] = "server"
                      /\ owner'[connections'[s][id]] = s
                      /\ peerId'[connections'[s][id]] = id
    BY DEF ServersHold
  <2>1. /\ connections'[s][id] = connections[s][id] /\ connections[s][id] \notin gone
        /\ connections[s][id] # None
    BY <1>4
  <2>2. /\ s \in servers /\ connections[s][id] \in net.alive
        /\ connections[s][id][2] = "server" /\ owner[connections[s][id]] = s
        /\ peerId[connections[s][id]] = id
    BY <1>1, <2>1 DEF Holding, ServersHold
  <2>3. connections[s][id] \in net'.alive
    BY <2>1, <2>2 DEF Release
  <2> QED BY <1>2, <2>1, <2>2, <2>3
<1>7. ChannelsHeld'
  <2> SUFFICES ASSUME NEW ch \in net'.alive
               PROVE  /\ ch[2] = "client" => /\ owner'[ch] \in Clients
                                             /\ clientChannel'[owner'[ch]] = ch
                      /\ ch[2] = "server" => /\ owner'[ch] \in Servers
                                             /\ peerId'[ch] \in ClientIds
                                             /\ connections'[owner'[ch]][peerId'[ch]] = ch
    BY DEF ChannelsHeld
  <2>1. /\ ch \in net.alive /\ ch \notin gone
        /\ owner'[ch] = owner[ch] /\ peerId'[ch] = peerId[ch]
    BY <1>2
  <2>2. CASE ch[2] = "client"
    <3>1. owner[ch] \in Clients /\ clientChannel[owner[ch]] = ch
      BY <1>1, <2>1, <2>2 DEF Holding, ChannelsHeld
    <3> QED BY <1>4, <2>1, <2>2, <3>1
  <2>3. CASE ch[2] = "server"
    <3>1. /\ owner[ch] \in Servers /\ peerId[ch] \in ClientIds
          /\ connections[owner[ch]][peerId[ch]] = ch
      BY <1>1, <2>1, <2>3 DEF Holding, ChannelsHeld
    <3> QED BY <1>4, <2>1, <2>3, <3>1
  <2> QED BY <2>2, <2>3
<1> QED BY <1>5, <1>6, <1>7 DEF Holding

(* The members that Release leaves open. *)
RegistriesTyped ==
    /\ clients \subseteq Clients
    /\ clientId \in [Clients -> ClientIds \cup {None}]
    /\ clientsMap \in [ClientIds -> Clients \cup {None}]
    /\ servers \subseteq Servers
    /\ serverId \in [Servers -> ServerIds \cup {None}]
    /\ serversMap \in [ServerIds -> Servers \cup {None}]

LEMMA ReleaseInv ==
  ASSUME TransportInv, NEW gone, Release(gone),
         RegistriesTyped', NoIdleIds', RegistriesExact',
         \A c \in clients \ clients' : clientChannel'[c] = None,
         \A s \in servers \ servers' : \A id \in ClientIds : connections'[s][id] = None,
         \A c \in Clients : clientChannel'[c] \in net'.connected => clientId'[c] = clientId[c],
         \A s \in servers' : serverId'[s] = serverId[s]
  PROVE  TransportInv'
<1>1. TypeOK /\ Good(net', {})
  BY DEF TransportInv, Release
<1>2. /\ net' \in Nets /\ net'.connected \subseteq net'.alive
      /\ \A ch \in net'.connected : Peer(ch) \in net'.connected
  BY <1>1 DEF Good, Orderly, Paired
<1>3. Holding'
  BY ReleaseHolding
<1>4. TypeOK'
  <2>1. clientChannel' \in [Clients -> Channels \cup {None}]
    BY <1>1 DEF Release, TypeOK
  <2>2. connections' \in [Servers -> [ClientIds -> Channels \cup {None}]]
    BY <1>1 DEF Release, TypeOK
  <2>3. /\ owner' \in [Channels -> Clients \cup Servers \cup {None}]
        /\ peerId' \in [Channels -> ClientIds \cup ServerIds \cup {None}]
    BY <1>1 DEF Release, ForgetDead, TypeOK
  <2> QED BY <1>2, <2>1, <2>2, <2>3 DEF TypeOK, RegistriesTyped
<1>5. \A ch \in net'.alive : /\ ch \in Channels
                             /\ owner'[ch] = owner[ch] /\ peerId'[ch] = peerId[ch]
  BY <1>2 DEF Release, ForgetDead, Nets
<1>6. \A ch \in net'.connected : ch # None
  BY <1>2, <1>5, NullAssumption
<1>7. PeersAgree'
  <2> SUFFICES ASSUME NEW c \in Clients, clientChannel'[c] \in net'.connected
               PROVE  /\ clientId'[c] # None
                      /\ peerId'[Peer(clientChannel'[c])] = clientId'[c]
                      /\ peerId'[clientChannel'[c]] = serverId'[owner'[Peer(clientChannel'[c])]]
    BY DEF PeersAgree
  <2> DEFINE ch == clientChannel'[c]
             peer == Peer(ch)
  <2>1. ch \in net'.alive /\ peer \in net'.alive /\ ch \in net.connected
    BY <1>2 DEF Release
  <2>2. ch = clientChannel[c]
    BY <1>6 DEF Release
  <2>3. peer[2] = "server"
    <3>1. ch[2] = "client"
      BY <1>3, <1>6 DEF Holding, ClientsHold
    <3> QED BY <3>1, <2>1, <1>5, PeerProperties
  <2>4. owner'[peer] \in servers'
    <3>1. /\ owner'[peer] \in Servers /\ peerId'[peer] \in ClientIds
          /\ connections'[owner'[peer]][peerId'[peer]] = peer
      BY <1>3, <2>1, <2>3 DEF Holding, ChannelsHeld
    <3>2. peer # None
      BY <1>2, <1>6
    <3> QED BY <1>3, <3>1, <3>2 DEF Holding, ServersHold
  <2>5. /\ clientId[c] # None
        /\ peerId[peer] = clientId[c]
        /\ peerId[ch] = serverId[owner[peer]]
    BY <2>1, <2>2 DEF TransportInv, PeersAgree
  <2>6. serverId'[owner'[peer]] = serverId[owner[peer]]
    BY <1>5, <2>1, <2>4
  <2>7. clientId'[c] = clientId[c] /\ peerId'[peer] = peerId[peer] /\ peerId'[ch] = peerId[ch]
    BY <1>5, <2>1
  <2> QED BY <2>5, <2>6, <2>7
<1>8. ClosedServerHasNoConnection'
  <2> SUFFICES ASSUME NEW s \in Servers, NEW id \in ClientIds, serverId'[s] = None,
                      connections'[s][id] \in net'.connected
               PROVE  FALSE
    BY DEF ClosedServerHasNoConnection
  <2>1. connections'[s][id] # None
    BY <1>6
  <2>2. s \in servers' /\ connections'[s][id] = connections[s][id]
    BY <1>3, <2>1 DEF Holding, ServersHold, Release
  <2>3. serverId[s] = None /\ connections[s][id] \in net.connected
    BY <2>2 DEF Release
  <2> QED BY <2>3 DEF TransportInv, ClosedServerHasNoConnection
<1> QED BY <1>1, <1>3, <1>4, <1>7, <1>8 DEF TransportInv

(* A channel has one holder only. *)
LEMMA HeldAlone ==
  ASSUME TransportInv
  PROVE  /\ \A c, x \in Clients :
               clientChannel[c] # None /\ clientChannel[x] = clientChannel[c] => x = c
         /\ \A s, x \in Servers, id, i \in ClientIds :
               connections[s][id] # None /\ connections[x][i] = connections[s][id]
                   => x = s /\ i = id
         /\ \A c \in Clients, s \in Servers, id \in ClientIds :
               clientChannel[c] # None => connections[s][id] # clientChannel[c]
  BY DEF TransportInv, Holding, ClientsHold, ServersHold

LEMMA DeleteClientInv ==
  ASSUME TransportInv, NEW c \in Clients, DeleteClient(c)
  PROVE  TransportInv'
<1> DEFINE gone == {clientChannel[c]} \ {None}
<1>1. TypeOK /\ Good(net, {}) /\ NoIdleIds /\ RegistriesExact
  BY DEF TransportInv
<1>2. /\ gone \subseteq Channels
      /\ Good(net', {}) /\ net'.alive = net.alive \ gone
      /\ net'.connected \subseteq net.connected
  <2>1. CASE clientChannel[c] = None
    BY <1>1, <2>1 DEF DeleteClient
  <2>2. CASE clientChannel[c] # None
    <3> DEFINE ch == clientChannel[c]
               left == {}
    <3>1. ch \in Channels
      BY <1>1, <2>2, HeldChannels
    <3>2. left = {} \ {ch} /\ net' = Delete(net, ch)
      BY <2>2 DEF DeleteClient
    <3>3. gone = {ch}
      BY <2>2
    <3> HIDE DEF ch, left, gone
    <3>4. /\ Good(net', left)
          /\ net'.alive = net.alive \ {ch}
          /\ net'.connected = net.connected \ {ch, Peer(ch)}
      BY <1>1, <3>1, <3>2, DeleteGood
    <3> QED BY <3>1, <3>3, <3>4 DEF left
  <2> QED BY <2>1, <2>2
<1>3. clientChannel' = [x \in Clients |->
         IF clientChannel[x] \in gone THEN None ELSE clientChannel[x]]
  <2>1. \A x \in Clients : clientChannel[x] \in gone <=> x = c /\ clientChannel[c] # None
    BY HeldAlone
  <2>2. clientChannel' = [clientChannel EXCEPT ![c] = None]
    BY DEF DeleteClient
  <2> HIDE DEF gone
  <2> QED BY <1>1, <2>1, <2>2 DEF TypeOK
<1>4. connections' = [s \in Servers |-> [id \in ClientIds |->
         IF connections[s][id] \in gone THEN None ELSE connections[s][id]]]
  <2>1. \A s \in Servers, id \in ClientIds : connections[s][id] \notin gone
    BY HeldAlone
  <2>2. connections' = connections
    BY DEF DeleteClient, serverVars
  <2> HIDE DEF gone
  <2> QED BY <1>1, <2>1, <2>2 DEF TypeOK
<1>5. Release(gone)
  BY <1>2, <1>3, <1>4 DEF Release, DeleteClient
<1> HIDE DEF gone
<1>6. /\ clients' = clients \ {c}
      /\ clientId' = [clientId EXCEPT ![c] = None]
      /\ clientsMap' = [id \in ClientIds |-> IF id = clientId[c] THEN None ELSE clientsMap[id]]
      /\ servers' = servers /\ serverId' = serverId /\ serversMap' = serversMap
      /\ c \in clients
  BY <1>1 DEF DeleteClient, Unregister, serverVars, TypeOK
<1>7. RegistriesTyped'
  BY <1>1, <1>6 DEF RegistriesTyped, TypeOK
<1>8. NoIdleIds'
  BY <1>1, <1>6 DEF NoIdleIds, TypeOK
<1>9. RegistriesExact'
  <2>1. \A id \in ClientIds, x \in Clients :
           clientsMap'[id] = x <=> x \in clients' /\ clientId'[x] = id
    <3> SUFFICES ASSUME NEW id \in ClientIds, NEW x \in Clients
                 PROVE  clientsMap'[id] = x <=> x \in clients' /\ clientId'[x] = id
      OBVIOUS
    <3>1. /\ clientsMap[id] = x <=> x \in clients /\ clientId[x] = id
          /\ clientsMap[id] = c <=> clientId[c] = id
      BY <1>1, <1>6 DEF RegistriesExact
    <3>2. x # None /\ id # None
      BY OwnersAssumption, NoneAssumption
    <3>3. CASE x = c
      BY <1>1, <1>6, <3>1, <3>2, <3>3 DEF TypeOK
    <3>4. CASE x # c
      BY <1>1, <1>6, <3>1, <3>2, <3>4 DEF TypeOK
    <3> QED BY <3>3, <3>4
  <2> QED BY <1>1, <1>6, <2>1 DEF RegistriesExact
<1>10. /\ \A x \in clients \ clients' : clientChannel'[x] = None
       /\ \A s \in servers \ servers' : \A id \in ClientIds : connections'[s][id] = None
       /\ \A s \in servers' : serverId'[s] = serverId[s]
  BY <1>1, <1>6 DEF DeleteClient, TypeOK
<1>11. \A x \in Clients : clientChannel'[x] \in net'.connected => clientId'[x] = clientId[x]
  <2>1. None \notin net'.connected
    BY <1>2, NullAssumption DEF Good, Orderly, Nets
  <2>2. clientChannel'[c] = None
    BY <1>1 DEF DeleteClient, TypeOK
  <2> QED BY <1>1, <1>6, <2>1, <2>2 DEF TypeOK
<1> QED BY <1>5, <1>7, <1>8, <1>9, <1>10, <1>11, ReleaseInv
-----------------------------------------------------------------------------
(* Steps in which nobody gets or loses a channel, but objects and           *)
(* identifiers may come and go.                                             *)
LEMMA MapsInv ==
  ASSUME TransportInv, Good(net', {}), net'.alive = net.alive,
         net'.connected \subseteq net.connected,
         UNCHANGED <<clientChannel, connections, owner, peerId>>,
         RegistriesTyped', NoIdleIds', RegistriesExact',
         clients \subseteq clients', servers \subseteq servers',
         \A c \in Clients : clientChannel[c] \in net'.connected => clientId'[c] = clientId[c],
         \A s \in Servers, id \in ClientIds :
            connections[s][id] \in net'.connected => serverId'[s] = serverId[s]
  PROVE  TransportInv'
<1>1. TypeOK /\ Good(net', {})
  BY DEF TransportInv
<1>2. /\ net' \in Nets /\ net'.connected \subseteq net'.alive
      /\ \A ch \in net'.connected : Peer(ch) \in net'.connected
  BY <1>1 DEF Good, Orderly, Paired
<1>3. Holding'
  BY DEF TransportInv, Holding, ClientsHold, ServersHold, ChannelsHeld
<1>4. TypeOK'
  BY <1>1, <1>2 DEF TypeOK, RegistriesTyped
<1>5. PeersAgree'
  <2> SUFFICES ASSUME NEW c \in Clients, clientChannel[c] \in net'.connected
               PROVE  /\ clientId'[c] # None
                      /\ peerId[Peer(clientChannel[c])] = clientId'[c]
                      /\ peerId[clientChannel[c]] = serverId'[owner[Peer(clientChannel[c])]]
    BY DEF PeersAgree
  <2> DEFINE ch == clientChannel[c]
             peer == Peer(ch)
  <2>1. ch \in net'.alive /\ peer \in net'.connected /\ ch \in Channels
    BY <1>2 DEF Nets
  <2>2. ch # None /\ peer \in net.alive
    BY <1>2, <2>1, NullAssumption
  <2>3. peer[2] = "server"
    <3>1. ch[2] = "client"
      BY <2>2 DEF TransportInv, Holding, ClientsHold
    <3> QED BY <3>1, <2>1, PeerProperties
  <2>4. /\ owner[peer] \in Servers /\ peerId[peer] \in ClientIds
        /\ connections[owner[peer]][peerId[peer]] = peer
    BY <2>2, <2>3 DEF TransportInv, Holding, ChannelsHeld
  <2>5. serverId'[owner[peer]] = serverId[owner[peer]]
    BY <2>1, <2>4
  <2>6. /\ clientId[c] # None
        /\ peerId[peer] = clientId[c]
        /\ peerId[ch] = serverId[owner[peer]]
    BY DEF TransportInv, PeersAgree
  <2> QED BY <2>5, <2>6
<1>6. ClosedServerHasNoConnection'
  BY DEF TransportInv, ClosedServerHasNoConnection
<1> QED BY <1>1, <1>3, <1>4, <1>5, <1>6 DEF TransportInv

LEMMA NewClientInv ==
  ASSUME TransportInv, NEW c \in Clients, NewClient(c)
  PROVE  TransportInv'
<1>1. /\ TypeOK /\ Good(net, {}) /\ NoIdleIds /\ RegistriesExact
  BY DEF TransportInv
<1>2. /\ clients' = clients \cup {c} /\ c \notin clients
      /\ UNCHANGED <<net, clientId, clientChannel, clientsMap>>
      /\ UNCHANGED <<servers, serverId, connections, serversMap, owner, peerId>>
  BY DEF NewClient, serverVars, channelVars
<1>3. RegistriesTyped'
  BY <1>1, <1>2 DEF RegistriesTyped, TypeOK
<1>4. NoIdleIds'
  BY <1>1, <1>2 DEF NoIdleIds
<1>5. RegistriesExact'
  BY <1>1, <1>2, NoneAssumption DEF RegistriesExact, NoIdleIds
<1>6. Good(net', {})
  BY <1>1, <1>2
<1> QED BY <1>2, <1>3, <1>4, <1>5, <1>6, MapsInv

LEMMA NewServerInv ==
  ASSUME TransportInv, NEW s \in Servers, NewServer(s)
  PROVE  TransportInv'
<1>1. /\ TypeOK /\ Good(net, {}) /\ NoIdleIds /\ RegistriesExact
  BY DEF TransportInv
<1>2. /\ servers' = servers \cup {s} /\ s \notin servers
      /\ UNCHANGED <<net, clients, clientId, clientChannel, clientsMap>>
      /\ UNCHANGED <<serverId, connections, serversMap, owner, peerId>>
  BY DEF NewServer, clientVars, channelVars
<1>3. RegistriesTyped'
  BY <1>1, <1>2 DEF RegistriesTyped, TypeOK
<1>4. NoIdleIds'
  BY <1>1, <1>2 DEF NoIdleIds
<1>5. RegistriesExact'
  BY <1>1, <1>2, NoneAssumption DEF RegistriesExact, NoIdleIds
<1>6. Good(net', {})
  BY <1>1, <1>2
<1> QED BY <1>2, <1>3, <1>4, <1>5, <1>6, MapsInv

LEMMA BindInv ==
  ASSUME TransportInv, NEW c \in Clients, NEW new \in ClientIds, Bind(c, new)
  PROVE  TransportInv'
<1>1. /\ TypeOK /\ Good(net, {}) /\ NoIdleIds /\ RegistriesExact
  BY DEF TransportInv
<1>2. /\ c \in clients /\ clientsMap[new] = None /\ clientChannel[c] = None
      /\ clientId' = [clientId EXCEPT ![c] = new]
      /\ UNCHANGED <<net, clients, clientChannel>>
      /\ UNCHANGED <<servers, serverId, connections, serversMap, owner, peerId>>
  BY DEF Bind, serverVars, channelVars
<1>3. /\ clientsMap' \in [ClientIds -> Clients \cup {None}]
      /\ \A id \in ClientIds : clientsMap'[id] =
            IF id = new THEN c ELSE IF id = clientId[c] THEN None ELSE clientsMap[id]
  BY <1>1 DEF Bind, Unregister, TypeOK
<1>4. RegistriesTyped'
  BY <1>1, <1>2, <1>3 DEF RegistriesTyped, TypeOK
<1>5. NoIdleIds'
  BY <1>1, <1>2 DEF NoIdleIds, TypeOK
<1>6. RegistriesExact'
  <2>1. ASSUME NEW id \in ClientIds, NEW x \in Clients
        PROVE  clientsMap'[id] = x <=> x \in clients' /\ clientId'[x] = id
    <3>1. /\ clientsMap[id] = x <=> x \in clients /\ clientId[x] = id
          /\ clientsMap[id] = c <=> clientId[c] = id
          /\ clientsMap[new] = x <=> x \in clients /\ clientId[x] = new
      BY <1>1, <1>2 DEF RegistriesExact
    <3>2. x # None /\ id # None
      BY OwnersAssumption, NoneAssumption
    <3>3. CASE x = c
      BY <1>1, <1>2, <1>3, <3>1, <3>2, <3>3 DEF TypeOK
    <3>4. CASE x # c
      BY <1>1, <1>2, <1>3, <3>1, <3>2, <3>4 DEF TypeOK
    <3> QED BY <3>3, <3>4
  <2> QED BY <1>1, <1>2, <2>1 DEF RegistriesExact
<1>7. Good(net', {})
  BY <1>1, <1>2
<1>8. \A x \in Clients : clientChannel[x] \in net'.connected => clientId'[x] = clientId[x]
  <2>1. None \notin net.connected
    BY <1>1, NullAssumption DEF TypeOK, Nets
  <2> QED BY <1>1, <1>2, <2>1 DEF TypeOK
<1> QED BY <1>2, <1>4, <1>5, <1>6, <1>7, <1>8, MapsInv

LEMMA ListenInv ==
  ASSUME TransportInv, NEW s \in Servers, NEW new \in ServerIds, Listen(s, new)
  PROVE  TransportInv'
<1>1. /\ TypeOK /\ Good(net, {}) /\ NoIdleIds /\ RegistriesExact
  BY DEF TransportInv
<1>2. /\ s \in servers /\ serversMap[new] = None /\ serverId[s] = None
      /\ serverId' = [serverId EXCEPT ![s] = new]
      /\ serversMap' = [serversMap EXCEPT ![new] = s]
      /\ UNCHANGED <<net, clients, clientId, clientChannel, clientsMap>>
      /\ UNCHANGED <<servers, connections, owner, peerId>>
  BY DEF Listen, clientVars, channelVars
<1>3. RegistriesTyped'
  BY <1>1, <1>2 DEF RegistriesTyped, TypeOK
<1>4. NoIdleIds'
  BY <1>1, <1>2 DEF NoIdleIds, TypeOK
<1>5. RegistriesExact'
  <2>1. ASSUME NEW id \in ServerIds, NEW x \in Servers
        PROVE  serversMap'[id] = x <=> x \in servers' /\ serverId'[x] = id
    <3>1. /\ serversMap[id] = x <=> x \in servers /\ serverId[x] = id
          /\ serversMap[new] = x <=> x \in servers /\ serverId[x] = new
      BY <1>1 DEF RegistriesExact
    <3>2. x # None /\ id # None
      BY OwnersAssumption, NoneAssumption
    <3>3. CASE x = s
      BY <1>1, <1>2, <3>1, <3>2, <3>3 DEF TypeOK
    <3>4. CASE x # s
      BY <1>1, <1>2, <3>1, <3>2, <3>4 DEF TypeOK
    <3> QED BY <3>3, <3>4
  <2> QED BY <1>1, <1>2, <2>1 DEF RegistriesExact
<1>6. Good(net', {})
  BY <1>1, <1>2
<1>7. \A x \in Servers, id \in ClientIds :
         connections[x][id] \in net'.connected => serverId'[x] = serverId[x]
  BY <1>1, <1>2 DEF TransportInv, ClosedServerHasNoConnection, TypeOK
<1> QED BY <1>2, <1>3, <1>4, <1>5, <1>6, <1>7, MapsInv
-----------------------------------------------------------------------------
(* An order of the connections of a server lists each of them. *)
LEMMA OrdersProperties ==
  ASSUME TypeOK, NEW s \in Servers, NEW order \in Orders(s)
  PROVE  /\ order \in Seq(Channels)
         /\ \A i \in 1 .. Len(order) : \E id \in ClientIds : order[i] = connections[s][id]
         /\ \A id \in ClientIds : connections[s][id] # None =>
               \E i \in 1 .. Len(order) : order[i] = connections[s][id]
<1> DEFINE all == {connections[s][id] : id \in ClientIds}
           chs == all \ {None}
<1>1. connections[s] \in [ClientIds -> Channels \cup {None}]
  BY DEF TypeOK
<1>2. IsFiniteSet(all)
  <2>1. connections[s] \in Surjection(ClientIds, all)
    BY <1>1 DEF Surjection
  <2> QED BY <2>1, ClientIdsAssumption, FS_Surjection
<1>3. IsFiniteSet(chs)
  BY <1>2, FS_RemoveElement
<1>4. chs \subseteq Channels
  BY <1>1
<1> DEFINE k == Cardinality(chs)
<1>5. k \in Nat
  BY <1>3, FS_CardinalityType
<1>6. /\ order \in [1 .. k -> chs]
      /\ \A ch \in chs : \E i \in 1 .. k : order[i] = ch
  BY DEF Orders, Bijection, Injection, Surjection
<1> HIDE DEF k
<1>7. order \in Seq(Channels) /\ Len(order) = k
  <2>1. order = [i \in 1 .. k |-> order[i]] /\ \A i \in 1 .. k : order[i] \in Channels
    BY <1>4, <1>6
  <2> QED BY <1>5, <2>1
<1> QED BY <1>6, <1>7

(* The registry of servers after one of them gave up its identifier. *)
LEMMA UnregisterServer ==
  ASSUME TransportInv, NEW s \in Servers,
         servers' = servers \/ servers' = servers \ {s}, s \in servers,
         serversMap' = Unregister(serversMap, serverId[s]),
         serverId' = [serverId EXCEPT ![s] = None],
         UNCHANGED <<clients, clientId, clientsMap>>
  PROVE  RegistriesTyped' /\ NoIdleIds' /\ RegistriesExact'
<1>1. /\ TypeOK /\ NoIdleIds /\ RegistriesExact
  BY DEF TransportInv
<1>2. serversMap' = [id \in ServerIds |-> IF id = serverId[s] THEN None ELSE serversMap[id]]
  BY <1>1 DEF Unregister, TypeOK
<1>3. RegistriesTyped'
  BY <1>1, <1>2 DEF RegistriesTyped, TypeOK
<1>4. NoIdleIds'
  BY <1>1 DEF NoIdleIds, TypeOK
<1>5. RegistriesExact'
  <2>1. ASSUME NEW id \in ServerIds, NEW x \in Servers
        PROVE  serversMap'[id] = x <=> x \in servers' /\ serverId'[x] = id
    <3>1. /\ serversMap[id] = x <=> x \in servers /\ serverId[x] = id
          /\ serversMap[id] = s <=> serverId[s] = id
      BY <1>1 DEF RegistriesExact
    <3>2. x # None /\ id # None
      BY OwnersAssumption, NoneAssumption
    <3>3. CASE x = s
      BY <1>1, <1>2, <3>1, <3>2, <3>3 DEF TypeOK
    <3>4. CASE x # s
      BY <1>1, <1>2, <3>1, <3>2, <3>4 DEF TypeOK
    <3> QED BY <3>3, <3>4
  <2> QED BY <1>1, <2>1 DEF RegistriesExact
<1> QED BY <1>3, <1>4, <1>5

LEMMA ServerDisconnectInv ==
  ASSUME TransportInv, NEW s \in Servers, ServerDisconnect(s)
  PROVE  TransportInv'
<1>1. /\ TypeOK /\ Good(net, {})
  BY DEF TransportInv
<1>2. PICK order \in Orders(s) : net' = DisconnectAll(net, order)
  BY DEF ServerDisconnect
<1>3. /\ order \in Seq(Channels)
      /\ \A id \in ClientIds : connections[s][id] # None =>
            \E i \in 1 .. Len(order) : order[i] = connections[s][id]
  BY <1>1, OrdersProperties
<1>4. /\ Good(net', {})
      /\ net'.alive = net.alive
      /\ net'.connected \subseteq net.connected
      /\ \A i \in 1 .. Len(order) : order[i] \notin net'.connected
  BY <1>1, <1>2, <1>3, DisconnectAllGood
<1>5. /\ UNCHANGED <<clients, clientId, clientChannel, clientsMap>>
      /\ UNCHANGED <<servers, connections, owner, peerId>>
      /\ serversMap' = Unregister(serversMap, serverId[s])
      /\ serverId' = [serverId EXCEPT ![s] = None]
      /\ s \in servers
  BY DEF ServerDisconnect, clientVars, channelVars
<1>6. RegistriesTyped' /\ NoIdleIds' /\ RegistriesExact'
  BY <1>5, UnregisterServer
<1>7. \A x \in Servers, id \in ClientIds :
         connections[x][id] \in net'.connected => serverId'[x] = serverId[x]
  <2>1. None \notin net'.connected
    BY <1>4, NullAssumption DEF Good, Orderly, Nets
  <2> QED BY <1>1, <1>3, <1>4, <1>5, <2>1 DEF TypeOK
<1> QED BY <1>4, <1>5, <1>6, <1>7, MapsInv

LEMMA DeleteServerInv ==
  ASSUME TransportInv, NEW s \in Servers, DeleteServer(s)
  PROVE  TransportInv'
<1> DEFINE gone == {connections[s][id] : id \in ClientIds} \ {None}
<1>1. /\ TypeOK /\ Good(net, {})
  BY DEF TransportInv
<1>2. PICK order \in Orders(s) : net' = DeleteAll(net, order)
  BY DEF DeleteServer
<1>3. /\ order \in Seq(Channels)
      /\ \A i \in 1 .. Len(order) : \E id \in ClientIds : order[i] = connections[s][id]
      /\ \A id \in ClientIds : connections[s][id] # None =>
            \E i \in 1 .. Len(order) : order[i] = connections[s][id]
  BY <1>1, OrdersProperties
<1>4. /\ Good(net', {})
      /\ \A ch : ch \in net'.alive <=>
            ch \in net.alive /\ \A i \in 1 .. Len(order) : order[i] # ch
      /\ net'.connected \subseteq net.connected
  BY <1>1, <1>2, <1>3, DeleteAllGood
<1>5. \A i \in 1 .. Len(order) : order[i] \in Channels /\ order[i] # None
  BY <1>3, ElementOfSeq, NullAssumption
<1>6. \A ch : ch \in gone <=> \E i \in 1 .. Len(order) : order[i] = ch
  BY <1>3, <1>5
<1>7. gone \subseteq Channels /\ net'.alive = net.alive \ gone
  <2> HIDE DEF gone
  <2> QED BY <1>4, <1>5, <1>6
<1>8. /\ \A c \in Clients : clientChannel[c] \notin gone
      /\ \A x \in Servers, id \in ClientIds :
            connections[x][id] \in gone <=> x = s /\ connections[x][id] # None
  BY HeldAlone
<1> HIDE DEF gone
<1>9. /\ UNCHANGED <<clients, clientId, clientChannel, clientsMap>>
      /\ servers' = servers \ {s} /\ s \in servers
      /\ serversMap' = Unregister(serversMap, serverId[s])
      /\ serverId' = [serverId EXCEPT ![s] = None]
      /\ connections' = [connections EXCEPT ![s] = [id \in ClientIds |-> None]]
      /\ ForgetDead
  BY DEF DeleteServer, clientVars
<1>10. clientChannel' = [c \in Clients |->
         IF clientChannel[c] \in gone THEN None ELSE clientChannel[c]]
  BY <1>1, <1>8, <1>9 DEF TypeOK
<1>11. connections' = [x \in Servers |-> [id \in ClientIds |->
         IF connections[x][id] \in gone THEN None ELSE connections[x][id]]]
  <2>1. \A x \in Servers : connections'[x] =
           [id \in ClientIds |-> IF connections[x][id] \in gone THEN None ELSE connections[x][id]]
    <3> SUFFICES ASSUME NEW x \in Servers
                 PROVE  connections'[x] = [id \in ClientIds |->
                          IF connections[x][id] \in gone THEN None ELSE connections[x][id]]
      OBVIOUS
    <3>1. CASE x = s
      <4>1. connections'[x] = [id \in ClientIds |-> None]
        BY <1>1, <1>9, <3>1 DEF TypeOK
      <4>2. \A id \in ClientIds : (IF connections[x][id] \in gone THEN None ELSE connections[x][id]) = None
        BY <1>8, <3>1
      <4> QED BY <4>1, <4>2
    <3>2. CASE x # s
      <4>1. connections'[x] = connections[x]
        BY <1>1, <1>9, <3>2 DEF TypeOK
      <4>2. connections[x] = [id \in ClientIds |-> connections[x][id]]
        BY <1>1 DEF TypeOK
      <4>3. \A id \in ClientIds : connections[x][id] \notin gone
        BY <1>8, <3>2
      <4> QED BY <4>1, <4>2, <4>3
    <3> QED BY <3>1, <3>2
  <2>2. connections' = [x \in Servers |-> connections'[x]]
    BY <1>1, <1>9 DEF TypeOK
  <2> QED BY <2>1, <2>2
<1>12. Release(gone)
  BY <1>4, <1>7, <1>9, <1>10, <1>11 DEF Release
<1>13. RegistriesTyped' /\ NoIdleIds' /\ RegistriesExact'
  BY <1>9, UnregisterServer
<1>14. /\ \A c \in clients \ clients' : clientChannel'[c] = None
       /\ \A c \in Clients : clientChannel'[c] \in net'.connected => clientId'[c] = clientId[c]
       /\ \A x \in servers' : serverId'[x] = serverId[x]
  BY <1>1, <1>9 DEF TypeOK
<1>15. \A x \in servers \ servers' : \A id \in ClientIds : connections'[x][id] = None
  BY <1>1, <1>9 DEF TypeOK
<1> QED BY <1>12, <1>13, <1>14, <1>15, ReleaseInv

(* The channel whose DisconnectTask was taken is deleted by its owner. *)
LEMMA ReleaseOne ==
  ASSUME TransportInv, IsNext("disconnect"), NEW ch, ch = NextTask.channel, ch # None,
         net' = Delete(Popped, ch)
  PROVE  /\ ch \in net.alive /\ ch \in Channels
         /\ Good(net', {}) /\ net'.alive = net.alive \ {ch}
         /\ net'.connected \subseteq net.connected
         /\ Moved(net', net, 1)
<1> DEFINE told == {ch}
           left == {}
           popped == Popped
<1>1. ch \in net.alive /\ ch \in Channels
  BY TakeDisconnect, HeldChannels DEF TransportInv
<1>2. /\ Good(popped, told)
      /\ popped.alive = net.alive /\ popped.connected = net.connected
      /\ Moved(popped, net, 1)
  BY TakeDisconnect
<1>3. left = told \ {ch} /\ net' = Delete(popped, ch)
  OBVIOUS
<1> HIDE DEF told, left, popped
<1>4. /\ Good(net', left)
      /\ net'.alive = popped.alive \ {ch}
      /\ net'.connected = popped.connected \ {ch, Peer(ch)}
      /\ Moved(net', popped, 0)
  BY <1>1, <1>2, <1>3, DeleteGood, DeleteMoved
<1>5. net \in Nets /\ popped \in Nets /\ net' \in Nets
  BY <1>2, <1>4 DEF TransportInv, Good, Orderly
<1>6. Moved(net', net, 1)
  BY <1>2, <1>4, <1>5, MovedTwice
<1> QED BY <1>1, <1>2, <1>4, <1>6 DEF left

LEMMA DisconnectClientSideInv ==
  ASSUME TransportInv, DisconnectClientSide
  PROVE  TransportInv'
<1> DEFINE ch == NextTask.channel
           c == owner[ch]
           gone == {ch}
<1>1. /\ TypeOK /\ Good(net, {}) /\ NoIdleIds /\ RegistriesExact
  BY DEF TransportInv
<1>2. ch # None /\ c \in Clients /\ IsNext("disconnect")
  BY DEF DisconnectClientSide
<1>3. ch \in net.alive
  BY <1>2, TakeDisconnect
<1>4. clientChannel[c] = ch
  <2>1. ch[2] = "client" \/ ch[2] = "server"
    BY <1>1, <1>3, HeldChannels, PeerProperties
  <2> QED BY <1>2, <1>3, <2>1, ClassesAssumption DEF TransportInv, Holding, ChannelsHeld
<1>5. /\ net' = Delete(Popped, ch)
      /\ clientChannel' = [clientChannel EXCEPT ![c] = None]
      /\ ForgetDead
      /\ UNCHANGED <<clients, clientId, clientsMap>>
      /\ UNCHANGED <<servers, serverId, connections, serversMap>>
  BY <1>2, <1>4 DEF DisconnectClientSide, serverVars
<1> HIDE DEF ch, c
<1>6. /\ ch \in Channels
      /\ Good(net', {}) /\ net'.alive = net.alive \ gone
      /\ net'.connected \subseteq net.connected
  BY <1>2, <1>5, ReleaseOne DEF ch
<1>7. clientChannel' = [x \in Clients |->
         IF clientChannel[x] \in gone THEN None ELSE clientChannel[x]]
  <2>1. \A x \in Clients : clientChannel[x] \in gone <=> x = c
    BY <1>2, <1>4, HeldAlone
  <2> HIDE DEF gone
  <2> QED BY <1>1, <1>5, <2>1 DEF TypeOK
<1>8. connections' = [s \in Servers |-> [id \in ClientIds |->
         IF connections[s][id] \in gone THEN None ELSE connections[s][id]]]
  <2>1. \A s \in Servers, id \in ClientIds : connections[s][id] \notin gone
    BY <1>2, <1>4, HeldAlone
  <2> HIDE DEF gone
  <2> QED BY <1>1, <1>5, <2>1 DEF TypeOK
<1>9. Release(gone)
  BY <1>5, <1>6, <1>7, <1>8 DEF Release
<1>10. RegistriesTyped' /\ NoIdleIds' /\ RegistriesExact'
  BY <1>1, <1>5 DEF RegistriesTyped, NoIdleIds, RegistriesExact, TypeOK
<1> HIDE DEF gone
<1> QED BY <1>5, <1>9, <1>10, ReleaseInv

LEMMA DisconnectServerSideInv ==
  ASSUME TransportInv, DisconnectServerSide
  PROVE  TransportInv'
<1> DEFINE ch == NextTask.channel
           s == owner[ch]
           id == peerId[ch]
           gone == {ch}
<1>1. /\ TypeOK /\ Good(net, {}) /\ NoIdleIds /\ RegistriesExact
  BY DEF TransportInv
<1>2. ch # None /\ s \in Servers /\ IsNext("disconnect")
  BY DEF DisconnectServerSide
<1>3. ch \in net.alive
  BY <1>2, TakeDisconnect
<1>4. connections[s][id] = ch /\ id \in ClientIds
  <2>1. ch[2] = "client" \/ ch[2] = "server"
    BY <1>1, <1>3, HeldChannels, PeerProperties
  <2> QED BY <1>2, <1>3, <2>1, ClassesAssumption DEF TransportInv, Holding, ChannelsHeld
<1>5. /\ net' = Delete(Popped, ch)
      /\ connections' = [connections EXCEPT ![s][id] = None]
      /\ ForgetDead
      /\ UNCHANGED <<clients, clientId, clientChannel, clientsMap>>
      /\ UNCHANGED <<servers, serverId, serversMap>>
  BY <1>2, <1>4 DEF DisconnectServerSide, clientVars
<1> HIDE DEF ch, s, id
<1>6. /\ ch \in Channels
      /\ Good(net', {}) /\ net'.alive = net.alive \ gone
      /\ net'.connected \subseteq net.connected
  BY <1>2, <1>5, ReleaseOne DEF ch
<1>7. clientChannel' = [x \in Clients |->
         IF clientChannel[x] \in gone THEN None ELSE clientChannel[x]]
  <2>1. \A x \in Clients : clientChannel[x] \notin gone
    BY <1>2, <1>4, HeldAlone
  <2> HIDE DEF gone
  <2> QED BY <1>1, <1>5, <2>1 DEF TypeOK
<1>8. connections' = [x \in Servers |-> [i \in ClientIds |->
         IF connections[x][i] \in gone THEN None ELSE connections[x][i]]]
  <2>1. \A x \in Servers, i \in ClientIds : connections[x][i] \in gone <=> x = s /\ i = id
    BY <1>2, <1>4, HeldAlone
  <2> HIDE DEF gone
  <2>2. connections' = [x \in Servers |-> [i \in ClientIds |->
           IF x = s /\ i = id THEN None ELSE connections[x][i]]]
    BY <1>1, <1>2, <1>4, <1>5 DEF TypeOK
  <2> QED BY <2>1, <2>2
<1>9. Release(gone)
  BY <1>5, <1>6, <1>7, <1>8 DEF Release
<1>10. RegistriesTyped' /\ NoIdleIds' /\ RegistriesExact'
  BY <1>1, <1>5 DEF RegistriesTyped, NoIdleIds, RegistriesExact, TypeOK
<1> HIDE DEF gone
<1> QED BY <1>5, <1>9, <1>10, ReleaseInv
-----------------------------------------------------------------------------
(* Each side of a new pair is kept if its holder has room for it; they stay *)
(* connected if both are kept.                                              *)
LEMMA ConnectNet ==
  ASSUME TransportInv, IsNext("connect"), NEW link \in FreeLinks(net),
         NEW s \in Servers, NEW c \in Clients, NEW cid \in ClientIds,
         NEW serverSide, serverSide = <<link, "server">>,
         NEW clientSide, clientSide = <<link, "client">>,
         NEW set, set = ClientAfterSet(ServerAfterAdd(Connect(Popped, link), s, cid, serverSide),
                                       c, clientSide)
  PROVE  /\ Good(set, {})
         /\ \A ch : ch \in set.alive <=>
               \/ ch \in net.alive
               \/ ch = serverSide /\ connections[s][cid] = None
               \/ ch = clientSide /\ clientChannel[c] = None
         /\ set.connected = IF connections[s][cid] = None /\ clientChannel[c] = None
                            THEN net.connected \cup {serverSide, clientSide}
                            ELSE net.connected
         /\ serverSide \in Channels /\ serverSide \notin net.alive
         /\ clientSide \in Channels /\ clientSide \notin net.alive
         /\ serverSide # clientSide /\ Peer(clientSide) = serverSide
         /\ Moved(set, net, 1)
<1> DEFINE both == {<<link, "client">>, <<link, "server">>}
           told == {}
           popped == Popped
           new == Connect(popped, link)
           added == ServerAfterAdd(new, s, cid, serverSide)
<1>1. /\ Good(popped, told)
      /\ popped.alive = net.alive /\ popped.connected = net.connected
  BY TakeTask
<1>2. link \in FreeLinks(popped)
  BY <1>1 DEF FreeLinks
<1>3. both = {<<link, "client">>, <<link, "server">>} /\ both = {serverSide, clientSide}
  OBVIOUS
<1> HIDE DEF both, told, popped
<1>4. /\ Good(new, told)
      /\ new.alive = net.alive \cup both
      /\ new.connected = net.connected \cup both
      /\ both \subseteq Channels
      /\ both \cap net.alive = {}
  BY <1>1, <1>2, <1>3, ConnectGood
<1>16. /\ net \in Nets /\ popped \in Nets /\ new \in Nets
       /\ Moved(popped, net, 1) /\ new.queue = popped.queue
  BY <1>1, <1>4, TakeTask DEF TransportInv, Good, Orderly, popped, new, Connect
<1>5. set = ClientAfterSet(added, c, clientSide)
  BY DEF popped
<1> HIDE DEF new, added
<1>6. /\ serverSide # clientSide
      /\ serverSide \in Channels /\ clientSide \in Channels
      /\ serverSide \notin net.alive /\ clientSide \notin net.alive
      /\ Peer(clientSide) = serverSide /\ Peer(serverSide) = clientSide
  BY <1>3, <1>4 DEF Peer
<1>7. net.connected \subseteq net.alive
  BY DEF TransportInv, Good, Orderly
<1>8. told = told \ {serverSide} /\ told = told \ {clientSide}
  BY DEF told
<1>9. /\ Good(added, told)
      /\ added.alive = IF connections[s][cid] = None
                       THEN net.alive \cup both ELSE net.alive \cup {clientSide}
      /\ added.connected = IF connections[s][cid] = None
                           THEN net.connected \cup both ELSE net.connected
  <2>1. CASE connections[s][cid] = None
    <3>1. added = new
      BY <2>1 DEF added, ServerAfterAdd, Filed
    <3> QED BY <2>1, <3>1, <1>4
  <2>2. CASE connections[s][cid] # None
    <3>1. connections[s][cid] \in net.alive
      BY <2>2 DEF TransportInv, Holding, ServersHold
    <3>2. added = Delete(new, serverSide)
      BY <2>2, <3>1, <1>6 DEF added, ServerAfterAdd, Filed
    <3>3. /\ Good(added, told)
          /\ added.alive = new.alive \ {serverSide}
          /\ added.connected = new.connected \ {serverSide, Peer(serverSide)}
      BY <3>2, <1>4, <1>6, <1>8, DeleteGood
    <3>4. added.alive = net.alive \cup {clientSide}
      BY <3>3, <1>3, <1>4, <1>6
    <3>5. added.connected = net.connected
      BY <3>3, <1>3, <1>4, <1>6, <1>7
    <3> QED BY <2>2, <3>3, <3>4, <3>5
  <2> QED BY <2>1, <2>2
<1>10. /\ Good(set, told)
       /\ clientChannel[c] = None => set = added
       /\ clientChannel[c] # None => /\ set.alive = added.alive \ {clientSide}
                                     /\ set.connected = added.connected \ both
  <2>1. CASE clientChannel[c] = None
    BY <2>1, <1>5, <1>9 DEF ClientAfterSet
  <2>2. CASE clientChannel[c] # None
    <3>1. set = Delete(added, clientSide)
      BY <2>2, <1>5 DEF ClientAfterSet
    <3>2. /\ Good(set, told)
          /\ set.alive = added.alive \ {clientSide}
          /\ set.connected = added.connected \ {clientSide, Peer(clientSide)}
      <4>1. Good(added, told) /\ clientSide \in Channels /\ told = told \ {clientSide}
        BY <1>6, <1>8, <1>9
      <4>2. /\ Good(Delete(added, clientSide), told)
            /\ Delete(added, clientSide).alive = added.alive \ {clientSide}
            /\ Delete(added, clientSide).connected
                 = added.connected \ {clientSide, Peer(clientSide)}
        BY <4>1, DeleteGood
      <4> QED BY <3>1, <4>2
    <3> QED BY <2>2, <3>2, <1>3, <1>6
  <2> QED BY <2>1, <2>2
<1>11. \A ch : ch \in set.alive <=>
          \/ ch \in net.alive
          \/ ch = serverSide /\ connections[s][cid] = None
          \/ ch = clientSide /\ clientChannel[c] = None
  BY <1>3, <1>6, <1>9, <1>10
<1>12. both \cap net.connected = {}
  BY <1>4, <1>7
<1>13. set.connected = IF connections[s][cid] = None /\ clientChannel[c] = None
                       THEN net.connected \cup both ELSE net.connected
  <2>1. CASE clientChannel[c] = None
    BY <2>1, <1>9, <1>10
  <2>2. CASE clientChannel[c] # None
    <3>1. added.connected \ both = net.connected
      BY <1>9, <1>12
    <3> QED BY <2>2, <3>1, <1>10
  <2> QED BY <2>1, <2>2
<1>14. Moved(added, popped, 0)
  <2>1. CASE added = new
    BY <2>1, <1>16, SameQueueMoved
  <2>2. CASE added = Delete(new, serverSide)
    <3>1. Moved(added, new, 0) /\ added \in Nets
      BY <2>2, <1>4, <1>6, <1>9, DeleteMoved DEF Good, Orderly
    <3>2. \A i \in DOMAIN new.queue : new.queue[i] = popped.queue[i]
      BY <1>16
    <3> QED BY <3>1, <3>2, <1>16 DEF Moved, IsWaiting
  <2> QED BY <2>1, <2>2 DEF added, ServerAfterAdd
<1>15. Moved(set, net, 1)
  <2>1. added \in Nets /\ set \in Nets
    BY <1>9, <1>10 DEF Good, Orderly
  <2>2. \A i \in DOMAIN net.queue :
           IsWaiting(net, i) => net.queue[i].channel \in popped.alive
    BY <1>1 DEF TransportInv, Good, Orderly, PointersAlive, IsWaiting
  <2>3. Moved(added, net, 1)
    BY <2>1, <2>2, <1>14, <1>16, MovedThrough
  <2>4. CASE clientChannel[c] = None
    BY <2>3, <2>4, <1>10
  <2>5. CASE clientChannel[c] # None
    <3>1. set = Delete(added, clientSide)
      BY <2>5, <1>5 DEF ClientAfterSet
    <3>2. Moved(set, added, 0) /\ set.alive \subseteq added.alive
      BY <3>1, <2>5, <1>6, <1>9, <1>10, DeleteMoved
    <3> QED BY <2>1, <2>3, <3>2, <1>16, MovedTwice
  <2> QED BY <2>4, <2>5
<1> QED BY <1>3, <1>6, <1>10, <1>11, <1>13, <1>15 DEF told

LEMMA ConnectToServerInv ==
  ASSUME TransportInv, ConnectToServer
  PROVE  TransportInv'
<1> DEFINE cid == NextTask.clientId
           sid == NextTask.serverId
           s == serversMap[sid]
           c == clientsMap[cid]
<1>1. /\ TypeOK /\ Good(net, {}) /\ NoIdleIds /\ RegistriesExact /\ Holding
      /\ net.connected \subseteq net.alive
      /\ \A ch \in net.connected : Peer(ch) \in net.connected
  BY DEF TransportInv, Good, Orderly, Paired
<1>2. IsNext("connect")
  BY DEF ConnectToServer
<1>3. cid \in ClientIds /\ sid \in ServerIds
  <2>1. NextTask \in Tasks /\ NextTask.task = "connect"
    BY <1>2, TakeTask
  <2> QED BY <2>1 DEF Tasks
<1>4. PICK link \in FreeLinks(net) :
        LET serverSide == <<link, "server">>
            clientSide == <<link, "client">>
            added == ServerAfterAdd(Connect(Popped, link), s, cid, serverSide)
            set == ClientAfterSet(added, c, clientSide)
            kept == {serverSide, clientSide} \cap set.alive
        IN  /\ s # None /\ c # None
            /\ net' = set
            /\ connections' = [connections EXCEPT ![s][cid] = Filed(s, cid, serverSide)]
            /\ clientChannel' = [clientChannel EXCEPT ![c] = IF @ = None THEN clientSide ELSE @]
            /\ owner' = [ch \in Channels |->
                           IF ch \notin kept THEN owner[ch]
                           ELSE IF ch = serverSide THEN s ELSE c]
            /\ peerId' = [ch \in Channels |->
                            IF ch \notin kept THEN peerId[ch]
                            ELSE IF ch = serverSide THEN cid ELSE sid]
  BY DEF ConnectToServer
<1> DEFINE serverSide == <<link, "server">>
           clientSide == <<link, "client">>
           filed == connections[s][cid] = None
           stored == clientChannel[c] = None
           kept == {serverSide, clientSide} \cap net'.alive
<1>5. /\ s \in Servers /\ s \in servers /\ serverId[s] = sid
      /\ c \in Clients /\ c \in clients /\ clientId[c] = cid
      /\ cid # None /\ sid # None
  BY <1>1, <1>3, <1>4, NoneAssumption DEF TypeOK, RegistriesExact
<1>6. net' = ClientAfterSet(ServerAfterAdd(Connect(Popped, link), s, cid, serverSide),
                            c, clientSide)
  BY <1>4
<1>7. serverSide = <<link, "server">> /\ clientSide = <<link, "client">>
  OBVIOUS
<1>8. /\ connections' = [connections EXCEPT ![s][cid] = Filed(s, cid, serverSide)]
      /\ clientChannel' = [clientChannel EXCEPT ![c] = IF @ = None THEN clientSide ELSE @]
      /\ owner' = [ch \in Channels |-> IF ch \notin kept THEN owner[ch]
                                       ELSE IF ch = serverSide THEN s ELSE c]
      /\ peerId' = [ch \in Channels |-> IF ch \notin kept THEN peerId[ch]
                                        ELSE IF ch = serverSide THEN cid ELSE sid]
  BY <1>4
<1>9. UNCHANGED <<clients, clientId, clientsMap, servers, serverId, serversMap>>
  BY DEF ConnectToServer
<1> HIDE DEF cid, sid, s, c, serverSide, clientSide
<1>10. /\ Good(net', {})
       /\ \A ch : ch \in net'.alive <=> \/ ch \in net.alive
                                        \/ ch = serverSide /\ filed
                                        \/ ch = clientSide /\ stored
       /\ net'.connected = IF filed /\ stored
                            THEN net.connected \cup {serverSide, clientSide}
                            ELSE net.connected
       /\ serverSide \in Channels /\ serverSide \notin net.alive
       /\ clientSide \in Channels /\ clientSide \notin net.alive
       /\ serverSide # clientSide /\ Peer(clientSide) = serverSide
  BY <1>2, <1>3, <1>5, <1>6, <1>7, ConnectNet
<1>11. serverSide[2] = "server" /\ clientSide[2] = "client"
  BY DEF serverSide, clientSide
<1> HIDE DEF filed, stored
<1>12. /\ serverSide \in kept <=> filed
       /\ clientSide \in kept <=> stored
       /\ \A ch \in net.alive : ch \notin kept
  BY <1>10
<1> HIDE DEF kept
<1>13. \A ch \in net.alive : /\ owner'[ch] = owner[ch] /\ peerId'[ch] = peerId[ch]
                             /\ ch \in Channels /\ ch # None
                             /\ ch # serverSide /\ ch # clientSide
  BY <1>1, <1>8, <1>10, <1>12, HeldChannels
<1>14. /\ filed => owner'[serverSide] = s /\ peerId'[serverSide] = cid
       /\ stored => owner'[clientSide] = c /\ peerId'[clientSide] = sid
  BY <1>8, <1>10, <1>12
<1>15. \A x \in Clients : clientChannel'[x] =
          IF x = c /\ stored THEN clientSide ELSE clientChannel[x]
  BY <1>1, <1>5, <1>8 DEF TypeOK, stored
<1>16. \A x \in Servers, i \in ClientIds : connections'[x][i] =
          IF x = s /\ i = cid /\ filed THEN serverSide ELSE connections[x][i]
  BY <1>1, <1>3, <1>5, <1>8 DEF TypeOK, Filed, filed
<1>17. None \notin net'.connected /\ None \notin net.connected
  BY <1>1, <1>10, NullAssumption DEF TypeOK, Nets
<1>18. TypeOK'
  <2>1. net' \in Nets
    BY <1>10 DEF Good, Orderly
  <2>2. clientChannel' \in [Clients -> Channels \cup {None}]
    BY <1>1, <1>8, <1>10 DEF TypeOK
  <2>3. connections' \in [Servers -> [ClientIds -> Channels \cup {None}]]
    <3>1. Filed(s, cid, serverSide) \in Channels \cup {None}
      BY <1>1, <1>3, <1>5, <1>10 DEF Filed, TypeOK
    <3> QED BY <1>1, <1>3, <1>5, <1>8, <3>1 DEF TypeOK
  <2>4. /\ owner' \in [Channels -> Clients \cup Servers \cup {None}]
        /\ peerId' \in [Channels -> ClientIds \cup ServerIds \cup {None}]
    BY <1>1, <1>3, <1>5, <1>8 DEF TypeOK
  <2> QED BY <1>1, <1>9, <2>1, <2>2, <2>3, <2>4 DEF TypeOK
<1>19. ClientsHold'
  <2> SUFFICES ASSUME NEW x \in Clients, clientChannel'[x] # None
               PROVE  /\ x \in clients' /\ clientChannel'[x] \in net'.alive
                      /\ clientChannel'[x][2] = "client" /\ owner'[clientChannel'[x]] = x
    BY DEF ClientsHold
  <2>1. CASE x = c /\ stored
    BY <2>1, <1>5, <1>9, <1>10, <1>11, <1>14, <1>15
  <2>2. CASE ~(x = c /\ stored)
    <3>1. clientChannel'[x] = clientChannel[x]
      BY <2>2, <1>15
    <3>2. /\ x \in clients /\ clientChannel[x] \in net.alive
          /\ clientChannel[x][2] = "client" /\ owner[clientChannel[x]] = x
      BY <3>1, <1>1 DEF Holding, ClientsHold
    <3> QED BY <3>1, <3>2, <1>9, <1>10, <1>13
  <2> QED BY <2>1, <2>2
<1>20. ServersHold'
  <2> SUFFICES ASSUME NEW x \in Servers, NEW i \in ClientIds, connections'[x][i] # None
               PROVE  /\ x \in servers' /\ connections'[x][i] \in net'.alive
                      /\ connections'[x][i][2] = "server"
                      /\ owner'[connections'[x][i]] = x /\ peerId'[connections'[x][i]] = i
    BY DEF ServersHold
  <2>1. CASE x = s /\ i = cid /\ filed
    BY <2>1, <1>5, <1>9, <1>10, <1>11, <1>14, <1>16
  <2>2. CASE ~(x = s /\ i = cid /\ filed)
    <3>1. connections'[x][i] = connections[x][i]
      BY <2>2, <1>16
    <3>2. /\ x \in servers /\ connections[x][i] \in net.alive
          /\ connections[x][i][2] = "server"
          /\ owner[connections[x][i]] = x /\ peerId[connections[x][i]] = i
      BY <3>1, <1>1 DEF Holding, ServersHold
    <3> QED BY <3>1, <3>2, <1>9, <1>10, <1>13
  <2> QED BY <2>1, <2>2
<1>21. ChannelsHeld'
  <2> SUFFICES ASSUME NEW ch \in net'.alive
               PROVE  /\ ch[2] = "client" => /\ owner'[ch] \in Clients
                                             /\ clientChannel'[owner'[ch]] = ch
                      /\ ch[2] = "server" => /\ owner'[ch] \in Servers
                                             /\ peerId'[ch] \in ClientIds
                                             /\ connections'[owner'[ch]][peerId'[ch]] = ch
    BY DEF ChannelsHeld
  <2>1. CASE ch \in net.alive
    <3>1. /\ owner'[ch] = owner[ch] /\ peerId'[ch] = peerId[ch]
          /\ ch # None
      BY <2>1, <1>13
    <3>2. CASE ch[2] = "client"
      <4>1. owner[ch] \in Clients /\ clientChannel[owner[ch]] = ch
        BY <2>1, <3>2, <1>1 DEF Holding, ChannelsHeld
      <4>2. clientChannel'[owner[ch]] = ch
        BY <4>1, <3>1, <1>15 DEF stored
      <4> QED BY <3>1, <3>2, <4>1, <4>2
    <3>3. CASE ch[2] = "server"
      <4>1. /\ owner[ch] \in Servers /\ peerId[ch] \in ClientIds
            /\ connections[owner[ch]][peerId[ch]] = ch
        BY <2>1, <3>3, <1>1 DEF Holding, ChannelsHeld
      <4>2. connections'[owner[ch]][peerId[ch]] = ch
        BY <4>1, <3>1, <1>16 DEF filed
      <4> QED BY <3>1, <3>3, <4>1, <4>2
    <3> QED BY <3>2, <3>3
  <2>2. CASE ch = serverSide /\ filed
    BY <2>2, <1>3, <1>5, <1>11, <1>14, <1>16
  <2>3. CASE ch = clientSide /\ stored
    BY <2>3, <1>5, <1>11, <1>14, <1>15
  <2> QED BY <2>1, <2>2, <2>3, <1>10
<1>22. NoIdleIds' /\ RegistriesExact'
  BY <1>1, <1>9 DEF NoIdleIds, RegistriesExact
<1>23. PeersAgree'
  <2> SUFFICES ASSUME NEW x \in Clients, clientChannel'[x] \in net'.connected
               PROVE  /\ clientId'[x] # None
                      /\ peerId'[Peer(clientChannel'[x])] = clientId'[x]
                      /\ peerId'[clientChannel'[x]] = serverId'[owner'[Peer(clientChannel'[x])]]
    BY DEF PeersAgree
  <2>1. CASE x = c /\ stored
    <3>1. clientChannel'[x] = clientSide
      BY <2>1, <1>15
    <3>2. filed
      BY <3>1, <1>1, <1>10
    <3> QED BY <2>1, <3>1, <3>2, <1>5, <1>9, <1>10, <1>14
  <2>2. CASE ~(x = c /\ stored)
    <3> DEFINE ch == clientChannel[x]
    <3>1. clientChannel'[x] = ch
      BY <2>2, <1>15
    <3>2. ch # None
      BY <3>1, <1>17
    <3>3. ch \in net.alive
      BY <3>2, <1>1 DEF Holding, ClientsHold
    <3>4. ch \in net.connected
      BY <3>1, <3>3, <1>10, <1>13
    <3>5. Peer(ch) \in net.alive
      BY <3>4, <1>1
    <3>6. /\ clientId[x] # None /\ peerId[Peer(ch)] = clientId[x]
          /\ peerId[ch] = serverId[owner[Peer(ch)]]
      BY <3>4 DEF TransportInv, PeersAgree
    <3> HIDE DEF ch
    <3> QED BY <3>1, <3>3, <3>5, <3>6, <1>9, <1>13
  <2> QED BY <2>1, <2>2
<1>24. ClosedServerHasNoConnection'
  <2> SUFFICES ASSUME NEW x \in Servers, NEW i \in ClientIds, serverId'[x] = None,
                      connections'[x][i] \in net'.connected
               PROVE  FALSE
    BY DEF ClosedServerHasNoConnection
  <2>1. serverId[x] = None /\ x # s
    BY <1>5, <1>9
  <2>2. connections'[x][i] = connections[x][i]
    BY <2>1, <1>16
  <2>3. connections[x][i] \in net.alive
    BY <2>2, <1>1, <1>17 DEF Holding, ServersHold
  <2>4. connections[x][i] \in net.connected
    BY <2>2, <2>3, <1>10, <1>13
  <2> QED BY <2>1, <2>4 DEF TransportInv, ClosedServerHasNoConnection
<1> QED BY <1>10, <1>18, <1>19, <1>20, <1>21, <1>22, <1>23, <1>24 DEF TransportInv, Holding
-----------------------------------------------------------------------------
LEMMA NextInv == TransportInv /\ [Next]_vars => TransportInv'
<1> SUFFICES ASSUME TransportInv, [Next]_vars PROVE TransportInv'
  OBVIOUS
<1>1. ASSUME NEW c \in Clients, ClientCall(c) PROVE TransportInv'
  BY <1>1, NewClientInv, DeleteClientInv, BindInv, NetCallsInv DEF ClientCall
<1>2. ASSUME NEW s \in Servers, ServerCall(s) PROVE TransportInv'
  BY <1>2, NewServerInv, DeleteServerInv, ListenInv, ServerDisconnectInv, NetCallsInv
     DEF ServerCall
<1>3. ASSUME ProcessTask PROVE TransportInv'
  BY <1>3, QuietTasksInv, ConnectToServerInv, DisconnectClientSideInv,
     DisconnectServerSideInv DEF ProcessTask
<1>4. CASE UNCHANGED vars
  BY <1>4, UnchangedInv
<1> QED BY <1>1, <1>2, <1>3, <1>4 DEF Next

LEMMA Invariance == Spec => []TransportInv
<1> QED BY InitInv, NextInv, PTL DEF Spec
-----------------------------------------------------------------------------
(* A step that sends nothing leaves every message that is on its way with    *)
(* the same receiver and the same sender, k places further.  A sender goes   *)
(* away before its message was received only if its client is deleted.       *)
SendersKept ==
    \A w \in Waiting(net') :
        /\ w.channel[2] = "server" /\ Peer(w.channel) \in net.alive
        /\ owner[Peer(w.channel)] \in clients'
        => Peer(w.channel) \in net'.alive

(* Both sides of a new link are new, and name the client alike. *)
NewLinksAgree ==
    \A ch \in net'.alive \ net.alive :
        /\ Peer(ch) \notin net.alive
        /\ ch[2] = "client" /\ Peer(ch) \in net'.alive =>
              peerId'[Peer(ch)] = clientId'[owner'[ch]]

Calm(k) ==
    /\ Moved(net', net, k)
    /\ \A ch \in net.alive \cap net'.alive :
          owner'[ch] = owner[ch] /\ peerId'[ch] = peerId[ch]
    /\ \A ch \in net.alive : Peer(ch) \in net'.alive => Peer(ch) \in net.alive
    /\ SendersKept
    /\ NewLinksAgree

LEMMA CalmIfUnowned ==
  ASSUME TransportInv, NEW k, Moved(net', net, k),
         net'.alive \subseteq net.alive, ForgetDead \/ UNCHANGED channelVars,
         SendersKept
  PROVE  Calm(k)
<1>1. \A ch \in net.alive : ch \in Channels
  BY HeldChannels DEF TransportInv
<1> QED BY <1>1 DEF Calm, ForgetDead, channelVars, NewLinksAgree

(* Server sides may go: nobody waits for what they sent. *)
LEMMA ClientSidesStay ==
  ASSUME TransportInv, NEW k, Moved(net', net, k),
         \A ch \in net.alive : ch[2] = "client" => ch \in net'.alive
  PROVE  SendersKept
<1> SUFFICES ASSUME NEW w \in Waiting(net'), w.channel[2] = "server",
                    Peer(w.channel) \in net.alive
             PROVE  Peer(w.channel) \in net'.alive
  BY DEF SendersKept
<1>1. w \in Waiting(net)
  BY MovedWaiting
<1>2. w.channel \in net.alive
  BY <1>1 DEF Waiting, IsWaiting, TransportInv, Good, Orderly, PointersAlive
<1>3. Peer(w.channel)[2] = "client"
  BY <1>2, HeldChannels, PeerProperties DEF TransportInv
<1> QED BY <1>3

LEMMA CalmCalls ==
  ASSUME TransportInv
  PROVE  /\ \A c \in Clients : NewClient(c) \/ DeleteClient(c) => Calm(0)
         /\ \A c \in Clients, id \in ClientIds : Bind(c, id) => Calm(0)
         /\ \A c \in Clients, sid \in ServerIds : ConnectToHost(c, sid) => Calm(0)
         /\ \A s \in Servers : NewServer(s) \/ DeleteServer(s) => Calm(0)
         /\ \A s \in Servers, sid \in ServerIds : Listen(s, sid) => Calm(0)
<1>1. TypeOK /\ Good(net, {}) /\ net \in Nets
  BY DEF TransportInv, Good, Orderly
<1>0. ASSUME Moved(net', net, 0), net'.alive = net.alive,
             ForgetDead \/ UNCHANGED channelVars
      PROVE  Calm(0)
  BY <1>0, ClientSidesStay, CalmIfUnowned
<1>2. ASSUME NEW c \in Clients, DeleteClient(c) PROVE Calm(0)
  <2>1. CASE clientChannel[c] = None
    BY <1>0, <1>1, <1>2, <2>1, SameQueueMoved DEF DeleteClient
  <2>2. CASE clientChannel[c] # None
    <3> DEFINE ch == clientChannel[c]
               told == {}
               left == {}
    <3>1. ch \in Channels /\ net' = Delete(net, ch)
      BY <1>1, <1>2, <2>2, HeldChannels DEF DeleteClient
    <3>2. Good(net, told) /\ left = told \ {ch}
      BY <1>1
    <3>3. owner[ch] = c /\ c \notin clients'
      BY <1>2, <2>2 DEF DeleteClient, TransportInv, Holding, ClientsHold
    <3> HIDE DEF ch, told, left
    <3>4. net'.alive = net.alive \ {ch} /\ Moved(net', net, 0)
      BY <3>1, <3>2, DeleteGood, DeleteMoved
    <3>5. SendersKept
      BY <3>3, <3>4 DEF SendersKept
    <3> QED BY <1>2, <3>4, <3>5, CalmIfUnowned DEF DeleteClient
  <2> QED BY <2>1, <2>2
<1>3. ASSUME NEW c \in Clients, NEW sid \in ServerIds, ConnectToHost(c, sid) PROVE Calm(0)
  <2> DEFINE task == ConnectTask(clientId[c], sid)
  <2>1. task \in Tasks /\ task.task = "connect"
    BY <1>1, <1>3, TaskTypes, TaskFields DEF TypeOK, ConnectToHost
  <2>2. net' = Schedule(net, task)
    BY <1>3 DEF ConnectToHost
  <2> HIDE DEF task
  <2>3. net'.alive = net.alive /\ Moved(net', net, 0)
    BY <1>1, <2>1, <2>2, ScheduleProperties, ScheduleMoved
  <2> QED BY <1>0, <1>3, <2>3 DEF ConnectToHost
<1>4. ASSUME NEW s \in Servers, DeleteServer(s) PROVE Calm(0)
  <2>1. PICK order \in Orders(s) : net' = DeleteAll(net, order)
    BY <1>4 DEF DeleteServer
  <2>2. /\ order \in Seq(Channels)
        /\ \A i \in 1 .. Len(order) : \E id \in ClientIds : order[i] = connections[s][id]
    BY <1>1, <2>1, OrdersProperties
  <2>3. /\ \A ch : ch \in net'.alive <=>
               ch \in net.alive /\ \A i \in 1 .. Len(order) : order[i] # ch
        /\ Moved(net', net, 0)
    BY <1>1, <2>1, <2>2, DeleteAllGood
  <2>4. ASSUME NEW ch \in net.alive, ch[2] = "client" PROVE ch \in net'.alive
    <3>1. ch # None
      BY <1>1, HeldChannels
    <3>2. \A id \in ClientIds : connections[s][id] # ch
      BY <2>4, <3>1 DEF TransportInv, Holding, ServersHold
    <3> QED BY <2>2, <2>3, <3>2
  <2>5. SendersKept
    BY <2>3, <2>4, ClientSidesStay
  <2> QED BY <1>4, <2>3, <2>5, CalmIfUnowned DEF DeleteServer
<1>5. ASSUME net' = net, UNCHANGED channelVars PROVE Calm(0)
  BY <1>0, <1>1, <1>5, SameQueueMoved
<1> QED BY <1>2, <1>3, <1>4, <1>5 DEF NewClient, Bind, NewServer, Listen

(* The messages of a link have been received when its end is reported. *)
LEMMA ReleaseCalm ==
  ASSUME TransportInv, IsNext("disconnect"), NEW ch, ch = NextTask.channel, ch # None,
         net' = Delete(Popped, ch), ForgetDead
  PROVE  Calm(1)
<1>1. /\ ch \in net.alive /\ net'.alive = net.alive \ {ch} /\ Moved(net', net, 1)
  BY ReleaseOne
<1>2. /\ Good(net, {}) /\ net.queue # <<>> /\ net.queue[1].task = "disconnect"
      /\ net \in Nets /\ net' \in Nets
  BY ReleaseOne DEF TransportInv, IsNext, NextTask, Good, Orderly
<1>3. net.queue[1] = DisconnectTask(ch) /\ 1 \in DOMAIN net.queue
  <2>1. net.queue \in Seq(Tasks)
    BY <1>2 DEF Nets
  <2>2. Len(net.queue) \in Nat /\ Len(net.queue) # 0 /\ DOMAIN net.queue = 1 .. Len(net.queue)
    BY <1>2, <2>1, LenProperties, EmptySeq
  <2>3. 1 \in DOMAIN net.queue /\ net.queue[1] \in Tasks
    BY <2>1, <2>2, ElementOfSeq
  <2> QED BY <1>2, <2>3 DEF Tasks, DisconnectTask, NextTask
<1>4. ASSUME NEW w \in Waiting(net'), Peer(w.channel) = ch PROVE FALSE
  <2>1. PICK i \in DOMAIN net'.queue : w = net'.queue[i] /\ IsWaiting(net', i)
    BY DEF Waiting
  <2>2. i + 1 \in DOMAIN net.queue /\ net.queue[i + 1] = w
    BY <1>1, <2>1 DEF Moved
  <2>3. w.task = "message" /\ w.channel \in net.alive
    BY <1>1, <2>1, <2>2 DEF IsWaiting, TransportInv, Good, Orderly, PointersAlive
  <2>4. w.channel = Peer(ch)
    BY <1>4, <2>3, HeldChannels, PeerProperties DEF TransportInv
  <2>5. IsMessageOfLink(net.queue[i + 1], ch)
    BY <2>2, <2>3, <2>4 DEF IsMessageOfLink, IsMessageFor
  <2>6. i + 1 < 1
    BY <1>1, <1>2, <1>3, <2>2, <2>5 DEF Good, Orderly, AnnouncedLast
  <2>7. i \in Nat \ {0}
    BY <1>2, Places
  <2> QED BY <2>6, <2>7
<1>5. SendersKept
  BY <1>1, <1>4 DEF SendersKept
<1> QED BY <1>1, <1>5, CalmIfUnowned

LEMMA ConnectCalm ==
  ASSUME TransportInv, ConnectToServer
  PROVE  Calm(1)
<1>1. TypeOK
  BY DEF TransportInv
<1>2. IsNext("connect")
  BY DEF ConnectToServer
<1>3. NextTask.clientId \in ClientIds /\ NextTask.serverId \in ServerIds
  BY <1>2, TakeTask DEF Tasks
<1> DEFINE cid == NextTask.clientId
           sid == NextTask.serverId
           s == serversMap[sid]
           c == clientsMap[cid]
<1>4. PICK link \in FreeLinks(net) :
        LET serverSide == <<link, "server">>
            clientSide == <<link, "client">>
            added == ServerAfterAdd(Connect(Popped, link), s, cid, serverSide)
            set == ClientAfterSet(added, c, clientSide)
            kept == {serverSide, clientSide} \cap set.alive
        IN  /\ s # None /\ c # None
            /\ net' = set
            /\ owner' = [ch \in Channels |->
                           IF ch \notin kept THEN owner[ch]
                           ELSE IF ch = serverSide THEN s ELSE c]
            /\ peerId' = [ch \in Channels |->
                            IF ch \notin kept THEN peerId[ch]
                            ELSE IF ch = serverSide THEN cid ELSE sid]
  BY DEF ConnectToServer
<1> DEFINE serverSide == <<link, "server">>
           clientSide == <<link, "client">>
<1>5. net' = ClientAfterSet(ServerAfterAdd(Connect(Popped, link), s, cid, serverSide),
                            c, clientSide)
  BY <1>4
<1>6. /\ owner' = [ch \in Channels |->
                     IF ch \notin {serverSide, clientSide} \cap net'.alive THEN owner[ch]
                     ELSE IF ch = serverSide THEN s ELSE c]
      /\ peerId' = [ch \in Channels |->
                      IF ch \notin {serverSide, clientSide} \cap net'.alive THEN peerId[ch]
                      ELSE IF ch = serverSide THEN cid ELSE sid]
  BY <1>4
<1>7. s \in Servers /\ c \in Clients /\ cid \in ClientIds
  BY <1>1, <1>3, <1>4 DEF TypeOK
<1>8. clientId' = clientId /\ clientId[c] = cid
  BY <1>7 DEF ConnectToServer, TransportInv, RegistriesExact
<1>9. serverSide = <<link, "server">> /\ clientSide = <<link, "client">>
  OBVIOUS
<1> HIDE DEF serverSide, clientSide, cid, sid, s, c
<1>10. /\ Good(net', {})
       /\ \A ch : ch \in net'.alive <=>
                \/ ch \in net.alive
                \/ ch = serverSide /\ connections[s][cid] = None
                \/ ch = clientSide /\ clientChannel[c] = None
       /\ net'.connected = IF connections[s][cid] = None /\ clientChannel[c] = None
                            THEN net.connected \cup {serverSide, clientSide}
                            ELSE net.connected
       /\ serverSide \in Channels /\ serverSide \notin net.alive
       /\ clientSide \in Channels /\ clientSide \notin net.alive
       /\ serverSide # clientSide /\ Peer(clientSide) = serverSide
       /\ Moved(net', net, 1)
  BY <1>2, <1>5, <1>7, <1>9, ConnectNet
<1>11. \A ch \in net.alive : ch \in Channels
  BY <1>1, HeldChannels
<1>12. \A ch \in net.alive : Peer(ch) # serverSide /\ Peer(ch) # clientSide
  BY <1>10, <1>11, PeerProperties
<1>13. Peer(serverSide) = clientSide /\ serverSide[2] = "server"
  BY <1>9, <1>10, PeerProperties
<1>14. SendersKept
  BY <1>10, ClientSidesStay
<1>15. NewLinksAgree
  <2> SUFFICES ASSUME NEW ch \in net'.alive \ net.alive
               PROVE  /\ Peer(ch) \notin net.alive
                      /\ ch[2] = "client" /\ Peer(ch) \in net'.alive =>
                            peerId'[Peer(ch)] = clientId'[owner'[ch]]
    BY DEF NewLinksAgree
  <2>1. CASE ch = serverSide
    BY <1>10, <1>13, <2>1
  <2>2. CASE ch = clientSide
    <3>1. owner'[ch] = c
      BY <1>6, <1>10, <2>2
    <3>2. serverSide \in net'.alive => peerId'[serverSide] = cid
      BY <1>6, <1>10
    <3> QED BY <1>8, <1>10, <2>2, <3>1, <3>2
  <2> QED BY <1>10, <2>1, <2>2
<1>16. \A ch \in net.alive : owner'[ch] = owner[ch] /\ peerId'[ch] = peerId[ch]
  BY <1>6, <1>10, <1>11
<1> QED BY <1>10, <1>12, <1>14, <1>15, <1>16 DEF Calm

LEMMA CalmTasks ==
  ASSUME TransportInv
  PROVE  /\ ConnectInVain \/ DeliverMessage \/ DisconnectDeleted => Calm(1)
         /\ DisconnectClientSide \/ DisconnectServerSide => Calm(1)
         /\ ConnectToServer => Calm(1)
<1>1. ASSUME ConnectInVain \/ DeliverMessage \/ DisconnectDeleted PROVE Calm(1)
  <2>1. PICK kind \in {"connect", "message", "disconnect"} : IsNext(kind)
    BY <1>1 DEF ConnectInVain, DeliverMessage, DisconnectDeleted
  <2>2. net' = Popped /\ UNCHANGED channelVars
    BY <1>1 DEF ConnectInVain, DeliverMessage, DisconnectDeleted
  <2>3. net'.alive = net.alive /\ Moved(net', net, 1)
    BY <2>1, <2>2, TakeTask, TakeDisconnect
  <2> QED BY <2>2, <2>3, ClientSidesStay, CalmIfUnowned
<1>2. ASSUME DisconnectClientSide \/ DisconnectServerSide PROVE Calm(1)
  <2> DEFINE ch == NextTask.channel
  <2>1. IsNext("disconnect") /\ ch # None /\ ForgetDead
    BY <1>2 DEF DisconnectClientSide, DisconnectServerSide
  <2>2. ch \in net.alive
    BY <2>1, TakeDisconnect
  <2>3. ch[2] = "client" \/ ch[2] = "server"
    BY <2>2, HeldChannels, PeerProperties DEF TransportInv
  <2>4. CASE DisconnectClientSide
    <3>1. clientChannel[owner[ch]] = ch
      BY <2>2, <2>3, <2>4, ClassesAssumption
         DEF DisconnectClientSide, TransportInv, Holding, ChannelsHeld
    <3>2. net' = Delete(Popped, ch)
      BY <2>1, <2>4, <3>1 DEF DisconnectClientSide
    <3> QED BY <2>1, <3>2, ReleaseCalm
  <2>5. CASE DisconnectServerSide
    <3>1. connections[owner[ch]][peerId[ch]] = ch
      BY <2>2, <2>3, <2>5, ClassesAssumption
         DEF DisconnectServerSide, TransportInv, Holding, ChannelsHeld
    <3>2. net' = Delete(Popped, ch)
      BY <2>1, <2>5, <3>1 DEF DisconnectServerSide
    <3> QED BY <2>1, <3>2, ReleaseCalm
  <2> QED BY <1>2, <2>4, <2>5
<1> QED BY <1>1, <1>2, ConnectCalm

(* The server side of a link names the client by the identifier it has now,  *)
(* also after the link broke: no identifier changes while a channel is held. *)
LinksAgree ==
    \A ch \in net.alive : ch[2] = "client" /\ Peer(ch) \in net.alive =>
        peerId[Peer(ch)] = clientId[owner[ch]]

LEMMA CalmLinks ==
  ASSUME TransportInv, TransportInv', LinksAgree, NEW k, Calm(k),
         \A c \in clients' : clientChannel[c] # None => clientId'[c] = clientId[c]
  PROVE  LinksAgree'
<1> SUFFICES ASSUME NEW ch \in net'.alive, ch[2] = "client", Peer(ch) \in net'.alive
             PROVE  peerId'[Peer(ch)] = clientId'[owner'[ch]]
  BY DEF LinksAgree
<1>1. CASE ch \notin net.alive
  BY <1>1 DEF Calm, NewLinksAgree
<1>2. CASE ch \in net.alive
  <2>1. Peer(ch) \in net.alive
    BY <1>2 DEF Calm
  <2>2. owner'[ch] = owner[ch] /\ peerId'[Peer(ch)] = peerId[Peer(ch)]
    BY <1>2, <2>1 DEF Calm
  <2>3. ch # None
    BY <1>2, HeldChannels DEF TransportInv
  <2>4. owner[ch] \in Clients /\ clientChannel[owner[ch]] = ch
    BY <1>2 DEF TransportInv, Holding, ChannelsHeld
  <2>5. owner'[ch] \in Clients /\ clientChannel'[owner'[ch]] = ch
    BY DEF TransportInv, Holding, ChannelsHeld
  <2>6. owner'[ch] \in clients'
    BY <2>3, <2>5 DEF TransportInv, Holding, ClientsHold
  <2>7. clientId'[owner[ch]] = clientId[owner[ch]]
    BY <2>2, <2>3, <2>4, <2>6
  <2> QED BY <1>2, <2>1, <2>2, <2>7 DEF LinksAgree
<1> QED BY <1>1, <1>2

(* A client that has a channel keeps its identifier and this channel, or has *)
(* none.                                                                     *)
ClientsKeep ==
    /\ \A c \in clients' : clientChannel[c] # None => clientId'[c] = clientId[c]
    /\ \A c \in Clients : clientChannel[c] # None /\ clientChannel'[c] # None
                             => clientChannel'[c] = clientChannel[c]

LEMMA ClientsKeepTheirs ==
  ASSUME TransportInv
  PROVE  /\ \A c \in Clients : NewClient(c) \/ DeleteClient(c) => ClientsKeep
         /\ \A c \in Clients, id \in ClientIds : Bind(c, id) => ClientsKeep
         /\ \A c \in Clients, sid \in ServerIds : ConnectToHost(c, sid) => ClientsKeep
         /\ \A s \in Servers : NewServer(s) \/ DeleteServer(s) => ClientsKeep
         /\ \A s \in Servers, sid \in ServerIds : Listen(s, sid) => ClientsKeep
         /\ ProcessTask => ClientsKeep
<1>1. TypeOK
  BY DEF TransportInv
<1>2. ASSUME clientId' = clientId, clientChannel' = clientChannel PROVE ClientsKeep
  BY <1>2 DEF ClientsKeep
<1>3. ASSUME NEW c \in Clients, DeleteClient(c) PROVE ClientsKeep
  BY <1>1, <1>3 DEF DeleteClient, TypeOK, ClientsKeep
<1>4. ASSUME NEW c \in Clients, NEW id \in ClientIds, Bind(c, id) PROVE ClientsKeep
  BY <1>1, <1>4 DEF Bind, TypeOK, ClientsKeep
<1>5. ASSUME ConnectToServer PROVE ClientsKeep
  <2>1. PICK c, ch : clientChannel' = [clientChannel EXCEPT ![c] = IF @ = None THEN ch ELSE @]
    BY <1>5 DEF ConnectToServer
  <2>2. clientId' = clientId
    BY <1>5 DEF ConnectToServer
  <2> QED BY <1>1, <2>1, <2>2 DEF TypeOK, ClientsKeep
<1>6. ASSUME DisconnectClientSide PROVE ClientsKeep
  <2>1. PICK c : clientChannel' = [clientChannel EXCEPT ![c] = None]
    BY <1>6 DEF DisconnectClientSide
  <2>2. clientId' = clientId
    BY <1>6 DEF DisconnectClientSide
  <2> QED BY <1>1, <2>1, <2>2 DEF TypeOK, ClientsKeep
<1>7. ASSUME ProcessTask PROVE ClientsKeep
  BY <1>2, <1>5, <1>6, <1>7 DEF ProcessTask, ConnectInVain, DeliverMessage,
     DisconnectDeleted, DisconnectServerSide, clientVars
<1> QED BY <1>2, <1>3, <1>4, <1>7 DEF NewClient, ConnectToHost, NewServer, DeleteServer,
       Listen, clientVars
-----------------------------------------------------------------------------
(* Every variable of the transport keeps its type, however many objects,     *)
(* identifiers and tasks there are (servermock/).                            *)
THEOREM TypeCorrect == Spec => []TypeOK
<1>1. TransportInv => TypeOK
  BY DEF TransportInv
<1> QED BY <1>1, Invariance, PTL

(* Both sides of a connection are closed in one call, also when one of them  *)
(* is deleted inside a handler (connectionchannel.cpp:51-54, 72-88).         *)
THEOREM PairsStayPaired == Spec => []ConnectedInPairs
<1>1. TransportInv => ConnectedInPairs
  BY DEF TransportInv, Good, Orderly, Paired, ConnectedInPairs
<1> QED BY <1>1, Invariance, PTL

LEMMA HeldOnce == TransportInv => EveryChannelHeldOnce
<1> SUFFICES ASSUME TransportInv PROVE EveryChannelHeldOnce
  OBVIOUS
<1>1. TypeOK /\ Holding
  BY DEF TransportInv
<1>2. ASSUME NEW ch \in Channels
      PROVE  Cardinality(Holders(ch)) = IF ch \in net.alive THEN 1 ELSE 0
  <2>0. ch # None
    BY NullAssumption
  <2>1. CASE ch \notin net.alive
    <3>1. Holders(ch) = {}
      BY <2>0, <2>1, <1>1 DEF Holders, Holding, ClientsHold, ServersHold
    <3> QED BY <2>1, <3>1, FS_EmptySet
  <2>2. CASE ch \in net.alive /\ ch[2] = "client"
    <3>1. owner[ch] \in Clients /\ clientChannel[owner[ch]] = ch
      BY <2>2, <1>1 DEF Holding, ChannelsHeld
    <3>2. \A x \in Clients : clientChannel[x] = ch => x = owner[ch]
      BY <2>0, <1>1 DEF Holding, ClientsHold
    <3>3. \A key \in Servers \X ClientIds : connections[key[1]][key[2]] # ch
      BY <2>0, <2>2, <1>1 DEF Holding, ServersHold
    <3>4. Holders(ch) = {owner[ch]}
      BY <3>1, <3>2, <3>3 DEF Holders
    <3> QED BY <2>2, <3>4, FS_Singleton
  <2>3. CASE ch \in net.alive /\ ch[2] = "server"
    <3> DEFINE key == <<owner[ch], peerId[ch]>>
    <3>1. key \in Servers \X ClientIds /\ connections[key[1]][key[2]] = ch
      BY <2>3, <1>1 DEF Holding, ChannelsHeld
    <3>2. \A k \in Servers \X ClientIds : connections[k[1]][k[2]] = ch => k = key
      BY <2>0, <1>1 DEF Holding, ServersHold
    <3>3. \A x \in Clients : clientChannel[x] # ch
      BY <2>0, <2>3, <1>1 DEF Holding, ClientsHold
    <3> HIDE DEF key
    <3>4. Holders(ch) = {key}
      BY <3>1, <3>2, <3>3 DEF Holders
    <3> QED BY <2>3, <3>4, FS_Singleton
  <2> QED BY <2>1, <2>2, <2>3, PeerProperties
<1> QED BY <1>1, <1>2 DEF EveryChannelHeldOnce, Holding, ClientsHold, ServersHold

(* Channels are deleted by raw pointer from several places; each is deleted  *)
(* by its one holder and forgotten at once (connectionmock.cpp:17-27,        *)
(* clientconnectionmock.cpp:141-159, connectionservermock.cpp:52-97).        *)
THEOREM NoLeakNoDangling == Spec => []EveryChannelHeldOnce
<1> QED BY HeldOnce, Invariance, PTL

LEMMA ScheduledOnce == TransportInv => DisconnectScheduledOnce
<1> SUFFICES ASSUME TransportInv, NEW ch \in net.alive
             PROVE  Cardinality(DisconnectTasksOf(ch)) = IF ch \in net.connected THEN 0 ELSE 1
  BY DEF DisconnectScheduledOnce
<1>1. CASE ch \in net.connected
  <2>1. DisconnectTasksOf(ch) = {}
    BY <1>1 DEF TransportInv, Good, Orderly, NotTooEarly, DisconnectTasksOf
  <2> QED BY <1>1, <2>1, FS_EmptySet
<1>2. CASE ch \notin net.connected
  <2>1. PICK i \in DOMAIN net.queue : net.queue[i] = DisconnectTask(ch)
    BY <1>2 DEF TransportInv, Good, Orderly, Announced
  <2>2. \A j \in DOMAIN net.queue : net.queue[j] = DisconnectTask(ch) => j = i
    BY <2>1 DEF TransportInv, Good, Orderly, AnnouncedOnce
  <2>3. DisconnectTasksOf(ch) = {i}
    BY <2>1, <2>2 DEF DisconnectTasksOf
  <2> QED BY <1>2, <2>3, FS_Singleton
<1> QED BY <1>1, <1>2

(* A broken connection is reported once, a sound one never, whichever calls  *)
(* broke it (connectionchannel.cpp:72-81).                                   *)
THEOREM BreakReportedOnce == Spec => []DisconnectScheduledOnce
<1> QED BY ScheduledOnce, Invariance, PTL

(* No message waits behind the report that its channel broke                 *)
(* (connectionchannel.cpp:77-78).                                            *)
THEOREM MessagesComeFirst == Spec => []MessagesBeforeDisconnect
<1>1. TransportInv => MessagesBeforeDisconnect
  <2> SUFFICES ASSUME TransportInv, NEW ch \in net.alive, NEW i \in DisconnectTasksOf(ch),
                      NEW j \in DOMAIN net.queue,
                      net.queue[j].task = "message", net.queue[j].channel = ch
               PROVE  j < i
    BY DEF MessagesBeforeDisconnect
  <2>1. i \in DOMAIN net.queue /\ net.queue[i] = DisconnectTask(ch)
    BY DEF DisconnectTasksOf
  <2> QED BY <2>1 DEF TransportInv, Good, Orderly, AnnouncedLast, IsMessageOfLink,
                  IsMessageFor
<1> QED BY <1>1, Invariance, PTL

LEMMA PeersFindEachOther == TransportInv => EndsAgree
<1> SUFFICES ASSUME TransportInv, NEW c \in Clients,
                    clientChannel[c] # None, clientChannel[c] \in net.connected
             PROVE  /\ clientId[c] # None
                    /\ \E s \in Servers :
                          /\ connections[s][clientId[c]] = Peer(clientChannel[c])
                          /\ peerId[clientChannel[c]] = serverId[s]
  BY DEF EndsAgree
<1> DEFINE ch == clientChannel[c]
           peer == Peer(ch)
<1>1. TypeOK /\ Holding
  BY DEF TransportInv
<1>2. peer \in net.alive /\ peer[2] = "server"
  <2>1. peer \in net.alive
    BY DEF TransportInv, Good, Orderly, Paired
  <2>2. ch \in Channels /\ ch[2] = "client"
    BY <1>1, HeldChannels DEF Holding, ClientsHold
  <2> QED BY <2>1, <2>2, PeerProperties
<1>3. /\ clientId[c] # None /\ peerId[peer] = clientId[c]
      /\ peerId[ch] = serverId[owner[peer]]
  BY DEF TransportInv, PeersAgree
<1>4. owner[peer] \in Servers /\ connections[owner[peer]][peerId[peer]] = peer
  BY <1>1, <1>2 DEF Holding, ChannelsHeld
<1> QED BY <1>3, <1>4

(* The server finds a connected client under the identifier of the client,   *)
(* although identifiers are looked up long after a request was made          *)
(* (clientconnectionmock.cpp:38-50, 81-89, devicemonitoringserver.cpp:55-60).*)
THEOREM IdentifiersFindTheirEnds == Spec => []EndsAgree
<1> QED BY PeersFindEachOther, Invariance, PTL

(* No task ever finds a deleted client or server in a registry               *)
(* (clientconnectionmock.cpp:52-100, connectionservermock.cpp:30-87).        *)
THEOREM RegistriesStayExact == Spec => []RegistriesExact
<1>1. TransportInv => RegistriesExact
  BY DEF TransportInv
<1> QED BY <1>1, Invariance, PTL

(* A closed server never gets an open connection, whatever requests were     *)
(* under way (connectionservermock.cpp:72-87).                               *)
THEOREM ClosedStaysClosed == Spec => []ClosedServerHasNoConnection
<1>1. TransportInv => ClosedServerHasNoConnection
  BY DEF TransportInv
<1> QED BY <1>1, Invariance, PTL
=============================================================================
