---------------------- MODULE HkCharacteristicsProofs ----------------------
(***************************************************************************)
(* Proofs about HkCharacteristics and the setup before it, for any         *)
(* application, and any number of controllers, sockets and characteristics.*)
(* The first part is about the accessory that runs: the types, and that a  *)
(* listener has the current value when the tasks are at rest.  The second  *)
(* part is about the setup: what is served is what was asked for, on both  *)
(* stacks.  Its invariant follows the lists and the arrays from call to    *)
(* call.                                                                   *)
(***************************************************************************)
EXTENDS HkCharacteristics, HkNumbers, SequenceTheorems

\* The httpd task has a request of a controller, the application notifies of
\* something, and until the last socket is done there is one.
TasksInv ==
  /\ put.pc = "written" => put.ctl \in Ctls /\ put.chr \in Handles
  /\ app.pc # "idle" => app.chr \in Handles
  /\ app.pc \in {"value", "queue"} => app.socks # <<>>

\* httpd gives a socket to one connection at a time.
SocketsInv == \A c, d \in Ctls : fd[c] = fd[d] /\ fd[c] # Null => c = d

\* Nothing has happened before the stack runs.
StartInv == ~Running => InitRun

TypeInv == TypeOK /\ TasksInv /\ SocketsInv /\ StartInv

-----------------------------------------------------------------------------
(* What a controller will take for the value of h once it has read all     *)
(* that is on the way to it: the last event that is queued for it, else    *)
(* the value it wrote, else the one it knows.                              *)

For(event, f, h) == event.fd = f /\ event.chr = h

NoneFor(q, f, h) == \A i \in DOMAIN q : ~For(q[i], f, h)

LastShows(q, f, h, v) ==
  \A i \in DOMAIN q :
    For(q[i], f, h) /\ (\A j \in DOMAIN q : j > i => ~For(q[j], f, h)) => q[i].val = v

Writes(c, h) == put.pc = "written" /\ put.ctl = c /\ put.chr = h

LearnsLast(c, h) ==
  /\ LastShows(queue, fd[c], h, value[h])
  /\ NoneFor(queue, fd[c], h) =>
       IF Writes(c, h) THEN put.val = value[h] ELSE mirror[c][h] = value[h]

\* The notification will be made of the current value, or it is being queued.
Learns(c, h) ==
  IF app.chr = h /\ app.pc \in {"changed", "value"} THEN TRUE
  ELSE IF app.chr = h /\ app.pc = "queue"
  THEN app.val = value[h] /\ (fd[c] \in ToSet(app.socks) \/ LearnsLast(c, h))
  ELSE LearnsLast(c, h)

KeepsUp(c, h) == fd[c] # Null /\ c \notin behind[h] /\ HasEvents(h)

CurrentInv == \A c \in Ctls, h \in Handles : KeepsUp(c, h) => Learns(c, h)


-----------------------------------------------------------------------------
(* The types.                                                              *)

LEMMA RemoveFirstType ==
  ASSUME NEW s \in Seq(Fds), NEW f
  PROVE  Store!RemoveFirst(s, f) \in Seq(Fds)
<1>1. CASE ~\E i \in 1..Len(s) : s[i] = f
  BY <1>1 DEF Store!RemoveFirst
<1>2. CASE \E i \in 1..Len(s) : s[i] = f
  <2> DEFINE I == {i \in 1..Len(s) : s[i] = f}
             k == Store!Min(I)
  <2>1. k \in 1..Len(s)
    <3>1. I # {} /\ I \in SUBSET Nat /\ I \subseteq 1..Len(s)
      BY <1>2
    <3> HIDE DEF I
    <3>2. \E m \in I : \A n \in I : m <= n
      BY <3>1, Smallest
    <3>3. k \in I
      BY <3>2 DEF Store!Min
    <3> QED
      BY <3>1, <3>3
  <2>2. Store!SelectInSeq(s, LAMBDA v : v = f) = k
    BY <1>2 DEF Store!SelectInSeq
  <2> HIDE DEF k
  <2>3. Store!RemoveAt(s, k) \in Seq(Fds)
    <3>1. SubSeq(s, 1, k - 1) \in Seq(Fds) /\ SubSeq(s, k + 1, Len(s)) \in Seq(Fds)
      BY <2>1
    <3> QED
      BY <3>1 DEF Store!RemoveAt
  <2> QED
    BY <1>2, <2>2, <2>3 DEF Store!RemoveFirst
<1> QED
  BY <1>1, <1>2

LEMMA SetupStays ==
  ASSUME UNCHANGED setupVars
  PROVE  /\ Running' = Running
         /\ \A h : At(h)' = At(h) /\ IsBool(h)' = IsBool(h)
         /\ \A h : HasEvents(h)' = HasEvents(h)
BY DEF setupVars, Running, At, IsBool, HasEvents, Meant, EventIds

\* The calls of a setup come before the stack runs, and change nothing else.
LEMMA SetupComesFirst ==
  ASSUME Setup, phase \in {"off", "started", "finished", "running"}
  PROVE  /\ ~Running
         /\ stack' = stack /\ phase' \in {"off", "started", "finished", "running"}
         /\ UNCHANGED runVars
<1>1. UNCHANGED runVars
  BY DEF Setup
<1>2. CASE SetupStart
  BY <1>1, <1>2 DEF SetupStart, Running
<1>3. CASE AddAccessory
  BY <1>1, <1>3 DEF AddAccessory, Running
<1>4. CASE \E type \in SrvTypes : AddSrv(type)
  BY <1>1, <1>4 DEF AddSrv, Running
<1>5. CASE \E c \in ChrKinds : AddChr(c)
  BY <1>1, <1>5 DEF AddChr, Running
<1>6. CASE SetupFinish
  BY <1>1, <1>6 DEF SetupFinish, Running
<1>7. CASE \E srv \in Facades : Facade(srv)
  BY <1>1, <1>7 DEF Facade, Running
<1>8. CASE Start
  BY <1>1, <1>8 DEF Start, Running
<1> QED
  BY <1>2, <1>3, <1>4, <1>5, <1>6, <1>7, <1>8 DEF Setup, SetupNext

\* Nothing but the run of the stack: this is what the steps below change.
RunTypes ==
  /\ fd \in [Ctls -> Fds \cup {Null}]
  /\ subs \in [Handles -> Seq(Fds)]
  /\ value \in [Handles -> Kept]
  /\ \A h \in Handles : IsBool(h) => value[h] \in {0, 1}
  /\ mirror \in [Ctls -> [Handles -> Sent]]
  /\ behind \in [Handles -> SUBSET Ctls]

PutType ==
  put \in [pc : {"idle", "written"}, ctl : Ctls \cup {Null}, chr : Handles \cup {Null}, val : Kept]

AppType ==
  app \in [pc : {"idle", "changed", "value", "queue"}, chr : Handles \cup {Null},
           socks : Seq(Fds), val : Sent]

QueueType == queue \in Seq([fd : Fds, chr : Handles, val : Sent]) /\ Len(queue) <= MaxQueue

LEMMA InitTypes ==
  ASSUME InitRun
  PROVE  /\ RunTypes /\ PutType /\ AppType /\ QueueType /\ TasksInv /\ SocketsInv
<1>1. 0 \in Kept /\ Null \in Sent /\ 0 \in Sent
  BY RunAssumption DEF Kept, Sent
<1>2. RunTypes
  BY <1>1 DEF InitRun, RunTypes, Store!Init
<1>3. PutType /\ AppType /\ TasksInv
  BY <1>1 DEF InitRun, PutType, AppType, NoPut, NoNotify, TasksInv
<1>4. QueueType /\ SocketsInv
  BY RunAssumption DEF InitRun, QueueType, SocketsInv
<1> QED
  BY <1>2, <1>3, <1>4

\* The invariant while the stack runs.
RunInv ==
  /\ Running /\ stack \in Stacks
  /\ RunTypes /\ PutType /\ AppType /\ QueueType /\ TasksInv /\ SocketsInv

LEMMA InvWhileRunning ==
  ASSUME TypeInv, Running
  PROVE  RunInv
BY DEF TypeInv, TypeOK, RunInv, RunTypes, PutType, AppType, QueueType

LEMMA RunInvIsInv ==
  ASSUME RunInv
  PROVE  TypeInv
BY DEF TypeInv, TypeOK, RunInv, RunTypes, PutType, AppType, QueueType, StartInv, Running

LEMMA FormattedIsSent ==
  ASSUME NEW c, NEW v \in Kept
  PROVE  Formatted(c, v) \in Sent
BY DEF Formatted, Sent

LEMMA JsonIsKept ==
  ASSUME NEW json \in Json
  PROVE  json.n \in Kept
BY RunAssumption DEF Json, Kept

LEMMA BoolIsAccepted ==
  ASSUME NEW json \in Json, NEW c, Format(c.type) = "bool", Accepts(c, json)
  PROVE  json.n \in {0, 1}
BY DEF Json, Accepts

\* A connection ends; its controller forgets what it knew.
LEMMA ClosesTypes ==
  ASSUME NEW c \in Ctls, RunTypes, SocketsInv, Closes(c), UNCHANGED <<setupVars, subs, value>>
  PROVE  RunTypes' /\ SocketsInv'
<1>1. fd' \in [Ctls -> Fds \cup {Null}] /\ SocketsInv'
  BY DEF RunTypes, SocketsInv, Closes
<1>2. mirror' \in [Ctls -> [Handles -> Sent]] /\ behind' \in [Handles -> SUBSET Ctls]
  BY DEF RunTypes, Closes, Forget, Sent
<1> QED
  BY <1>1, <1>2, SetupStays DEF RunTypes

LEMMA HttpdTypes ==
  ASSUME RunInv, NEW c \in Ctls,
         \/ \E f \in Fds : Connect(c, f)
         \/ Close(c)
         \/ \E hs \in SUBSET Handles : Get(c, hs)
         \/ \E h \in Handles : Subscribe(c, h) \/ Unsubscribe(c, h) \/ WriteFails(c, h)
  PROVE  RunInv'
<1> SUFFICES RunTypes' /\ SocketsInv' /\ UNCHANGED <<setupVars, put, app, queue>>
  BY SetupStays DEF RunInv, PutType, AppType, QueueType, TasksInv, setupVars
<1> USE DEF RunInv
<1>1. ASSUME NEW f \in Fds, Connect(c, f)
      PROVE  RunTypes' /\ SocketsInv' /\ UNCHANGED <<setupVars, put, app, queue>>
  <2>1. fd' \in [Ctls -> Fds \cup {Null}] /\ SocketsInv'
    BY <1>1 DEF RunTypes, SocketsInv, Connect
  <2>2. mirror' \in [Ctls -> [Handles -> Sent]] /\ behind' \in [Handles -> SUBSET Ctls]
    BY <1>1 DEF RunTypes, Connect, Forget, Sent
  <2> QED
    BY <1>1, <2>1, <2>2, SetupStays DEF RunTypes, Connect
<1>2. ASSUME Close(c) \/ \E h \in Handles : WriteFails(c, h)
      PROVE  RunTypes' /\ SocketsInv' /\ UNCHANGED <<setupVars, put, app, queue>>
  BY <1>2, ClosesTypes DEF Close, WriteFails
<1>3. ASSUME NEW hs \in SUBSET Handles, Get(c, hs)
      PROVE  RunTypes' /\ SocketsInv' /\ UNCHANGED <<setupVars, put, app, queue>>
  <2>1. \A h \in Handles : Formatted(At(h), value[h]) \in Sent
    BY FormattedIsSent DEF RunTypes
  <2>2. mirror' \in [Ctls -> [Handles -> Sent]] /\ behind' \in [Handles -> SUBSET Ctls]
    BY <1>3, <2>1 DEF RunTypes, Get
  <2> QED
    BY <1>3, <2>2, SetupStays DEF RunTypes, Get, SocketsInv
<1>4. ASSUME NEW h \in Handles, Subscribe(c, h) \/ Unsubscribe(c, h)
      PROVE  RunTypes' /\ SocketsInv' /\ UNCHANGED <<setupVars, put, app, queue>>
  <2>1. fd[c] \in Fds
    BY <1>4 DEF Subscribe, Unsubscribe, RunTypes
  <2>2. CASE Subscribe(c, h)
    <3>1. Append(subs[h], fd[c]) \in Seq(Fds)
      BY <2>1 DEF RunTypes
    <3>2. subs' \in [Handles -> Seq(Fds)]
      BY <2>2, <3>1 DEF RunTypes, Subscribe, Store!Subscribe
    <3> QED
      BY <2>2, <3>2, SetupStays DEF RunTypes, Subscribe, SocketsInv
  <2>3. CASE Unsubscribe(c, h)
    <3>1. Store!RemoveFirst(subs[h], fd[c]) \in Seq(Fds)
      BY RemoveFirstType DEF RunTypes
    <3>2. subs' \in [Handles -> Seq(Fds)]
      BY <2>3, <3>1 DEF RunTypes, Unsubscribe, Store!Unsubscribe
    <3> QED
      BY <2>3, <3>2, SetupStays DEF RunTypes, Unsubscribe, SocketsInv
  <2> QED
    BY <1>4, <2>2, <2>3
<1> QED
  BY <1>1, <1>2, <1>3, <1>4

LEMMA WriteTypes ==
  ASSUME RunInv,
         \/ \E c \in Ctls, h \in Handles, json \in Json : Write(c, h, json)
         \/ WriteReturns
         \/ WriteReplyFails
  PROVE  RunInv'
<1> USE DEF RunInv
<1>1. ASSUME NEW c \in Ctls, NEW h \in Handles, NEW json \in Json, Write(c, h, json)
      PROVE  RunInv'
  <2>1. json.n \in Kept
    BY JsonIsKept
  <2>2. PutType' /\ (put'.pc = "written" => put'.ctl \in Ctls /\ put'.chr \in Handles)
    BY <1>1, <2>1 DEF Write, PutType
  <2>3. value' \in [Handles -> Kept] /\ behind' \in [Handles -> SUBSET Ctls]
    BY <1>1, <2>1 DEF Write, RunTypes
  <2>4. \A g \in Handles : IsBool(g) => value'[g] \in {0, 1}
    <3>1. IsBool(h) => json.n \in {0, 1}
      BY <1>1, BoolIsAccepted DEF Write, IsBool
    <3> QED
      BY <1>1, <3>1 DEF Write, RunTypes
  <2>5. RunTypes' /\ TasksInv'
    BY <1>1, <2>2, <2>3, <2>4, SetupStays DEF Write, RunTypes, TasksInv
  <2> QED
    BY <1>1, <2>2, <2>5, SetupStays DEF Write, AppType, QueueType, SocketsInv, setupVars
<1>2. ASSUME put' = NoPut, UNCHANGED <<setupVars, app, queue>>, RunTypes', SocketsInv'
      PROVE  RunInv'
  <2>1. PutType' /\ TasksInv'
    BY <1>2, RunAssumption DEF PutType, TasksInv, NoPut, Kept
  <2> QED
    BY <1>2, <2>1, SetupStays DEF AppType, QueueType, setupVars
<1>3. CASE WriteReturns
  <2>1. put.ctl \in Ctls /\ put.chr \in Handles /\ put.val \in Sent
    BY <1>3 DEF WriteReturns, TasksInv, PutType, Sent
  <2>2. mirror' \in [Ctls -> [Handles -> Sent]]
    BY <1>3, <2>1 DEF WriteReturns, RunTypes
  <2>3. RunTypes' /\ SocketsInv'
    BY <1>3, <2>2, SetupStays DEF WriteReturns, RunTypes, SocketsInv
  <2> QED
    BY <1>2, <1>3, <2>3 DEF WriteReturns
<1>4. CASE WriteReplyFails
  <2>1. put.ctl \in Ctls
    BY <1>4 DEF WriteReplyFails, TasksInv
  <2> QED
    BY <1>2, <1>4, <2>1, ClosesTypes DEF WriteReplyFails
<1> QED
  BY <1>1, <1>3, <1>4

LEMMA ApplicationTypes ==
  ASSUME RunInv,
         \/ \E h \in Handles, v \in Values : AppChange(h, v)
         \/ NotifyStep
  PROVE  RunInv'
<1> USE DEF RunInv
<1> SUFFICES /\ RunTypes' /\ AppType' /\ QueueType' /\ UNCHANGED <<setupVars, fd, put>>
             /\ app'.pc # "idle" => app'.chr \in Handles
             /\ app'.pc \in {"value", "queue"} => app'.socks # <<>>
  BY SetupStays DEF PutType, TasksInv, SocketsInv, setupVars
<1> DEFINE Good == /\ RunTypes' /\ AppType' /\ QueueType' /\ UNCHANGED <<setupVars, fd, put>>
                   /\ app'.pc # "idle" => app'.chr \in Handles
                   /\ app'.pc \in {"value", "queue"} => app'.socks # <<>>
<1> DEFINE Idle == app' = NoNotify
<1>1. ASSUME Idle
      PROVE  /\ AppType' /\ app'.pc = "idle"
  BY <1>1, RunAssumption DEF AppType, NoNotify, Sent, Kept
<1>2. ASSUME NEW h \in Handles, NEW v \in Values, AppChange(h, v)
      PROVE  Good
  <2>1. AppType' /\ app'.chr = h /\ app'.pc = "changed"
    <3>1. app' = [pc |-> "changed", chr |-> h, socks |-> <<>>, val |-> 0]
      BY <1>2 DEF AppChange, NoNotify
    <3>2. 0 \in Sent
      BY RunAssumption DEF Sent, Kept
    <3> QED
      BY <3>1, <3>2 DEF AppType
  <2>2. RunTypes'
    BY <1>2, SetupStays DEF AppChange, RunTypes, Kept
  <2> QED
    BY <1>2, <2>1, <2>2 DEF AppChange, QueueType
<1>3. ASSUME NotifyNobody
      PROVE  Good
  <2>1. RunTypes'
    BY <1>3, SetupStays DEF NotifyNobody, RunTypes
  <2> QED
    BY <1>1, <1>3, <2>1 DEF NotifyNobody, QueueType
<1>4. ASSUME NotifyGetSockets
      PROVE  Good
  <2>1. RunTypes' /\ app.chr \in Handles
    BY <1>4, SetupStays DEF NotifyGetSockets, RunTypes, TasksInv
  <2>2. subs[app.chr] \in Seq(Fds)
    BY <2>1 DEF RunTypes
  <2>3. AppType' /\ app'.chr = app.chr /\ app'.socks = subs[app.chr]
    BY <1>4, <2>2 DEF NotifyGetSockets, AppType
  <2> QED
    BY <1>4, <2>1, <2>3 DEF NotifyGetSockets, QueueType
<1>5. ASSUME NotifyReadValue
      PROVE  Good
  <2>1. app.chr \in Handles /\ app.socks # <<>>
    BY <1>5 DEF NotifyReadValue, TasksInv
  <2>2. behind' \in [Handles -> SUBSET Ctls]
    BY <1>5 DEF NotifyReadValue, RunTypes, Without
  <2>3. RunTypes'
    BY <1>5, <2>2, SetupStays DEF NotifyReadValue, RunTypes
  <2>4. Formatted(At(app.chr), value[app.chr]) \in Sent
    BY <2>1, FormattedIsSent DEF RunTypes
  <2>5. AppType' /\ app'.chr = app.chr /\ app'.socks = app.socks
    BY <1>5, <2>4 DEF NotifyReadValue, AppType
  <2> QED
    BY <1>5, <2>1, <2>3, <2>5 DEF NotifyReadValue, QueueType
<1>6. ASSUME NotifyQueue
      PROVE  Good
  <2>1. app.chr \in Handles /\ app.socks # <<>> /\ app.socks \in Seq(Fds) /\ app.val \in Sent
    BY <1>6 DEF NotifyQueue, TasksInv, AppType
  <2>2. Head(app.socks) \in Fds /\ Tail(app.socks) \in Seq(Fds)
    BY <2>1
  <2>3. QueueType'
    BY <1>6, <2>1, <2>2, RunAssumption DEF NotifyQueue, QueueType
  <2>4. AppType' /\ (app'.pc # "idle" => app'.chr \in Handles /\ app'.socks # <<>>)
    <3>1. CASE Tail(app.socks) = <<>>
      BY <1>1, <1>6, <3>1 DEF NotifyQueue, NotifyGoesOn
    <3>2. CASE Tail(app.socks) # <<>>
      BY <1>6, <2>1, <2>2, <3>2 DEF NotifyQueue, NotifyGoesOn, AppType
    <3> QED
      BY <3>1, <3>2
  <2>5. RunTypes'
    BY <1>6, SetupStays DEF NotifyQueue, RunTypes
  <2> QED
    BY <1>6, <2>3, <2>4, <2>5 DEF NotifyQueue
<1>7. ASSUME NotifyQueueFails
      PROVE  Good
  <2>1. behind' \in [Handles -> SUBSET Ctls]
    BY <1>7 DEF NotifyQueueFails, RunTypes
  <2>2. RunTypes'
    BY <1>7, <2>1, SetupStays DEF NotifyQueueFails, RunTypes
  <2> QED
    BY <1>1, <1>7, <2>2 DEF NotifyQueueFails, NotifyGoesOn, QueueType
<1> QED
  BY <1>2, <1>3, <1>4, <1>5, <1>6, <1>7 DEF NotifyStep

\* The event that is sent leaves the queue.
LEMMA SendTypes ==
  ASSUME RunInv, SendEvent \/ SendEventFails
  PROVE  RunInv'
<1> USE DEF RunInv
<1>1. queue # <<>> /\ queue' = Tail(queue)
  BY DEF SendEvent, SendEventFails
<1>2. QueueType' /\ Head(queue) \in [fd : Fds, chr : Handles, val : Sent]
  <2> DEFINE Event == [fd : Fds, chr : Handles, val : Sent]
  <2>1. queue \in Seq(Event) /\ Len(queue) <= MaxQueue
    BY DEF QueueType
  <2>2. Head(queue) \in Event /\ Tail(queue) \in Seq(Event) /\ Len(Tail(queue)) = Len(queue) - 1
    <3> HIDE DEF Event
    <3> QED
      BY <1>1, <2>1, HeadTailProperties
  <2>3. Len(Tail(queue)) <= MaxQueue
    BY <2>1, <2>2, RunAssumption
  <2> QED
    BY <1>1, <2>2, <2>3 DEF QueueType
<1>3. RunTypes'
  <2>1. CASE SendEvent
    <3>1. PICK c \in Ctls : TakesEvent(c, Head(queue))
      BY <2>1 DEF SendEvent, Receivers
    <3>2. Head(queue).val \in Sent
      BY <1>2
    <3>3. mirror' \in [Ctls -> [Handles -> Sent]]
      BY <3>1, <3>2 DEF TakesEvent, RunTypes
    <3> QED
      BY <2>1, <3>3, SetupStays DEF SendEvent, RunTypes
  <2>2. CASE SendEventFails
    <3>1. behind' \in [Handles -> SUBSET Ctls]
      BY <2>2 DEF SendEventFails, RunTypes, Receivers
    <3> QED
      BY <2>2, <3>1, SetupStays DEF SendEventFails, RunTypes
  <2> QED
    BY <2>1, <2>2
<1>4. UNCHANGED <<setupVars, fd, put, app>>
  BY DEF SendEvent, SendEventFails
<1> QED
  BY <1>2, <1>3, <1>4, SetupStays DEF PutType, AppType, TasksInv, SocketsInv, setupVars

LEMMA RestartTypes ==
  ASSUME Restart, stack \in Stacks
  PROVE  TypeInv' /\ ~Running'
<1>1. InitRun'
  BY DEF Restart, InitRun, Store!Restart, Store!Init
<1>2. (RunTypes /\ PutType /\ AppType /\ QueueType /\ TasksInv /\ SocketsInv)'
  BY <1>1, InitTypes, PTL
<1>3. stack' = stack /\ phase' = "off" /\ ~Running'
  BY DEF Restart, RestartSetup, Running
<1> QED
  BY <1>1, <1>2, <1>3 DEF TypeInv, TypeOK, StartInv, RunTypes, PutType, AppType, QueueType

LEMMA TypeStep ==
  ASSUME TypeInv, [Next]_vars
  PROVE  TypeInv'
<1>1. stack \in Stacks /\ phase \in {"off", "started", "finished", "running"}
  BY DEF TypeInv, TypeOK
<1>2. ~Running => put.pc = "idle" /\ app.pc = "idle" /\ queue = <<>>
  BY DEF TypeInv, StartInv, InitRun, NoPut, NoNotify
<1>3. CASE Setup
  <2>1. /\ ~Running /\ UNCHANGED runVars
        /\ stack' = stack /\ phase' \in {"off", "started", "finished", "running"}
    BY <1>1, <1>3, SetupComesFirst
  <2>2. InitRun'
    BY <2>1 DEF TypeInv, StartInv, InitRun, runVars, Store!Init
  <2>3. (RunTypes /\ PutType /\ AppType /\ QueueType /\ TasksInv /\ SocketsInv)'
    BY <2>2, InitTypes, PTL
  <2> QED
    BY <1>1, <2>1, <2>2, <2>3
    DEF TypeInv, TypeOK, StartInv, RunTypes, PutType, AppType, QueueType
<1>4. CASE \E c \in Ctls :
             \/ \E f \in Fds : Connect(c, f)
             \/ Close(c)
             \/ \E hs \in SUBSET Handles : Get(c, hs)
             \/ \E h \in Handles : Subscribe(c, h) \/ Unsubscribe(c, h) \/ WriteFails(c, h)
  <2>1. Running
    BY <1>4 DEF Connect, Close, Get, Subscribe, Unsubscribe, WriteFails, HttpdIdle
  <2>2. RunInv'
    BY <1>4, <2>1, InvWhileRunning, HttpdTypes
  <2> QED
    BY <2>2, RunInvIsInv, PTL
<1>5. CASE \/ \E c \in Ctls, h \in Handles, json \in Json : Write(c, h, json)
           \/ WriteReturns
           \/ WriteReplyFails
  <2>1. Running
    BY <1>2, <1>5 DEF Write, HttpdIdle, WriteReturns, WriteReplyFails
  <2>2. RunInv'
    BY <1>5, <2>1, InvWhileRunning, WriteTypes
  <2> QED
    BY <2>2, RunInvIsInv, PTL
<1>6. CASE (\E h \in Handles, v \in Values : AppChange(h, v)) \/ NotifyStep
  <2>1. Running
    BY <1>2, <1>6 DEF AppChange, NotifyStep, NotifyNobody, NotifyGetSockets, NotifyReadValue,
                      NotifyQueue, NotifyQueueFails
  <2>2. RunInv'
    BY <1>6, <2>1, InvWhileRunning, ApplicationTypes
  <2> QED
    BY <2>2, RunInvIsInv, PTL
<1>7. CASE SendEvent \/ SendEventFails
  <2>1. Running
    BY <1>7 DEF SendEvent, SendEventFails, HttpdIdle
  <2>2. RunInv'
    BY <1>7, <2>1, InvWhileRunning, SendTypes
  <2> QED
    BY <2>2, RunInvIsInv, PTL
<1>8. CASE SendEventPanics \/ PowerFailure
  BY <1>1, <1>8, RestartTypes DEF SendEventPanics, PowerFailure
<1>9. CASE UNCHANGED vars
  <2>1. UNCHANGED <<setupVars, runVars>>
    BY <1>9 DEF vars
  <2> QED
    BY <2>1, SetupStays
    DEF setupVars, runVars, TypeInv, TypeOK, TasksInv, SocketsInv, StartInv, InitRun, Store!Init
<1> QED
  BY <1>3, <1>4, <1>5, <1>6, <1>7, <1>8, <1>9 DEF Next, SendStep

LEMMA TypeInit == Init => TypeInv
<1> SUFFICES ASSUME Init PROVE TypeInv
  OBVIOUS
<1>1. InitRun /\ RunTypes /\ PutType /\ AppType /\ QueueType /\ TasksInv /\ SocketsInv
  BY InitTypes DEF Init
<1>2. stack \in Stacks /\ phase = "off"
  BY DEF Init, InitSetup
<1> QED
  BY <1>1, <1>2 DEF TypeInv, TypeOK, StartInv, RunTypes, PutType, AppType, QueueType

\* The types hold, with what the tasks and the sockets add to them.
THEOREM TypesHold == Spec => []TypeInv
BY TypeInit, TypeStep, PTL DEF Spec

(***************************************************************************)
(* All variables keep their types, and a characteristic whose format is    *)
(* bool keeps the value of a boolean: hk_chrs_write takes no other number  *)
(* for it.                                                                 *)
(***************************************************************************)
THEOREM TypeCorrect == Spec => []TypeOK
BY TypesHold, PTL DEF TypeInv

-----------------------------------------------------------------------------
(* Listeners have the current value.                                       *)

\* What stays as it is, if nothing happens to c and h.
LEMMA LearnsOn ==
  ASSUME NEW c, NEW h, Learns(c, h), app' = app, fd'[c] = fd[c], value'[h] = value[h],
         LearnsLast(c, h) => LearnsLast(c, h)'
  PROVE  Learns(c, h)'
BY DEF Learns

LEMMA LastStays ==
  ASSUME NEW c, NEW h, queue' = queue, fd'[c] = fd[c], value'[h] = value[h],
         mirror'[c][h] = mirror[c][h], (Writes(c, h)' <=> Writes(c, h)),
         Writes(c, h) => put' = put
  PROVE  LearnsLast(c, h)' <=> LearnsLast(c, h)
BY DEF LearnsLast

\* The events of c and h that are queued are those that were queued before.
LEMMA LearnsFromQueue ==
  ASSUME NEW c, NEW h, queue' = queue, fd'[c] = fd[c], value'[h] = value[h],
         LearnsLast(c, h),
         IF Writes(c, h)' THEN put'.val = value'[h] ELSE mirror'[c][h] = value'[h]
  PROVE  LearnsLast(c, h)'
BY DEF LearnsLast

LEMMA LearnsFromNoQueue ==
  ASSUME NEW c, NEW h, queue' = queue, \A i \in DOMAIN queue : queue[i].chr # h,
         IF Writes(c, h)' THEN put'.val = value'[h] ELSE mirror'[c][h] = value'[h]
  PROVE  LearnsLast(c, h)'
BY DEF LearnsLast, LastShows, NoneFor, For

\* A controller that goes, or comes, is left behind; nothing happens to the others.
LEMMA OthersStay ==
  ASSUME RunInv, CurrentInv, NEW d \in Ctls, NEW c \in Ctls, NEW h \in Handles,
         Forget(d), \A e \in Ctls \ {d} : fd'[e] = fd[e],
         UNCHANGED <<setupVars, value, app, queue>>,
         put' = put \/ (put.ctl = d /\ put' = NoPut),
         KeepsUp(c, h)'
  PROVE  Learns(c, h)'
<1>1. c # d
  BY DEF RunInv, RunTypes, KeepsUp, Forget
<1>2. fd'[c] = fd[c] /\ mirror'[c] = mirror[c] /\ behind'[h] \subseteq behind[h] \cup {d}
  BY <1>1 DEF RunInv, RunTypes, Forget
<1>3. c \notin behind[h]
  BY <1>1 DEF RunInv, RunTypes, KeepsUp, Forget
<1>4. KeepsUp(c, h)
  BY <1>2, <1>3, SetupStays DEF KeepsUp
<1>5. Learns(c, h)
  BY <1>4 DEF CurrentInv
<1>6. (Writes(c, h)' <=> Writes(c, h)) /\ (Writes(c, h) => put' = put)
  BY <1>1 DEF Writes, NoPut
<1>7. LearnsLast(c, h)' <=> LearnsLast(c, h)
  BY <1>2, <1>6, LastStays
<1> QED
  BY <1>2, <1>5, <1>7, LearnsOn

LEMMA ConnectionsKeep ==
  ASSUME RunInv, CurrentInv, NEW c \in Ctls, NEW h \in Handles, KeepsUp(c, h)',
         \/ \E d \in Ctls : \/ \E f \in Fds : Connect(d, f)
                            \/ Close(d)
                            \/ \E g \in Handles : WriteFails(d, g)
         \/ WriteReplyFails
  PROVE  Learns(c, h)'
<1>1. ASSUME NEW d \in Ctls, NEW f \in Fds, Connect(d, f)
      PROVE  Learns(c, h)'
  <2>1. \A e \in Ctls \ {d} : fd'[e] = fd[e]
    BY <1>1 DEF Connect, RunInv, RunTypes
  <2> QED
    BY <1>1, <2>1, OthersStay DEF Connect
<1>2. ASSUME NEW d \in Ctls, Close(d) \/ \E g \in Handles : WriteFails(d, g)
      PROVE  Learns(c, h)'
  <2>1. Closes(d) /\ UNCHANGED <<setupVars, value, put, app, queue>>
    BY <1>2 DEF Close, WriteFails
  <2>2. \A e \in Ctls \ {d} : fd'[e] = fd[e]
    BY <2>1 DEF Closes, RunInv, RunTypes
  <2> QED
    BY <2>1, <2>2, OthersStay DEF Closes
<1>3. ASSUME WriteReplyFails
      PROVE  Learns(c, h)'
  <2>1. put.ctl \in Ctls /\ Closes(put.ctl) /\ put' = NoPut
        /\ UNCHANGED <<setupVars, value, app, queue>>
    BY <1>3 DEF WriteReplyFails, RunInv, TasksInv
  <2>2. \A e \in Ctls \ {put.ctl} : fd'[e] = fd[e]
    BY <2>1 DEF Closes, RunInv, RunTypes
  <2> QED
    BY <2>1, <2>2, OthersStay DEF Closes
<1> QED
  BY <1>1, <1>2, <1>3

LEMMA GetKeeps ==
  ASSUME RunInv, CurrentInv, NEW c \in Ctls, NEW h \in Handles, KeepsUp(c, h)',
         NEW d \in Ctls, NEW hs \in SUBSET Handles, Get(d, hs)
  PROVE  Learns(c, h)'
<1>1. /\ UNCHANGED <<setupVars, fd, subs, value, put, app, queue>> /\ put.pc = "idle"
      /\ ~Writes(c, h) /\ ~Writes(c, h)'
  BY DEF Get, HttpdIdle, Writes
<1>2. mirror'[c][h] = IF c = d /\ h \in hs THEN Formatted(At(h), value[h]) ELSE mirror[c][h]
  BY DEF Get, RunInv, RunTypes
<1>3. /\ KeepsUp(c, h) \/ (c = d /\ h \in hs /\ ~InFlight(h))
      /\ Printable(At(h))
  BY <1>1, SetupStays DEF Get, RunInv, RunTypes, KeepsUp, HasEvents
<1>4. CASE c = d /\ h \in hs
  <2>1. mirror'[c][h] = value'[h]
    BY <1>1, <1>2, <1>3, <1>4 DEF Formatted
  <2>2. CASE ~InFlight(h)
    <3>1. LearnsLast(c, h)'
      BY <1>1, <2>1, <2>2, LearnsFromNoQueue DEF InFlight
    <3> QED
      BY <1>1, <2>2, <3>1 DEF Learns, InFlight
  <2>3. CASE InFlight(h)
    <3>1. Learns(c, h)
      BY <1>3, <2>3 DEF CurrentInv
    <3>2. LearnsLast(c, h) => LearnsLast(c, h)'
      BY <1>1, <2>1, LearnsFromQueue
    <3> QED
      BY <1>1, <3>1, <3>2, LearnsOn
  <2> QED
    BY <2>2, <2>3
<1>5. CASE ~(c = d /\ h \in hs)
  <2>1. Learns(c, h)
    BY <1>3, <1>5 DEF CurrentInv
  <2>2. LearnsLast(c, h)' <=> LearnsLast(c, h)
    BY <1>1, <1>2, <1>5, LastStays
  <2> QED
    BY <1>1, <2>1, <2>2, LearnsOn
<1> QED
  BY <1>4, <1>5

LEMMA SubscriptionsKeep ==
  ASSUME CurrentInv, NEW c \in Ctls, NEW h \in Handles, KeepsUp(c, h)',
         NEW d \in Ctls, NEW g \in Handles, Subscribe(d, g) \/ Unsubscribe(d, g)
  PROVE  Learns(c, h)'
<1>1. UNCHANGED <<setupVars, fd, value, mirror, put, app, queue, behind>>
  BY DEF Subscribe, Unsubscribe
<1>2. Learns(c, h)
  BY <1>1, SetupStays DEF KeepsUp, CurrentInv
<1>3. LearnsLast(c, h)' <=> LearnsLast(c, h)
  BY <1>1, LastStays DEF Writes
<1> QED
  BY <1>1, <1>2, <1>3, LearnsOn

LEMMA WriteKeeps ==
  ASSUME RunInv, CurrentInv, NEW c \in Ctls, NEW h \in Handles, KeepsUp(c, h)',
         NEW d \in Ctls, NEW g \in Handles, NEW json \in Json, Write(d, g, json)
  PROVE  Learns(c, h)'
<1>1. /\ UNCHANGED <<setupVars, fd, subs, mirror, app, queue>> /\ ~Writes(c, h)
      /\ put' = [pc |-> "written", ctl |-> d, chr |-> g, val |-> json.n]
  BY DEF Write, HttpdIdle, Writes
<1>2. CASE h = g
  <2>1. c = d /\ ~InFlight(h) /\ value'[h] = json.n
    BY <1>2 DEF Write, RunInv, RunTypes, KeepsUp
  <2>2. Writes(c, h)' /\ put'.val = value'[h]
    BY <1>1, <1>2, <2>1 DEF Writes
  <2>3. LearnsLast(c, h)'
    BY <1>1, <2>1, <2>2, LearnsFromNoQueue DEF InFlight
  <2> QED
    BY <1>1, <2>1, <2>3 DEF Learns, InFlight
<1>3. CASE h # g
  <2>1. value'[h] = value[h] /\ behind'[h] = behind[h]
    BY <1>3 DEF Write, RunInv, RunTypes
  <2>2. Learns(c, h)
    BY <1>1, <2>1, SetupStays DEF KeepsUp, CurrentInv
  <2>3. ~Writes(c, h)'
    BY <1>1, <1>3 DEF Writes
  <2>4. LearnsLast(c, h)' <=> LearnsLast(c, h)
    BY <1>1, <2>1, <2>3, LastStays
  <2> QED
    BY <1>1, <2>1, <2>2, <2>4, LearnsOn
<1> QED
  BY <1>2, <1>3

LEMMA WriteReturnsKeeps ==
  ASSUME RunInv, CurrentInv, NEW c \in Ctls, NEW h \in Handles, KeepsUp(c, h)', WriteReturns
  PROVE  Learns(c, h)'
<1>1. /\ UNCHANGED <<setupVars, fd, subs, value, app, queue, behind>>
      /\ ~Writes(c, h)' /\ put.ctl \in Ctls /\ put.chr \in Handles /\ put.pc = "written"
  BY DEF WriteReturns, RunInv, TasksInv, Writes, NoPut
<1>2. Learns(c, h)
  BY <1>1, SetupStays DEF KeepsUp, CurrentInv
<1>3. mirror'[c][h] = IF Writes(c, h) THEN put.val ELSE mirror[c][h]
  BY <1>1 DEF WriteReturns, RunInv, RunTypes, Writes
<1>4. LearnsLast(c, h) => LearnsLast(c, h)'
  <2>1. ASSUME Writes(c, h), LearnsLast(c, h)
        PROVE  LearnsLast(c, h)'
    <3>1. mirror'[c][h] = put.val
      BY <1>3, <2>1
    <3>2. NoneFor(queue, fd[c], h) => put.val = value[h]
      BY <2>1 DEF LearnsLast
    <3> QED
      BY <1>1, <2>1, <3>1, <3>2 DEF LearnsLast
  <2>2. CASE ~Writes(c, h)
    BY <1>1, <1>3, <2>2, LastStays
  <2> QED
    BY <2>1, <2>2
<1> QED
  BY <1>1, <1>2, <1>4, LearnsOn

\* A step of the application's task that leaves the queue as it is keeps up
\* those who do not care for its characteristic.
LEMMA OtherNotification ==
  ASSUME RunInv, CurrentInv, NEW c \in Ctls, NEW h \in Handles, KeepsUp(c, h)',
         UNCHANGED <<setupVars, fd, mirror, put, queue>>,
         value'[h] = value[h], behind'[h] = behind[h],
         ~(app.chr = h /\ app.pc # "idle"), ~(app'.chr = h /\ app'.pc # "idle")
  PROVE  Learns(c, h)'
<1>1. Learns(c, h)
  BY SetupStays DEF KeepsUp, CurrentInv
<1>2. LearnsLast(c, h)' <=> LearnsLast(c, h)
  BY LastStays DEF Writes
<1> QED
  BY <1>1, <1>2 DEF Learns

LEMMA ChangeKeeps ==
  ASSUME RunInv, CurrentInv, NEW c \in Ctls, NEW h \in Handles, KeepsUp(c, h)',
         NEW g \in Handles, NEW v \in Values, AppChange(g, v)
  PROVE  Learns(c, h)'
<1>1. app'.pc = "changed" /\ app'.chr = g
  BY DEF AppChange, NoNotify
<1>2. CASE g = h
  BY <1>1, <1>2 DEF Learns
<1>3. CASE g # h
  <2>1. value'[h] = value[h] /\ app.pc = "idle"
    BY <1>3 DEF AppChange, RunInv, RunTypes
  <2> QED
    BY <1>1, <1>3, <2>1, OtherNotification DEF AppChange
<1> QED
  BY <1>2, <1>3

LEMMA NotifyKeeps ==
  ASSUME RunInv, CurrentInv, NEW c \in Ctls, NEW h \in Handles, KeepsUp(c, h)',
         NotifyNobody \/ NotifyGetSockets \/ NotifyReadValue \/ NotifyQueueFails
  PROVE  Learns(c, h)'
<1>1. /\ UNCHANGED <<setupVars, fd, subs, value, mirror, put, queue>> /\ app.pc # "idle"
      /\ app' = NoNotify \/ app'.chr = app.chr
      /\ app.chr \in Handles
  BY DEF NotifyNobody, NotifyGetSockets, NotifyReadValue, NotifyQueueFails, NotifyGoesOn,
         RunInv, TasksInv, AppType
<1>2. CASE app.chr # h
  <2>1. behind'[h] = behind[h]
    BY <1>2 DEF NotifyNobody, NotifyGetSockets, NotifyReadValue, NotifyQueueFails, RunInv, RunTypes
  <2> QED
    BY <1>1, <1>2, <2>1, OtherNotification DEF NoNotify
<1>3. CASE app.chr = h
  <2>1. ASSUME NotifyNobody
        PROVE  Learns(c, h)'
    BY <1>3, <2>1 DEF NotifyNobody, KeepsUp, RunInv, RunTypes
  <2>2. ASSUME NotifyGetSockets
        PROVE  Learns(c, h)'
    BY <1>3, <2>2 DEF NotifyGetSockets, Learns, RunInv, AppType
  <2>3. ASSUME NotifyReadValue
        PROVE  Learns(c, h)'
    <3>1. behind'[h] = Without(app.socks)
      BY <1>3, <2>3 DEF NotifyReadValue, RunInv, RunTypes
    <3>2. fd'[c] \in ToSet(app.socks)
      BY <1>1, <3>1 DEF KeepsUp, Without
    <3>3. Formatted(At(h), value[h]) = value'[h]
      BY <1>1, SetupStays DEF KeepsUp, HasEvents, Formatted
    <3>4. app'.pc = "queue" /\ app'.socks = app.socks /\ app'.val = value'[h] /\ app'.chr = h
      BY <1>3, <2>3, <3>3 DEF NotifyReadValue, RunInv, AppType
    <3> QED
      BY <3>2, <3>4 DEF Learns
  <2>4. ASSUME NotifyQueueFails
        PROVE  Learns(c, h)'
    <3>1. behind'[h] = behind[h] \cup {d \in Ctls : fd[d] \in ToSet(app.socks)}
      BY <1>3, <2>4 DEF NotifyQueueFails, RunInv, RunTypes
    <3>2. c \notin behind[h] /\ fd[c] \notin ToSet(app.socks)
      BY <3>1 DEF KeepsUp
    <3>3. Learns(c, h)
      BY <1>1, <3>2, SetupStays DEF KeepsUp, CurrentInv
    <3>4. LearnsLast(c, h)
      BY <1>3, <2>4, <3>2, <3>3 DEF NotifyQueueFails, Learns
    <3>5. LearnsLast(c, h)'
      BY <1>1, <3>4, LastStays DEF Writes
    <3>6. app'.pc = "idle"
      BY <2>4 DEF NotifyQueueFails, NotifyGoesOn, NoNotify
    <3> QED
      BY <3>5, <3>6 DEF Learns
  <2> QED
    BY <2>1, <2>2, <2>3, <2>4
<1> QED
  BY <1>2, <1>3

\* An event joins the queue: it is the latest one for its controller.
LEMMA LastOfAppend ==
  ASSUME NEW S, NEW q \in Seq(S), NEW event \in S, NEW f, NEW h, NEW v
  PROVE  /\ For(event, f, h) /\ event.val = v =>
              LastShows(Append(q, event), f, h, v) /\ ~NoneFor(Append(q, event), f, h)
         /\ ~For(event, f, h) =>
              /\ LastShows(q, f, h, v) => LastShows(Append(q, event), f, h, v)
              /\ NoneFor(Append(q, event), f, h) => NoneFor(q, f, h)
<1> DEFINE n == Len(q)
           a == Append(q, event)
<1>1. /\ n \in Nat /\ DOMAIN q = 1..n /\ DOMAIN a = 1..(n + 1)
      /\ a[n + 1] = event /\ \A i \in 1..n : a[i] = q[i]
  OBVIOUS
<1> HIDE DEF n, a
<1>2. n + 1 \in 1..(n + 1) /\ \A i \in 1..(n + 1) : i = n + 1 \/ (i \in 1..n /\ n + 1 > i)
  BY <1>1
<1>3. ASSUME For(event, f, h), event.val = v
      PROVE  LastShows(a, f, h, v) /\ ~NoneFor(a, f, h)
  BY <1>1, <1>2, <1>3 DEF LastShows, NoneFor
<1>4. ASSUME ~For(event, f, h)
      PROVE  /\ LastShows(q, f, h, v) => LastShows(a, f, h, v)
             /\ NoneFor(a, f, h) => NoneFor(q, f, h)
  <2>1. \A i \in 1..n : i \in 1..(n + 1) /\ a[i] = q[i]
    BY <1>1
  <2> QED
    BY <1>1, <1>2, <1>4, <2>1 DEF LastShows, NoneFor
<1> QED
  BY <1>3, <1>4 DEF a

\* The oldest event leaves it.
LEMMA LastOfTail ==
  ASSUME NEW S, NEW q \in Seq(S), q # <<>>, NEW f, NEW h, NEW v, LastShows(q, f, h, v)
  PROVE  /\ LastShows(Tail(q), f, h, v)
         /\ For(Head(q), f, h) /\ NoneFor(Tail(q), f, h) => Head(q).val = v
         /\ ~For(Head(q), f, h) /\ NoneFor(Tail(q), f, h) => NoneFor(q, f, h)
<1> DEFINE n == Len(q)
           t == Tail(q)
<1>1. /\ n \in Nat \ {0} /\ DOMAIN q = 1..n /\ DOMAIN t = 1..(n - 1)
      /\ Head(q) = q[1] /\ \A i \in 1..(n - 1) : t[i] = q[i + 1]
  OBVIOUS
<1> HIDE DEF n, t
<1>2. /\ \A i \in 1..(n - 1) : i + 1 \in 1..n
      /\ \A i \in 1..n : i = 1 \/ (i - 1 \in 1..(n - 1) /\ t[i - 1] = q[i])
      /\ 1 \in 1..n
  BY <1>1
<1>3. LastShows(t, f, h, v)
  <2>1. SUFFICES ASSUME NEW i \in 1..(n - 1), For(t[i], f, h),
                        \A j \in 1..(n - 1) : j > i => ~For(t[j], f, h)
                 PROVE  t[i].val = v
    BY <1>1 DEF LastShows
  <2>2. \A j \in 1..n : j > i + 1 => ~For(q[j], f, h)
    BY <1>1, <1>2, <2>1
  <2>3. i + 1 \in 1..n /\ t[i] = q[i + 1] /\ For(q[i + 1], f, h)
    BY <1>1, <1>2, <2>1
  <2>4. q[i + 1].val = v
    BY <1>1, <2>2, <2>3 DEF LastShows
  <2> QED
    BY <2>3, <2>4
<1>4. ASSUME NoneFor(t, f, h)
      PROVE  \A j \in 1..n : j # 1 => ~For(q[j], f, h)
  BY <1>1, <1>2, <1>4 DEF NoneFor
<1>5. For(Head(q), f, h) /\ NoneFor(t, f, h) => Head(q).val = v
  BY <1>1, <1>2, <1>4 DEF LastShows
<1>6. ~For(Head(q), f, h) /\ NoneFor(t, f, h) => NoneFor(q, f, h)
  BY <1>1, <1>4 DEF NoneFor
<1> QED
  BY <1>3, <1>5, <1>6 DEF t

LEMMA NotifyQueueKeeps ==
  ASSUME RunInv, CurrentInv, NEW c \in Ctls, NEW h \in Handles, KeepsUp(c, h)', NotifyQueue
  PROVE  Learns(c, h)'
<1> DEFINE Event == [fd : Fds, chr : Handles, val : Sent]
           event == [fd |-> Head(app.socks), chr |-> app.chr, val |-> app.val]
<1>1. /\ UNCHANGED <<setupVars, fd, subs, value, mirror, put, behind>>
      /\ app.pc = "queue" /\ app.chr \in Handles /\ app.socks \in Seq(Fds) /\ app.socks # <<>>
      /\ queue' = Append(queue, event) /\ queue \in Seq(Event)
  BY DEF NotifyQueue, RunInv, TasksInv, AppType, QueueType
<1>2. /\ Head(app.socks) \in Fds /\ event \in Event
      /\ \A f : f \in ToSet(app.socks) =>
           f = Head(app.socks) \/ (f \in ToSet(Tail(app.socks)) /\ Tail(app.socks) # <<>>)
  <2>1. Head(app.socks) \in Fds /\ app.val \in Sent
    BY <1>1 DEF RunInv, AppType
  <2>2. ASSUME NEW f, f \in ToSet(app.socks), f # Head(app.socks)
        PROVE  f \in ToSet(Tail(app.socks)) /\ Tail(app.socks) # <<>>
    <3>1. PICK i \in 1..Len(app.socks) : app.socks[i] = f
      BY <1>1, <2>2 DEF ToSet
    <3>2. i - 1 \in 1..Len(Tail(app.socks)) /\ Tail(app.socks)[i - 1] = f
      BY <1>1, <2>2, <3>1
    <3>3. DOMAIN Tail(app.socks) = 1..Len(Tail(app.socks))
      BY <1>1
    <3>4. f \in ToSet(Tail(app.socks))
      BY <3>2, <3>3 DEF ToSet
    <3>5. ASSUME Tail(app.socks) = <<>>
          PROVE  FALSE
      <4>1. Len(Tail(app.socks)) = 0
        BY <1>1, <3>5, EmptySeq, HeadTailProperties
      <4> QED
        BY <3>2, <4>1
    <3> QED
      BY <3>4, <3>5
  <2> QED
    BY <1>1, <2>1, <2>2
<1>3. /\ For(event, fd[c], h) <=> (Head(app.socks) = fd[c] /\ app.chr = h)
      /\ event.val = app.val
  BY DEF For
<1> HIDE DEF Event, event
<1>4. Learns(c, h)
  BY <1>1, SetupStays DEF KeepsUp, CurrentInv
<1>5. ASSUME For(event, fd[c], h), app.val = value[h]
      PROVE  LearnsLast(c, h)'
  BY <1>1, <1>2, <1>3, <1>5, LastOfAppend DEF LearnsLast
<1>6. ASSUME ~For(event, fd[c], h), LearnsLast(c, h)
      PROVE  LearnsLast(c, h)'
  BY <1>1, <1>2, <1>6, LastOfAppend DEF LearnsLast, Writes
<1>7. CASE app.chr = h
  <2>1. app.val = value[h] /\ (fd[c] \in ToSet(app.socks) \/ LearnsLast(c, h))
    BY <1>1, <1>4, <1>7 DEF Learns
  <2>2. CASE Tail(app.socks) = <<>>
    <3>1. LearnsLast(c, h)'
      BY <1>2, <1>3, <1>5, <1>6, <1>7, <2>1, <2>2
    <3>2. app'.pc = "idle"
      BY <2>2 DEF NotifyQueue, NotifyGoesOn, NoNotify
    <3> QED
      BY <3>1, <3>2 DEF Learns
  <2>3. CASE Tail(app.socks) # <<>>
    <3>1. fd[c] \in ToSet(Tail(app.socks)) \/ LearnsLast(c, h)'
      BY <1>2, <1>3, <1>5, <1>6, <1>7, <2>1
    <3>2. app' = [app EXCEPT !.socks = Tail(app.socks)]
      BY <2>3 DEF NotifyQueue, NotifyGoesOn
    <3>3. /\ app'.pc = "queue" /\ app'.chr = h
          /\ app'.val = app.val /\ app'.socks = Tail(app.socks)
      BY <1>1, <1>7, <3>2 DEF RunInv, AppType
    <3> QED
      BY <1>1, <2>1, <3>1, <3>3 DEF Learns
  <2> QED
    BY <2>2, <2>3
<1>8. CASE app.chr # h
  <2>1. LearnsLast(c, h)'
    BY <1>3, <1>4, <1>6, <1>8 DEF Learns
  <2>2. app'.pc = "idle" \/ app'.chr = app.chr
    BY <1>1 DEF NotifyQueue, NotifyGoesOn, NoNotify, RunInv, AppType
  <2> QED
    BY <1>8, <2>1, <2>2 DEF Learns
<1> QED
  BY <1>7, <1>8

\* Whoever is sent the event takes it for the characteristic it is about.
LEMMA SendKeeps ==
  ASSUME RunInv, CurrentInv, NEW c \in Ctls, NEW h \in Handles, KeepsUp(c, h)',
         SendEvent \/ SendEventFails
  PROVE  Learns(c, h)'
<1> DEFINE Event == [fd : Fds, chr : Handles, val : Sent]
           event == Head(queue)
<1>1. /\ UNCHANGED <<setupVars, fd, subs, value, put, app>>
      /\ put.pc = "idle" /\ queue # <<>> /\ queue' = Tail(queue) /\ queue \in Seq(Event)
      /\ event.chr \in Handles
  <2>1. event \in Event
    <3>1. queue # <<>> /\ queue \in Seq(Event)
      BY DEF SendEvent, SendEventFails, RunInv, QueueType
    <3> HIDE DEF Event
    <3> QED
      BY <3>1
  <2> QED
    BY <2>1 DEF SendEvent, SendEventFails, HttpdIdle, RunInv, QueueType
<1>2. ~Writes(c, h) /\ ~Writes(c, h)'
  BY <1>1 DEF Writes
<1> HIDE DEF Event
<1>3. LastShows(queue, fd[c], h, value[h]) =>
        /\ LastShows(queue', fd[c], h, value[h])
        /\ For(event, fd[c], h) /\ NoneFor(queue', fd[c], h) => event.val = value[h]
        /\ ~For(event, fd[c], h) /\ NoneFor(queue', fd[c], h) => NoneFor(queue, fd[c], h)
  BY <1>1, LastOfTail
<1>4. fd[c] # Null /\ HasEvents(h)
  BY <1>1, SetupStays DEF KeepsUp
<1>5. CASE SendEvent
  <2>1. PICK d \in Receivers : TakesEvent(d, event)
    BY <1>5 DEF SendEvent
  <2>2. d \in Ctls /\ fd[d] = event.fd
    BY <2>1 DEF Receivers
  <2>3. mirror'[c][h] = IF c = d /\ h \in Meant(event.chr) THEN event.val ELSE mirror[c][h]
    BY <2>1, <2>2 DEF TakesEvent, RunInv, RunTypes
  <2>4. c = d <=> fd[c] = event.fd
    BY <1>4, <2>2 DEF RunInv, SocketsInv
  <2>5. h \in Meant(event.chr) <=> event.chr = h
    BY <1>1, <1>4 DEF HasEvents
  <2>6. mirror'[c][h] = IF For(event, fd[c], h) THEN event.val ELSE mirror[c][h]
    BY <2>3, <2>4, <2>5 DEF For
  <2>7. Learns(c, h)
    BY <1>1, <1>4, <1>5 DEF SendEvent, KeepsUp, CurrentInv
  <2>8. LearnsLast(c, h) => LearnsLast(c, h)'
    BY <1>1, <1>2, <1>3, <2>6 DEF LearnsLast
  <2> QED
    BY <1>1, <2>7, <2>8, LearnsOn
<1>6. CASE SendEventFails
  <2>1. ~For(event, fd[c], h) /\ c \notin behind[h]
    BY <1>1, <1>6 DEF SendEventFails, KeepsUp, For, Receivers, RunInv, RunTypes
  <2>2. Learns(c, h)
    BY <1>4, <2>1 DEF KeepsUp, CurrentInv
  <2>3. mirror' = mirror
    BY <1>6 DEF SendEventFails
  <2>4. LearnsLast(c, h) => LearnsLast(c, h)'
    BY <1>1, <1>2, <1>3, <2>1, <2>3 DEF LearnsLast
  <2> QED
    BY <1>1, <2>2, <2>4, LearnsOn
<1> QED
  BY <1>5, <1>6

\* Without connections there is nothing to keep up with.
LEMMA NobodyKeepsUp ==
  ASSUME InitRun
  PROVE  CurrentInv
BY DEF InitRun, CurrentInv, KeepsUp

LEMMA CurrentStep ==
  ASSUME TypeInv, CurrentInv, [Next]_vars
  PROVE  CurrentInv'
<1>1. ~Running => put.pc = "idle" /\ app.pc = "idle" /\ queue = <<>>
  BY DEF TypeInv, StartInv, InitRun, NoPut, NoNotify
<1>2. CASE Setup
  <2>1. ~Running /\ UNCHANGED runVars
    BY <1>2, SetupComesFirst DEF TypeInv, TypeOK
  <2>2. InitRun'
    BY <2>1 DEF TypeInv, StartInv, InitRun, runVars, Store!Init
  <2> QED
    BY <2>2, NobodyKeepsUp, PTL
<1>3. CASE SendEventPanics \/ PowerFailure
  <2>1. InitRun'
    BY <1>3 DEF SendEventPanics, PowerFailure, Restart, InitRun, Store!Restart, Store!Init
  <2> QED
    BY <2>1, NobodyKeepsUp, PTL
<1>4. CASE UNCHANGED vars
  <2>1. UNCHANGED <<setupVars, runVars>>
    BY <1>4 DEF vars
  <2>2. ASSUME NEW c \in Ctls, NEW h \in Handles, KeepsUp(c, h)'
        PROVE  Learns(c, h)'
    <3>1. Learns(c, h)
      BY <2>1, <2>2, SetupStays DEF runVars, KeepsUp, CurrentInv
    <3>2. LearnsLast(c, h)' <=> LearnsLast(c, h)
      BY <2>1, LastStays DEF runVars, Writes
    <3> QED
      BY <2>1, <3>1, <3>2, LearnsOn DEF runVars
  <2> QED
    BY <2>2 DEF CurrentInv
<1>5. ASSUME NEW c \in Ctls, NEW h \in Handles, KeepsUp(c, h)', RunInv,
             ~Setup, ~SendEventPanics, ~PowerFailure, Next
      PROVE  Learns(c, h)'
  BY <1>5, ConnectionsKeep, GetKeeps, SubscriptionsKeep, WriteKeeps, WriteReturnsKeeps,
     ChangeKeeps, NotifyKeeps, NotifyQueueKeeps, SendKeeps
  DEF Next, NotifyStep, SendStep
<1>6. ASSUME ~Setup, ~SendEventPanics, ~PowerFailure, Next
      PROVE  Running
  BY <1>1, <1>6
  DEF Next, NotifyStep, SendStep, Connect, Close, Get, Subscribe, Unsubscribe, Write, WriteFails,
      WriteReturns, WriteReplyFails, AppChange, NotifyNobody, NotifyGetSockets, NotifyReadValue,
      NotifyQueue, NotifyQueueFails, SendEvent, SendEventFails, HttpdIdle
<1> QED
  BY <1>2, <1>3, <1>4, <1>5, <1>6, InvWhileRunning DEF CurrentInv

\* What is on the way to a controller that keeps up ends with the current value.
THEOREM CurrentHolds == Spec => []CurrentInv
<1>1. Init => CurrentInv
  BY NobodyKeepsUp DEF Init
<1> QED
  BY <1>1, TypesHold, CurrentStep, PTL DEF Spec

(***************************************************************************)
(* A listener has the current value when the tasks are at rest, unless the *)
(* code left it behind: the events hk_chrs_notify queues for it come in    *)
(* the order of the changes, each with a value that is recent enough, and  *)
(* what its own reads and writes tell it in between is no older.           *)
(***************************************************************************)
THEOREM ListenersAreCurrent == Spec => []ListenerIsCurrent
<1>1. TypeInv /\ CurrentInv => ListenerIsCurrent
  <2>1. SUFFICES ASSUME CurrentInv, put.pc = "idle", app.pc = "idle", queue = <<>>,
                        NEW h \in Handles, NEW c \in Ctls, KeepsUp(c, h)
                 PROVE  mirror[c][h] = value[h]
    BY DEF ListenerIsCurrent, Listens, KeepsUp
  <2>2. LearnsLast(c, h) /\ NoneFor(queue, fd[c], h) /\ ~Writes(c, h)
    BY <2>1 DEF CurrentInv, Learns, NoneFor, Writes
  <2> QED
    BY <2>2 DEF LearnsLast
<1> QED
  BY <1>1, TypesHold, CurrentHolds, PTL

-----------------------------------------------------------------------------
(* The setup.  A call that adds several things is a fold over what it      *)
(* adds; a fold of the community modules is a recursive function, of which *)
(* it has to be shown that it exists, once for all of them.                *)

\* The steps of the folds.
Step(op, aid, x, y) ==
  CASE op = "chr" -> IpAddChr(x, y)
    [] op = "srv" -> IpAdd(x, y)
    [] op = "number" -> NumberSrv(aid, x, y)
    [] op = "ble chr" -> BleAddChr(x, y)
    [] op = "ble srv" -> BleAdd(x, y)

\* What MapThenFoldSet makes of a set of indices, by the largest one.
Iterate(op, aid, base, s, g, t) ==
  IF t = {} THEN base ELSE Step(op, aid, g[t \ {Max(t)}], s[Max(t)])

Iterates(g, op, aid, base, s, N) ==
  g = [t \in SUBSET (1..N) |-> Iterate(op, aid, base, s, g, t)]

LEMMA Iteration ==
  ASSUME NEW op, NEW aid, NEW base, NEW s, NEW N \in Nat
  PROVE  \E g : Iterates(g, op, aid, base, s, N)
<1> DEFINE Body(g, t) == Iterate(op, aid, base, s, g, t)
           Fold(n) == \E g : g = [t \in SUBSET (1..n) |-> Body(g, t)]
           S == {n \in Nat : Fold(n)}
<1>1. Fold(0)
  <2> DEFINE g == [t \in SUBSET (1..0) |-> base]
  <2>1. g = [t \in SUBSET (1..0) |-> Body(g, t)]
    <3>1. \A t \in SUBSET (1..0) : t = {}
      OBVIOUS
    <3> QED
      BY <3>1 DEF Iterate
  <2> QED
    BY <2>1
<1>2. ASSUME NEW n \in Nat, Fold(n) PROVE Fold(n + 1)
  <2>1. PICK g : g = [t \in SUBSET (1..n) |-> Body(g, t)]
    BY <1>2
  <2> DEFINE h == [t \in SUBSET (1..(n + 1)) |-> Body(g, t)]
  <2>2. \A t \in SUBSET (1..n) : t \in SUBSET (1..(n + 1)) /\ h[t] = g[t]
    <3>1. (1..n) \subseteq (1..(n + 1))
      OBVIOUS
    <3> HIDE DEF Body
    <3> QED
      BY <2>1, <3>1
  <2>3. ASSUME NEW t \in SUBSET (1..(n + 1)) PROVE Body(h, t) = Body(g, t)
    <3>1. t # {} => h[t \ {Max(t)}] = g[t \ {Max(t)}]
      BY <2>2, WithoutLargest
    <3> HIDE DEF h
    <3> QED
      BY <3>1 DEF Iterate
  <2>4. h = [t \in SUBSET (1..(n + 1)) |-> Body(h, t)]
    <3> HIDE DEF Body
    <3> QED
      BY <2>3
  <2> QED
    BY <2>4
<1> HIDE DEF Fold
<1>3. S \in SUBSET Nat /\ 0 \in S /\ \A n \in S : n + 1 \in S
  BY <1>1, <1>2
<1>4. S = Nat
  <2> HIDE DEF S
  <2> QED
    BY <1>3, Induction
<1> QED
  BY <1>4 DEF Fold, Iterates

\* A fold over a sequence, element by element; r is the result.
Unfolds(f, op, aid, base, s, N, r) ==
  /\ f[0] = base
  /\ \A n \in 1..N : f[n] = Step(op, aid, f[n - 1], s[n])
  /\ f[N] = r

LEMMA Unfolded ==
  ASSUME NEW op, NEW aid, NEW base, NEW s, NEW N \in Nat,
         NEW g, Iterates(g, op, aid, base, s, N)
  PROVE  \E f : Unfolds(f, op, aid, base, s, N, g[1..N])
<1> DEFINE f == [n \in 0..N |-> g[1..n]]
<1>1. f[0] = base
  <2>1. {} \in SUBSET (1..N) /\ 1..0 = {}
    OBVIOUS
  <2>2. g[{}] = base
    BY <2>1 DEF Iterate, Iterates
  <2> QED
    BY <2>1, <2>2
<1>2. ASSUME NEW n \in 1..N
      PROVE  f[n] = Step(op, aid, f[n - 1], s[n])
  <2>1. n - 1 \in Nat /\ n = (n - 1) + 1
    OBVIOUS
  <2>2. 1..n \in SUBSET (1..N) /\ 1..n # {}
    <3>1. (1..n) \subseteq (1..N) /\ 1 \in 1..n
      OBVIOUS
    <3> QED
      BY <3>1
  <2>3. Max(1..n) = n /\ (1..n) \ {n} = 1..(n - 1)
    BY <2>1, LastIndex
  <2>4. g[1..n] = Step(op, aid, g[1..(n - 1)], s[n])
    BY <2>2, <2>3 DEF Iterate, Iterates
  <2>5. n \in 0..N /\ n - 1 \in 0..N
    OBVIOUS
  <2> QED
    BY <2>4, <2>5
<1>3. g[1..N] = f[N]
  OBVIOUS
<1> HIDE DEF f
<1> QED
  BY <1>1, <1>2, <1>3 DEF Unfolds

\* The folds one by one: f[n] is what there is after n of N elements.
AddChrsUnfolds(f, base, s, N) ==
  /\ f[0] = base
  /\ \A n \in 1..N : f[n] = IpAddChr(f[n - 1], s[n])
  /\ IpAddChrs(base, s) = f[N]

LEMMA AddChrsFold ==
  ASSUME NEW base, NEW s, NEW N \in Nat, DOMAIN s = 1..N
  PROVE  \E f : AddChrsUnfolds(f, base, s, N)
<1> DEFINE D == 1..N
           Body(g, t) ==
             IF t = {} THEN base
             ELSE IpAddChr(g[t \ {Max(t)}], s[Max(t)])
           iter == CHOOSE g : g = [t \in SUBSET D |-> Body(g, t)]
<1>1. IpAddChrs(base, s) = iter[D]
  BY DEF IpAddChrs, FoldLeft, MapThenFoldSet
<1>2. \A g, t : Iterate("chr", 0, base, s, g, t) = Body(g, t)
  BY DEF Step, Iterate
<1> HIDE DEF Body
<1>3. Iterates(iter, "chr", 0, base, s, N)
  <2>1. PICK g : Iterates(g, "chr", 0, base, s, N)
    BY Iteration
  <2>2. g = [t \in SUBSET D |-> Body(g, t)]
    BY <1>2, <2>1 DEF Iterates
  <2>3. iter = [t \in SUBSET D |-> Body(iter, t)]
    BY <2>2
  <2> HIDE DEF iter
  <2> QED
    BY <1>2, <2>3 DEF Iterates
<1> HIDE DEF iter
<1>4. \E f : Unfolds(f, "chr", 0, base, s, N, iter[1..N])
  BY <1>3, Unfolded
<1> QED
  BY <1>1, <1>4 DEF Unfolds, Step, AddChrsUnfolds

AddAllUnfolds(f, base, s, N) ==
  /\ f[0] = base
  /\ \A n \in 1..N : f[n] = IpAdd(f[n - 1], s[n])
  /\ IpAddAll(base, s) = f[N]

LEMMA AddAllFold ==
  ASSUME NEW base, NEW s, NEW N \in Nat, DOMAIN s = 1..N
  PROVE  \E f : AddAllUnfolds(f, base, s, N)
<1> DEFINE D == 1..N
           Body(g, t) ==
             IF t = {} THEN base
             ELSE IpAdd(g[t \ {Max(t)}], s[Max(t)])
           iter == CHOOSE g : g = [t \in SUBSET D |-> Body(g, t)]
<1>1. IpAddAll(base, s) = iter[D]
  BY DEF IpAddAll, FoldLeft, MapThenFoldSet
<1>2. \A g, t : Iterate("srv", 0, base, s, g, t) = Body(g, t)
  BY DEF Step, Iterate
<1> HIDE DEF Body
<1>3. Iterates(iter, "srv", 0, base, s, N)
  <2>1. PICK g : Iterates(g, "srv", 0, base, s, N)
    BY Iteration
  <2>2. g = [t \in SUBSET D |-> Body(g, t)]
    BY <1>2, <2>1 DEF Iterates
  <2>3. iter = [t \in SUBSET D |-> Body(iter, t)]
    BY <2>2
  <2> HIDE DEF iter
  <2> QED
    BY <1>2, <2>3 DEF Iterates
<1> HIDE DEF iter
<1>4. \E f : Unfolds(f, "srv", 0, base, s, N, iter[1..N])
  BY <1>3, Unfolded
<1> QED
  BY <1>1, <1>4 DEF Unfolds, Step, AddAllUnfolds

NumberUnfolds(f, aid, s, N) ==
  /\ f[0] = [iid |-> 0, srvs |-> <<>>]
  /\ \A n \in 1..N : f[n] = NumberSrv(aid, f[n - 1], s[n])
  /\ NumberSrvs(aid, s) = f[N]

LEMMA NumberFold ==
  ASSUME NEW aid, NEW s, NEW N \in Nat, DOMAIN s = 1..N
  PROVE  \E f : NumberUnfolds(f, aid, s, N)
<1> DEFINE D == 1..N
           Body(g, t) ==
             IF t = {} THEN [iid |-> 0, srvs |-> <<>>]
             ELSE NumberSrv(aid, g[t \ {Max(t)}], s[Max(t)])
           iter == CHOOSE g : g = [t \in SUBSET D |-> Body(g, t)]
<1>1. NumberSrvs(aid, s) = iter[D]
  BY DEF NumberSrvs, FoldLeft, MapThenFoldSet
<1>2. \A g, t : Iterate("number", aid, [iid |-> 0, srvs |-> <<>>], s, g, t) = Body(g, t)
  BY DEF Step, Iterate
<1> HIDE DEF Body
<1>3. Iterates(iter, "number", aid, [iid |-> 0, srvs |-> <<>>], s, N)
  <2>1. PICK g : Iterates(g, "number", aid, [iid |-> 0, srvs |-> <<>>], s, N)
    BY Iteration
  <2>2. g = [t \in SUBSET D |-> Body(g, t)]
    BY <1>2, <2>1 DEF Iterates
  <2>3. iter = [t \in SUBSET D |-> Body(iter, t)]
    BY <2>2
  <2> HIDE DEF iter
  <2> QED
    BY <1>2, <2>3 DEF Iterates
<1> HIDE DEF iter
<1>4. \E f : Unfolds(f, "number", aid, [iid |-> 0, srvs |-> <<>>], s, N, iter[1..N])
  BY <1>3, Unfolded
<1> QED
  BY <1>1, <1>4 DEF Unfolds, Step, NumberUnfolds

BleAddChrsUnfolds(f, base, s, N) ==
  /\ f[0] = base
  /\ \A n \in 1..N : f[n] = BleAddChr(f[n - 1], s[n])
  /\ BleAddChrs(base, s) = f[N]

LEMMA BleAddChrsFold ==
  ASSUME NEW base, NEW s, NEW N \in Nat, DOMAIN s = 1..N
  PROVE  \E f : BleAddChrsUnfolds(f, base, s, N)
<1> DEFINE D == 1..N
           Body(g, t) ==
             IF t = {} THEN base
             ELSE BleAddChr(g[t \ {Max(t)}], s[Max(t)])
           iter == CHOOSE g : g = [t \in SUBSET D |-> Body(g, t)]
<1>1. BleAddChrs(base, s) = iter[D]
  BY DEF BleAddChrs, FoldLeft, MapThenFoldSet
<1>2. \A g, t : Iterate("ble chr", 0, base, s, g, t) = Body(g, t)
  BY DEF Step, Iterate
<1> HIDE DEF Body
<1>3. Iterates(iter, "ble chr", 0, base, s, N)
  <2>1. PICK g : Iterates(g, "ble chr", 0, base, s, N)
    BY Iteration
  <2>2. g = [t \in SUBSET D |-> Body(g, t)]
    BY <1>2, <2>1 DEF Iterates
  <2>3. iter = [t \in SUBSET D |-> Body(iter, t)]
    BY <2>2
  <2> HIDE DEF iter
  <2> QED
    BY <1>2, <2>3 DEF Iterates
<1> HIDE DEF iter
<1>4. \E f : Unfolds(f, "ble chr", 0, base, s, N, iter[1..N])
  BY <1>3, Unfolded
<1> QED
  BY <1>1, <1>4 DEF Unfolds, Step, BleAddChrsUnfolds

BleAddAllUnfolds(f, base, s, N) ==
  /\ f[0] = base
  /\ \A n \in 1..N : f[n] = BleAdd(f[n - 1], s[n])
  /\ BleAddAll(base, s) = f[N]

LEMMA BleAddAllFold ==
  ASSUME NEW base, NEW s, NEW N \in Nat, DOMAIN s = 1..N
  PROVE  \E f : BleAddAllUnfolds(f, base, s, N)
<1> DEFINE D == 1..N
           Body(g, t) ==
             IF t = {} THEN base
             ELSE BleAdd(g[t \ {Max(t)}], s[Max(t)])
           iter == CHOOSE g : g = [t \in SUBSET D |-> Body(g, t)]
<1>1. BleAddAll(base, s) = iter[D]
  BY DEF BleAddAll, FoldLeft, MapThenFoldSet
<1>2. \A g, t : Iterate("ble srv", 0, base, s, g, t) = Body(g, t)
  BY DEF Step, Iterate
<1> HIDE DEF Body
<1>3. Iterates(iter, "ble srv", 0, base, s, N)
  <2>1. PICK g : Iterates(g, "ble srv", 0, base, s, N)
    BY Iteration
  <2>2. g = [t \in SUBSET D |-> Body(g, t)]
    BY <1>2, <2>1 DEF Iterates
  <2>3. iter = [t \in SUBSET D |-> Body(iter, t)]
    BY <2>2
  <2> HIDE DEF iter
  <2> QED
    BY <1>2, <2>3 DEF Iterates
<1> HIDE DEF iter
<1>4. \E f : Unfolds(f, "ble srv", 0, base, s, N, iter[1..N])
  BY <1>3, Unfolded
<1> QED
  BY <1>1, <1>4 DEF Unfolds, Step, BleAddAllUnfolds

-----------------------------------------------------------------------------
(* The IP stack: the lists of a setup that goes on.                        *)

\* Characteristic k of service s of accessory a, and so on; a list is backwards.
RawChr(a, s, k, c) ==
  [aid |-> 0, iid |-> 0, type |-> c.type, access |-> c.access, ptr |-> <<a, s, k>>]

RawChrs(a, s, chrs) ==
  [i \in 1..Len(chrs) |-> RawChr(a, s, Len(chrs) + 1 - i, chrs[Len(chrs) + 1 - i])]

RawSrv(a, s, srv) == [iid |-> 0, type |-> srv.type, chrs |-> RawChrs(a, s, srv.chrs)]

RawSrvs(a, srvs) ==
  [i \in 1..Len(srvs) |-> RawSrv(a, Len(srvs) + 1 - i, srvs[Len(srvs) + 1 - i])]

RawAccessory(a, srvs) == [aid |-> 0, srvs |-> RawSrvs(a, srvs)]

Raw(w) == [i \in 1..Len(w) |-> RawAccessory(Len(w) + 1 - i, w[Len(w) + 1 - i])]

LEMMA Prepended ==
  ASSUME NEW e, NEW n \in Nat, NEW l, DOMAIN l = 1..n, l = [i \in 1..n |-> l[i]]
  PROVE  <<e>> \o l = [i \in 1..(n + 1) |-> IF i = 1 THEN e ELSE l[i - 1]]
<1> DEFINE S == {e} \cup {l[i] : i \in 1..n}
<1>1. l \in Seq(S) /\ Len(l) = n /\ <<e>> \in Seq(S)
  OBVIOUS
<1> HIDE DEF S
<1>2. /\ <<e>> \o l \in Seq(S) /\ Len(<<e>> \o l) = n + 1
      /\ \A i \in 1..(n + 1) : (<<e>> \o l)[i] = IF i = 1 THEN e ELSE l[i - 1]
  BY <1>1, ConcatProperties
<1> QED
  BY <1>2

\* An element more at the end of a sequence.
LEMMA Appended ==
  ASSUME NEW S, NEW s \in Seq(S), NEW e \in S
  PROVE  /\ Append(s, e) \in Seq(S) /\ Len(Append(s, e)) = Len(s) + 1
         /\ DOMAIN Append(s, e) = 1..(Len(s) + 1)
         /\ \A i \in 1..Len(s) : Append(s, e)[i] = s[i]
         /\ Append(s, e)[Len(s) + 1] = e
         /\ Len(s) \in Nat
OBVIOUS

\* A list that is turned round grows at its head.
LEMMA RawChrsGrow ==
  ASSUME NEW a, NEW s, NEW chrs \in Seq(Chrs), NEW c \in Chrs
  PROVE  RawChrs(a, s, Append(chrs, c))
           = <<RawChr(a, s, Len(chrs) + 1, c)>> \o RawChrs(a, s, chrs)
<1> DEFINE n == Len(chrs)
           l == RawChrs(a, s, chrs)
           m == RawChrs(a, s, Append(chrs, c))
           e == RawChr(a, s, n + 1, c)
<1>1. /\ n \in Nat /\ Len(Append(chrs, c)) = n + 1
      /\ \A i \in 1..n : Append(chrs, c)[i] = chrs[i]
      /\ Append(chrs, c)[n + 1] = c
  BY Appended
<1>2. m = [i \in 1..(n + 1) |-> RawChr(a, s, n + 2 - i, Append(chrs, c)[n + 2 - i])]
  BY <1>1 DEF RawChrs
<1>3. l = [i \in 1..n |-> RawChr(a, s, n + 1 - i, chrs[n + 1 - i])]
  BY DEF RawChrs
<1> HIDE DEF n, l, m
<1>4. <<e>> \o l = [i \in 1..(n + 1) |-> IF i = 1 THEN e ELSE l[i - 1]]
  BY <1>1, <1>3, Prepended
<1>5. ASSUME NEW i \in 1..(n + 1)
      PROVE  m[i] = IF i = 1 THEN e ELSE l[i - 1]
  <2>1. CASE i = 1
    <3>1. n + 2 - i = n + 1
      BY <1>1, <2>1
    <3> QED
      BY <1>1, <1>2, <2>1, <3>1
  <2>2. CASE i # 1
    <3>1. i - 1 \in 1..n /\ n + 2 - i \in 1..n /\ n + 1 - (i - 1) = n + 2 - i
      BY <1>1, <2>2
    <3>2. l[i - 1] = RawChr(a, s, n + 1 - (i - 1), chrs[n + 1 - (i - 1)])
      BY <1>3, <3>1
    <3> QED
      BY <1>1, <1>2, <2>2, <3>1, <3>2
  <2> QED
    BY <2>1, <2>2
<1> HIDE DEF e
<1>6. m = <<e>> \o l
  BY <1>2, <1>4, <1>5
<1> QED
  BY <1>6 DEF m, l, e, n

LEMMA RawSrvsGrow ==
  ASSUME NEW a, NEW srvs \in Seq(Srvs), NEW srv \in Srvs
  PROVE  RawSrvs(a, Append(srvs, srv))
           = <<RawSrv(a, Len(srvs) + 1, srv)>> \o RawSrvs(a, srvs)
<1> DEFINE n == Len(srvs)
           l == RawSrvs(a, srvs)
           m == RawSrvs(a, Append(srvs, srv))
           e == RawSrv(a, n + 1, srv)
<1>1. /\ n \in Nat /\ Len(Append(srvs, srv)) = n + 1
      /\ \A i \in 1..n : Append(srvs, srv)[i] = srvs[i]
      /\ Append(srvs, srv)[n + 1] = srv
  BY Appended
<1>2. m = [i \in 1..(n + 1) |-> RawSrv(a, n + 2 - i, Append(srvs, srv)[n + 2 - i])]
  BY <1>1 DEF RawSrvs
<1>3. l = [i \in 1..n |-> RawSrv(a, n + 1 - i, srvs[n + 1 - i])]
  BY DEF RawSrvs
<1> HIDE DEF n, l, m
<1>4. <<e>> \o l = [i \in 1..(n + 1) |-> IF i = 1 THEN e ELSE l[i - 1]]
  BY <1>1, <1>3, Prepended
<1>5. ASSUME NEW i \in 1..(n + 1)
      PROVE  m[i] = IF i = 1 THEN e ELSE l[i - 1]
  <2>1. CASE i = 1
    <3>1. n + 2 - i = n + 1
      BY <1>1, <2>1
    <3> QED
      BY <1>1, <1>2, <2>1, <3>1
  <2>2. CASE i # 1
    <3>1. i - 1 \in 1..n /\ n + 2 - i \in 1..n /\ n + 1 - (i - 1) = n + 2 - i
      BY <1>1, <2>2
    <3>2. l[i - 1] = RawSrv(a, n + 1 - (i - 1), srvs[n + 1 - (i - 1)])
      BY <1>3, <3>1
    <3> QED
      BY <1>1, <1>2, <2>2, <3>1, <3>2
  <2> QED
    BY <2>1, <2>2
<1> HIDE DEF e
<1>6. m = <<e>> \o l
  BY <1>2, <1>4, <1>5
<1> QED
  BY <1>6 DEF m, l, e, n

\* The accessory added last is the head of the list.
LEMMA RawOfLast ==
  ASSUME NEW w \in Seq(Seq(Srvs)), NEW srvs \in Seq(Srvs)
  PROVE  Raw(Append(w, srvs))
           = [i \in 1..(Len(w) + 1) |->
                IF i = 1 THEN RawAccessory(Len(w) + 1, srvs) ELSE Raw(w)[i - 1]]
<1> DEFINE n == Len(w)
           l == Raw(w)
           v == Append(w, srvs)
<1>1. /\ n \in Nat /\ Len(v) = n + 1
      /\ \A i \in 1..n : v[i] = w[i]
      /\ v[n + 1] = srvs
  BY Appended
<1>2. Raw(v) = [i \in 1..(n + 1) |-> RawAccessory(n + 2 - i, v[n + 2 - i])]
  BY <1>1 DEF Raw
<1>3. l = [i \in 1..n |-> RawAccessory(n + 1 - i, w[n + 1 - i])]
  BY DEF Raw
<1> HIDE DEF n, l, v
<1>5. ASSUME NEW i \in 1..(n + 1)
      PROVE  Raw(v)[i] = IF i = 1 THEN RawAccessory(n + 1, srvs) ELSE l[i - 1]
  <2>1. CASE i = 1
    <3>1. n + 2 - i = n + 1
      BY <1>1, <2>1
    <3> QED
      BY <1>1, <1>2, <2>1, <3>1
  <2>2. CASE i # 1
    <3>1. i - 1 \in 1..n /\ n + 2 - i \in 1..n /\ n + 1 - (i - 1) = n + 2 - i
      BY <1>1, <2>2
    <3>2. l[i - 1] = RawAccessory(n + 1 - (i - 1), w[n + 1 - (i - 1)])
      BY <1>3, <3>1
    <3> QED
      BY <1>1, <1>2, <2>2, <3>1, <3>2
  <2> QED
    BY <2>1, <2>2
<1>6. Raw(v) = [i \in 1..(n + 1) |-> IF i = 1 THEN RawAccessory(n + 1, srvs) ELSE l[i - 1]]
  BY <1>2, <1>5
<1> QED
  BY <1>6 DEF n, l, v

LEMMA AddsAccessory ==
  ASSUME NEW w \in Seq(Seq(Srvs))
  PROVE  IpAddAccessory(Raw(w)) = Raw(Append(w, <<>>))
<1>1. <<>> \in Seq(Srvs) /\ Len(w) \in Nat
  OBVIOUS
<1>2. RawAccessory(Len(w) + 1, <<>>) = [aid |-> 0, srvs |-> <<>>]
  BY DEF RawAccessory, RawSrvs
<1>3. <<[aid |-> 0, srvs |-> <<>>]>> \o Raw(w)
        = [i \in 1..(Len(w) + 1) |-> IF i = 1 THEN [aid |-> 0, srvs |-> <<>>] ELSE Raw(w)[i - 1]]
  <2>1. Raw(w) = [i \in 1..Len(w) |-> Raw(w)[i]] /\ DOMAIN Raw(w) = 1..Len(w)
    BY DEF Raw
  <2> QED
    BY <1>1, <2>1, Prepended
<1>4. Raw(Append(w, <<>>))
        = [i \in 1..(Len(w) + 1) |->
             IF i = 1 THEN RawAccessory(Len(w) + 1, <<>>) ELSE Raw(w)[i - 1]]
  BY <1>1, RawOfLast
<1> QED
  BY <1>2, <1>3, <1>4 DEF IpAddAccessory

LEMMA PutSrvs ==
  ASSUME NEW aid, NEW q, NEW r
  PROVE  [[aid |-> aid, srvs |-> q] EXCEPT !.srvs = r] = [aid |-> aid, srvs |-> r]
OBVIOUS

LEMMA AddsSrv ==
  ASSUME NEW w \in Seq(Seq(Srvs)), NEW srvs \in Seq(Srvs), NEW type \in Nat
  PROVE  IpAddSrv(Raw(Append(w, srvs)), type) = Raw(Append(w, Append(srvs, Srv(type, <<>>))))
<1> DEFINE n == Len(w)
           srv == Srv(type, <<>>)
           l == Raw(Append(w, srvs))
           raw == [iid |-> 0, type |-> type, chrs |-> <<>>]
           q == RawSrvs(n + 1, srvs)
<1>1. srv \in Srvs /\ n \in Nat
  BY DEF Srv, Srvs
<1>2. Append(srvs, srv) \in Seq(Srvs)
  BY <1>1, Appended
<1>3. RawSrv(n + 1, Len(srvs) + 1, srv) = raw
  BY DEF RawSrv, RawChrs, Srv
<1>4. RawSrvs(n + 1, Append(srvs, srv)) = <<raw>> \o q
  BY <1>1, <1>3, RawSrvsGrow
<1>5. l = [i \in 1..(n + 1) |-> IF i = 1 THEN RawAccessory(n + 1, srvs) ELSE Raw(w)[i - 1]]
  BY RawOfLast
<1>6. Raw(Append(w, Append(srvs, srv)))
        = [i \in 1..(n + 1) |->
             IF i = 1 THEN RawAccessory(n + 1, Append(srvs, srv)) ELSE Raw(w)[i - 1]]
  BY <1>2, RawOfLast
<1>7. RawAccessory(n + 1, Append(srvs, srv)) = [aid |-> 0, srvs |-> <<raw>> \o q]
  BY <1>4 DEF RawAccessory
<1>8. RawAccessory(n + 1, srvs) = [aid |-> 0, srvs |-> q]
  BY DEF RawAccessory
<1> HIDE DEF l, q, raw, srv, n
<1>9. 1 \in 1..(n + 1) /\ l[1] = [aid |-> 0, srvs |-> q]
  BY <1>1, <1>5, <1>8
<1>10. [l[1] EXCEPT !.srvs = <<raw>> \o @] = [aid |-> 0, srvs |-> <<raw>> \o q]
  <2>1. l[1].srvs = q
    BY <1>9
  <2>2. [[aid |-> 0, srvs |-> q] EXCEPT !.srvs = <<raw>> \o q] = [aid |-> 0, srvs |-> <<raw>> \o q]
    BY PutSrvs
  <2> QED
    BY <1>9, <2>1, <2>2
<1>11. [l EXCEPT ![1] = [l[1] EXCEPT !.srvs = <<raw>> \o @]]
         = [i \in 1..(n + 1) |->
             IF i = 1 THEN [aid |-> 0, srvs |-> <<raw>> \o q] ELSE Raw(w)[i - 1]]
  BY <1>5, <1>10
<1>12. IpAddSrv(l, type) = [l EXCEPT ![1] = [l[1] EXCEPT !.srvs = <<raw>> \o @]]
  BY <1>5, <1>9 DEF IpAddSrv, raw
<1> QED
  BY <1>6, <1>7, <1>11, <1>12 DEF l, srv, n

LEMMA PutChrs ==
  ASSUME NEW type, NEW q, NEW r
  PROVE  [[iid |-> 0, type |-> type, chrs |-> q] EXCEPT !.chrs = r]
           = [iid |-> 0, type |-> type, chrs |-> r]
OBVIOUS

LEMMA AddsChr ==
  ASSUME NEW w \in Seq(Seq(Srvs)), NEW srvs \in Seq(Srvs),
         NEW type \in Nat, NEW chrs \in Seq(Chrs), NEW c \in Chrs
  PROVE  IpAddChr(Raw(Append(w, Append(srvs, Srv(type, chrs)))), c)
           = Raw(Append(w, Append(srvs, Srv(type, Append(chrs, c)))))
<1> DEFINE n == Len(w)
           m == Len(srvs)
           old == Srv(type, chrs)
           new == Srv(type, Append(chrs, c))
           l == Raw(Append(w, Append(srvs, old)))
           raw == RawChr(n + 1, m + 1, Len(chrs) + 1, c)
           q == RawChrs(n + 1, m + 1, chrs)
           rest == RawSrvs(n + 1, srvs)
           first == [iid |-> 0, type |-> type, chrs |-> q]
           next == [iid |-> 0, type |-> type, chrs |-> <<raw>> \o q]
<1>1. old \in Srvs /\ new \in Srvs /\ n \in Nat /\ m \in Nat
  <2>1. Append(chrs, c) \in Seq(Chrs)
    BY Appended
  <2> QED
    BY <2>1 DEF Srv, Srvs
<1>2. Append(srvs, old) \in Seq(Srvs) /\ Append(srvs, new) \in Seq(Srvs)
  BY <1>1, Appended
<1>3. RawSrv(n + 1, m + 1, old) = first /\ RawSrv(n + 1, m + 1, new) = next
  <2>1. RawChrs(n + 1, m + 1, Append(chrs, c)) = <<raw>> \o q
    BY RawChrsGrow
  <2> HIDE DEF raw, q
  <2> QED
    BY <2>1 DEF RawSrv, Srv, q
<1>4. /\ RawSrvs(n + 1, Append(srvs, old)) = <<first>> \o rest
      /\ RawSrvs(n + 1, Append(srvs, new)) = <<next>> \o rest
  BY <1>1, <1>3, RawSrvsGrow
<1>5. l = [i \in 1..(n + 1) |->
             IF i = 1 THEN RawAccessory(n + 1, Append(srvs, old)) ELSE Raw(w)[i - 1]]
  BY <1>2, RawOfLast
<1>6. Raw(Append(w, Append(srvs, new)))
        = [i \in 1..(n + 1) |->
             IF i = 1 THEN RawAccessory(n + 1, Append(srvs, new)) ELSE Raw(w)[i - 1]]
  BY <1>2, RawOfLast
<1>7. /\ RawAccessory(n + 1, Append(srvs, old)) = [aid |-> 0, srvs |-> <<first>> \o rest]
      /\ RawAccessory(n + 1, Append(srvs, new)) = [aid |-> 0, srvs |-> <<next>> \o rest]
  BY <1>4 DEF RawAccessory
<1>8. /\ rest = [i \in 1..m |-> rest[i]] /\ DOMAIN rest = 1..m
      /\ Len(q) = Len(chrs) /\ Len(chrs) \in Nat
  <2>1. rest = [i \in 1..m |-> rest[i]] /\ DOMAIN rest = 1..m
    BY DEF RawSrvs
  <2>2. Len(q) = Len(chrs) /\ Len(chrs) \in Nat
    BY DEF RawChrs
  <2> QED
    BY <2>1, <2>2
<1> HIDE DEF l, old, new, rest, first, next
<1>9. /\ <<first>> \o rest = [i \in 1..(m + 1) |-> IF i = 1 THEN first ELSE rest[i - 1]]
      /\ <<next>> \o rest = [i \in 1..(m + 1) |-> IF i = 1 THEN next ELSE rest[i - 1]]
  <2>1. m \in Nat /\ DOMAIN rest = 1..m /\ rest = [i \in 1..m |-> rest[i]]
    BY <1>1, <1>8
  <2> HIDE DEF m, n
  <2>2. <<first>> \o rest = [i \in 1..(m + 1) |-> IF i = 1 THEN first ELSE rest[i - 1]]
    BY <2>1, Prepended
  <2>3. <<next>> \o rest = [i \in 1..(m + 1) |-> IF i = 1 THEN next ELSE rest[i - 1]]
    BY <2>1, Prepended
  <2> QED
    BY <2>2, <2>3
<1> HIDE DEF n, m, q, raw
<1>10. 1 \in 1..(n + 1) /\ l[1] = [aid |-> 0, srvs |-> <<first>> \o rest] /\ Len(l) = n + 1
  BY <1>1, <1>5, <1>7
<1>11. /\ l[1].srvs = <<first>> \o rest /\ Len(l[1].srvs) = m + 1
       /\ l[1].srvs[1] = first /\ l[1].srvs[1].chrs = q
  <2>1. l[1].srvs = <<first>> \o rest
    BY <1>10
  <2>2. Len(<<first>> \o rest) = m + 1 /\ (<<first>> \o rest)[1] = first
    BY <1>1, <1>9
  <2>3. first.chrs = q
    BY DEF first
  <2> QED
    BY <2>1, <2>2, <2>3
<1>12. [l[1].srvs[1] EXCEPT !.chrs = <<raw>> \o q] = next
  <2>1. [first EXCEPT !.chrs = <<raw>> \o q] = next
    BY PutChrs DEF first, next
  <2> QED
    BY <1>11, <2>1
<1>13. [l[1].srvs EXCEPT ![1] = next] = <<next>> \o rest
  <2>1. [(<<first>> \o rest) EXCEPT ![1] = next]
          = [i \in 1..(m + 1) |-> IF i = 1 THEN next ELSE rest[i - 1]]
    BY <1>1, <1>9
  <2> QED
    BY <1>9, <1>11, <2>1
<1>14. [l[1] EXCEPT !.srvs = <<next>> \o rest] = [aid |-> 0, srvs |-> <<next>> \o rest]
  <2>1. [[aid |-> 0, srvs |-> <<first>> \o rest] EXCEPT !.srvs = <<next>> \o rest]
          = [aid |-> 0, srvs |-> <<next>> \o rest]
    BY PutSrvs
  <2> QED
    BY <1>10, <2>1
<1>15. [l EXCEPT ![1] = [aid |-> 0, srvs |-> <<next>> \o rest]]
         = Raw(Append(w, Append(srvs, new)))
  BY <1>5, <1>6, <1>7
<1>16. [aid |-> 0, iid |-> 0, type |-> c.type, access |-> c.access,
        ptr |-> <<Len(l), Len(l[1].srvs), Len(l[1].srvs[1].chrs) + 1>>] = raw
  BY <1>8, <1>10, <1>11 DEF raw, RawChr
<1>17. IpAddChr(l, c)
         = [l EXCEPT ![1] = [l[1] EXCEPT !.srvs =
              [l[1].srvs EXCEPT ![1] = [l[1].srvs[1] EXCEPT !.chrs = <<raw>> \o q]]]]
  BY <1>11, <1>16 DEF IpAddChr
<1> QED
  BY <1>12, <1>13, <1>14, <1>15, <1>17 DEF l, old, new

LEMMA PrefixesGrow ==
  ASSUME NEW S, NEW s \in Seq(S)
  PROVE  /\ SubSeq(s, 1, 0) = <<>> /\ SubSeq(s, 1, Len(s)) = s
         /\ \A n \in 0..Len(s) : SubSeq(s, 1, n) \in Seq(S) /\ Len(SubSeq(s, 1, n)) = n
         /\ \A n \in 0..Len(s) :
              n < Len(s) => s[n + 1] \in S /\ SubSeq(s, 1, n + 1) = Append(SubSeq(s, 1, n), s[n + 1])
<1>1. \A n \in 0..Len(s) : SubSeq(s, 1, n) \in Seq(S) /\ Len(SubSeq(s, 1, n)) = n
  OBVIOUS
<1>2. ASSUME NEW n \in 0..Len(s), n < Len(s)
      PROVE  s[n + 1] \in S /\ SubSeq(s, 1, n + 1) = Append(SubSeq(s, 1, n), s[n + 1])
  <2>1. n + 1 \in 1..Len(s)
    BY <1>2
  <2>2. s[n + 1] \in S
    BY <2>1
  <2>3. SubSeq(s, 1, n + 1) = Append(SubSeq(s, 1, n), s[n + 1])
    BY <1>1, <2>1, <2>2
  <2> QED
    BY <2>2, <2>3
<1>3. SubSeq(s, 1, 0) = <<>> /\ SubSeq(s, 1, Len(s)) = s
  OBVIOUS
<1> QED
  BY <1>1, <1>2, <1>3

LEMMA SrvParts ==
  ASSUME NEW srv \in Srvs
  PROVE  /\ srv.type \in Nat /\ srv.chrs \in Seq(Chrs) /\ Srv(srv.type, srv.chrs) = srv
         /\ Len(srv.chrs) \in Nat /\ DOMAIN srv.chrs = 1..Len(srv.chrs)
BY DEF Srvs, Srv

\* A service with all its characteristics.
LEMMA AddsWholeSrv ==
  ASSUME NEW w \in Seq(Seq(Srvs)), NEW srvs \in Seq(Srvs), NEW srv \in Srvs
  PROVE  IpAdd(Raw(Append(w, srvs)), srv) = Raw(Append(w, Append(srvs, srv)))
<1> DEFINE n == Len(srv.chrs)
           base == IpAddSrv(Raw(Append(w, srvs)), srv.type)
           R(k) == Raw(Append(w, Append(srvs, Srv(srv.type, SubSeq(srv.chrs, 1, k)))))
           S(f) == {k \in 0..n : f[k] = R(k)}
<1>1. /\ srv.type \in Nat /\ srv.chrs \in Seq(Chrs) /\ Srv(srv.type, srv.chrs) = srv
      /\ n \in Nat /\ DOMAIN srv.chrs = 1..n
  BY SrvParts
<1>2. base = R(0) /\ R(n) = Raw(Append(w, Append(srvs, srv)))
  <2>1. SubSeq(srv.chrs, 1, 0) = <<>> /\ SubSeq(srv.chrs, 1, Len(srv.chrs)) = srv.chrs
    BY <1>1, PrefixesGrow
  <2>2. base = Raw(Append(w, Append(srvs, Srv(srv.type, <<>>))))
    BY <1>1, AddsSrv
  <2> QED
    BY <1>1, <2>1, <2>2
<1>3. ASSUME NEW k \in 0..n, k < n
      PROVE  IpAddChr(R(k), srv.chrs[k + 1]) = R(k + 1)
  <2>1. /\ SubSeq(srv.chrs, 1, k) \in Seq(Chrs) /\ srv.chrs[k + 1] \in Chrs
        /\ SubSeq(srv.chrs, 1, k + 1) = Append(SubSeq(srv.chrs, 1, k), srv.chrs[k + 1])
    BY <1>1, <1>3, PrefixesGrow
  <2> DEFINE p == SubSeq(srv.chrs, 1, k)
             c == srv.chrs[k + 1]
             type == srv.type
  <2>2. p \in Seq(Chrs) /\ c \in Chrs /\ type \in Nat
    BY <1>1, <2>1
  <2> HIDE DEF p, c, type
  <2>3. IpAddChr(Raw(Append(w, Append(srvs, Srv(type, p)))), c)
          = Raw(Append(w, Append(srvs, Srv(type, Append(p, c)))))
    BY <2>2, AddsChr
  <2> QED
    BY <2>1, <2>3 DEF p, c, type
<1> HIDE DEF R, base
<1>4. PICK f : AddChrsUnfolds(f, base, srv.chrs, n)
  <2> HIDE DEF n
  <2> QED
    BY <1>1, AddChrsFold
<1> HIDE DEF n
<1>5. S(f) \in SUBSET (0..n) /\ 0 \in S(f)
  BY <1>1, <1>2, <1>4 DEF AddChrsUnfolds
<1>6. ASSUME NEW k \in S(f), k < n PROVE k + 1 \in S(f)
  <2>1. k \in 0..n /\ f[k] = R(k) /\ k + 1 \in 1..n /\ k + 1 \in 0..n /\ (k + 1) - 1 = k
    BY <1>1, <1>6
  <2>2. f[k + 1] = IpAddChr(R(k), srv.chrs[k + 1])
    BY <1>4, <2>1 DEF AddChrsUnfolds
  <2> QED
    BY <1>3, <1>6, <2>1, <2>2
<1>7. S(f) = 0..n
  <2> HIDE DEF S
  <2> QED
    BY <1>1, <1>5, <1>6, InductionUpTo
<1>8. f[n] = R(n)
  BY <1>1, <1>7
<1> QED
  BY <1>2, <1>4, <1>8 DEF AddChrsUnfolds, IpAdd, base

\* An accessory with all its services.
LEMMA AddsWholeAccessory ==
  ASSUME NEW w \in Seq(Seq(Srvs)), NEW srvs \in Seq(Srvs)
  PROVE  IpAddAll(IpAddAccessory(Raw(w)), srvs) = Raw(Append(w, srvs))
<1> DEFINE n == Len(srvs)
           base == IpAddAccessory(Raw(w))
           R(k) == Raw(Append(w, SubSeq(srvs, 1, k)))
           S(f) == {k \in 0..n : f[k] = R(k)}
<1>1. n \in Nat /\ DOMAIN srvs = 1..n
  OBVIOUS
<1>2. base = R(0) /\ R(n) = Raw(Append(w, srvs))
  <2>1. SubSeq(srvs, 1, 0) = <<>> /\ SubSeq(srvs, 1, Len(srvs)) = srvs
    BY PrefixesGrow
  <2>2. base = Raw(Append(w, <<>>))
    BY AddsAccessory
  <2> QED
    BY <2>1, <2>2
<1>3. ASSUME NEW k \in 0..n, k < n
      PROVE  IpAdd(R(k), srvs[k + 1]) = R(k + 1)
  <2>1. /\ SubSeq(srvs, 1, k) \in Seq(Srvs) /\ srvs[k + 1] \in Srvs
        /\ SubSeq(srvs, 1, k + 1) = Append(SubSeq(srvs, 1, k), srvs[k + 1])
    BY <1>3, PrefixesGrow
  <2> QED
    BY <2>1, AddsWholeSrv
<1> HIDE DEF R, base
<1>4. PICK f : AddAllUnfolds(f, base, srvs, n)
  <2> HIDE DEF n
  <2> QED
    BY <1>1, AddAllFold
<1> HIDE DEF n
<1>5. S(f) \in SUBSET (0..n) /\ 0 \in S(f)
  BY <1>1, <1>2, <1>4 DEF AddAllUnfolds
<1>6. ASSUME NEW k \in S(f), k < n PROVE k + 1 \in S(f)
  <2>1. k \in 0..n /\ f[k] = R(k) /\ k + 1 \in 1..n /\ k + 1 \in 0..n /\ (k + 1) - 1 = k
    BY <1>1, <1>6
  <2>2. f[k + 1] = IpAdd(R(k), srvs[k + 1])
    BY <1>4, <2>1 DEF AddAllUnfolds
  <2> QED
    BY <1>3, <1>6, <2>1, <2>2
<1>7. S(f) = 0..n
  <2> HIDE DEF S
  <2> QED
    BY <1>1, <1>5, <1>6, InductionUpTo
<1>8. f[n] = R(n)
  BY <1>1, <1>7
<1> QED
  BY <1>2, <1>4, <1>8 DEF AddAllUnfolds, base

-----------------------------------------------------------------------------
(* The lists at the end of the setup.                                      *)

\* The ids of the services, in the order of the services, and the one that would be next.
FirstIds(f, srvs) ==
  /\ f \in [1..(Len(srvs) + 1) -> Nat]
  /\ f[1] = 1
  /\ \A s \in 1..Len(srvs) : f[s + 1] = f[s] + 1 + Len(srvs[s].chrs)

\* The same with their ids; service s of an accessory has the id f[s].
NumberedChr(a, s, k, c, id) ==
  [aid |-> a, iid |-> id, type |-> c.type, access |-> c.access, ptr |-> <<a, s, k>>]

NumberedSrv(a, s, srv, id) ==
  [iid |-> id, type |-> srv.type,
   chrs |-> [k \in 1..Len(srv.chrs) |-> NumberedChr(a, s, k, srv.chrs[k], id + k)]]

NumberedSrvs(a, srvs, f) == [s \in 1..Len(srvs) |-> NumberedSrv(a, s, srvs[s], f[s])]

NumberedAccessory(a, srvs, f) == [aid |-> a, srvs |-> NumberedSrvs(a, srvs, f)]

\* The list l has all accessories in order, with their ids.
IsNumbered(l, w) ==
  /\ DOMAIN l = 1..Len(w)
  /\ \A a \in 1..Len(w) : \E f : FirstIds(f, w[a]) /\ l[a] = NumberedAccessory(a, w[a], f)

LEMMA TurnedRound ==
  ASSUME NEW n \in Nat, NEW l, DOMAIN l = 1..n, Len(l) = n
  PROVE  /\ DOMAIN Reverse(l) = 1..n /\ Len(Reverse(l)) = n
         /\ \A i \in 1..n : n + 1 - i \in 1..n /\ Reverse(l)[i] = l[n + 1 - i]
BY DEF Reverse

LEMMA PutIdAndChrs ==
  ASSUME NEW iid, NEW type, NEW old, NEW new
  PROVE  [[iid |-> 0, type |-> type, chrs |-> old] EXCEPT !.iid = iid, !.chrs = new]
           = [iid |-> iid, type |-> type, chrs |-> new]
<1>1. [[iid |-> 0, type |-> type, chrs |-> old] EXCEPT !.iid = iid]
        = [iid |-> iid, type |-> type, chrs |-> old]
  OBVIOUS
<1>2. [[iid |-> iid, type |-> type, chrs |-> old] EXCEPT !.chrs = new]
        = [iid |-> iid, type |-> type, chrs |-> new]
  OBVIOUS
<1> QED
  BY <1>1, <1>2

LEMMA NumbersSrv ==
  ASSUME NEW a, NEW s, NEW srv \in Srvs, NEW id \in Nat, NEW q
  PROVE  NumberSrv(a, [iid |-> id, srvs |-> q], RawSrv(a, s, srv))
           = [iid |-> id + 1 + Len(srv.chrs),
              srvs |-> Append(q, NumberedSrv(a, s, srv, id + 1))]
<1> DEFINE n == Len(srv.chrs)
           raw == RawChrs(a, s, srv.chrs)
           chrs == InOrder(raw)
           numbered == [k \in DOMAIN chrs |->
                          [chrs[k] EXCEPT !.aid = a, !.iid = id + 1 + k]]
<1>1. n \in Nat /\ raw = [i \in 1..n |-> RawChr(a, s, n + 1 - i, srv.chrs[n + 1 - i])]
  BY SrvParts DEF RawChrs
<1>2. Len(raw) = n /\ DOMAIN raw = 1..n
  BY <1>1
<1> HIDE DEF n, raw
<1>3. /\ DOMAIN chrs = 1..n /\ Len(chrs) = n
      /\ \A k \in 1..n : chrs[k] = RawChr(a, s, k, srv.chrs[k])
  <2>1. /\ DOMAIN chrs = 1..n /\ Len(chrs) = n
        /\ \A k \in 1..n : n + 1 - k \in 1..n /\ chrs[k] = raw[n + 1 - k]
    BY <1>1, <1>2, TurnedRound DEF InOrder
  <2>2. ASSUME NEW k \in 1..n PROVE chrs[k] = RawChr(a, s, k, srv.chrs[k])
    <3>1. n + 1 - (n + 1 - k) = k /\ n + 1 - k \in 1..n
      BY <1>1, <2>1
    <3> QED
      BY <1>1, <2>1, <3>1
  <2> QED
    BY <2>1, <2>2
<1> HIDE DEF chrs
<1>4. numbered = [k \in 1..n |-> NumberedChr(a, s, k, srv.chrs[k], id + 1 + k)]
  <2>1. ASSUME NEW k \in 1..n
        PROVE  [chrs[k] EXCEPT !.aid = a, !.iid = id + 1 + k]
                 = NumberedChr(a, s, k, srv.chrs[k], id + 1 + k)
    <3>1. chrs[k] = RawChr(a, s, k, srv.chrs[k])
      BY <1>3
    <3>2. [RawChr(a, s, k, srv.chrs[k]) EXCEPT !.aid = a, !.iid = id + 1 + k]
            = NumberedChr(a, s, k, srv.chrs[k], id + 1 + k)
      <4> DEFINE type == srv.chrs[k].type
                 access == srv.chrs[k].access
                 ptr == <<a, s, k>>
                 iid == id + 1 + k
      <4> HIDE DEF type, access, ptr, iid
      <4>1. [[aid |-> 0, iid |-> 0, type |-> type, access |-> access, ptr |-> ptr]
               EXCEPT !.aid = a, !.iid = iid]
              = [aid |-> a, iid |-> iid, type |-> type, access |-> access, ptr |-> ptr]
        <5>1. [[aid |-> 0, iid |-> 0, type |-> type, access |-> access, ptr |-> ptr]
                 EXCEPT !.aid = a]
                = [aid |-> a, iid |-> 0, type |-> type, access |-> access, ptr |-> ptr]
          OBVIOUS
        <5>2. [[aid |-> a, iid |-> 0, type |-> type, access |-> access, ptr |-> ptr]
                 EXCEPT !.iid = iid]
                = [aid |-> a, iid |-> iid, type |-> type, access |-> access, ptr |-> ptr]
          OBVIOUS
        <5> QED
          BY <5>1, <5>2
      <4> QED
        BY <4>1 DEF RawChr, NumberedChr, type, access, ptr, iid
    <3> QED
      BY <3>1, <3>2
  <2> QED
    BY <1>3, <2>1
<1> HIDE DEF numbered
<1>5. [RawSrv(a, s, srv) EXCEPT !.iid = id + 1, !.chrs = numbered]
        = NumberedSrv(a, s, srv, id + 1)
  BY <1>4, PutIdAndChrs DEF RawSrv, NumberedSrv, n
<1>6. RawSrv(a, s, srv).chrs = raw
  BY DEF RawSrv, raw
<1>7. NumberSrv(a, [iid |-> id, srvs |-> q], RawSrv(a, s, srv))
        = [iid |-> id + 1 + Len(chrs),
           srvs |-> Append(q, [RawSrv(a, s, srv) EXCEPT !.iid = id + 1, !.chrs = numbered])]
  BY <1>6 DEF NumberSrv, chrs, numbered
<1> QED
  BY <1>3, <1>5, <1>7 DEF n

\* The ids are counted from service to service.
LEMMA NumbersAll ==
  ASSUME NEW a, NEW srvs \in Seq(Srvs), NEW raw, DOMAIN raw = 1..Len(srvs),
         \A s \in 1..Len(srvs) : raw[s] = RawSrv(a, s, srvs[s])
  PROVE  \E ids : FirstIds(ids, srvs) /\ NumberSrvs(a, raw).srvs = NumberedSrvs(a, srvs, ids)
<1> DEFINE n == Len(srvs)
<1>1. n \in Nat /\ \A s \in 1..n : srvs[s] \in Srvs /\ Len(srvs[s].chrs) \in Nat
  BY SrvParts
<1>2. PICK f : NumberUnfolds(f, a, raw, n)
  BY <1>1, NumberFold
<1> DEFINE Numbered(k) == [s \in 1..k |-> NumberedSrv(a, s, srvs[s], f[s - 1].iid + 1)]
           S == {k \in 0..n : f[k].iid \in Nat /\ f[k] = [iid |-> f[k].iid, srvs |-> Numbered(k)]}
<1>3. \A s \in 1..n : raw[s] = RawSrv(a, s, srvs[s])
  OBVIOUS
<1> HIDE DEF n
<1>4. f[0] = [iid |-> 0, srvs |-> <<>>] /\ \A k \in 1..n : f[k] = NumberSrv(a, f[k - 1], raw[k])
  BY <1>2 DEF NumberUnfolds
<1>5. \A k \in 0..n : k < n =>
        Append(Numbered(k), NumberedSrv(a, k + 1, srvs[k + 1], f[k].iid + 1)) = Numbered(k + 1)
  <2> DEFINE E(s) == NumberedSrv(a, s, srvs[s], f[s - 1].iid + 1)
             T == {E(s) : s \in 1..n}
  <2> SUFFICES ASSUME NEW k \in 0..n, k < n
               PROVE  Append([s \in 1..k |-> E(s)], E(k + 1)) = [s \in 1..(k + 1) |-> E(s)]
    <3>1. \A k \in 0..n : (k + 1) - 1 = k
      BY <1>1
    <3> QED
      BY <3>1
  <2> HIDE DEF E
  <2>1. [s \in 1..k |-> E(s)] \in Seq(T) /\ E(k + 1) \in T /\ Len([s \in 1..k |-> E(s)]) = k
    <3>1. k \in Nat /\ \A s \in 1..(k + 1) : s \in 1..n
      BY <1>1
    <3>2. E(k + 1) \in T /\ \A s \in 1..k : E(s) \in T
      BY <3>1
    <3> HIDE DEF T
    <3> QED
      BY <3>1, <3>2
  <2> HIDE DEF T
  <2> QED
    BY <1>1, <2>1
<1>6. ASSUME NEW k \in S, k < n
      PROVE  k + 1 \in S /\ f[k + 1].iid = f[k].iid + 1 + Len(srvs[k + 1].chrs)
  <2>1. /\ k \in 0..n /\ f[k].iid \in Nat /\ f[k] = [iid |-> f[k].iid, srvs |-> Numbered(k)]
        /\ k + 1 \in 1..n /\ k + 1 \in 0..n /\ (k + 1) - 1 = k
    BY <1>1, <1>6
  <2> DEFINE id == f[k].iid
             q == Numbered(k)
             new == NumberedSrv(a, k + 1, srvs[k + 1], id + 1)
             m == Len(srvs[k + 1].chrs)
  <2>2. Append(q, new) = Numbered(k + 1)
    BY <1>5, <1>6, <2>1
  <2> HIDE DEF Numbered
  <2>3. srvs[k + 1] \in Srvs /\ m \in Nat /\ raw[k + 1] = RawSrv(a, k + 1, srvs[k + 1])
    BY <1>1, <1>3, <2>1
  <2>4. f[k + 1] = NumberSrv(a, f[k], RawSrv(a, k + 1, srvs[k + 1]))
    BY <1>4, <2>1, <2>3
  <2>5. f[k] = [iid |-> id, srvs |-> q] /\ id \in Nat
    BY <2>1
  <2> HIDE DEF id, q
  <2>6. NumberSrv(a, [iid |-> id, srvs |-> q], RawSrv(a, k + 1, srvs[k + 1]))
          = [iid |-> id + 1 + Len(srvs[k + 1].chrs),
             srvs |-> Append(q, NumberedSrv(a, k + 1, srvs[k + 1], id + 1))]
    <3> DEFINE srv == srvs[k + 1]
               s == k + 1
    <3>1. srv \in Srvs
      BY <2>3
    <3> HIDE DEF srv, s
    <3>2. NumberSrv(a, [iid |-> id, srvs |-> q], RawSrv(a, s, srv))
            = [iid |-> id + 1 + Len(srv.chrs),
               srvs |-> Append(q, NumberedSrv(a, s, srv, id + 1))]
      BY <2>5, <3>1, NumbersSrv
    <3> QED
      BY <3>2 DEF srv, s
  <2>7. f[k + 1] = [iid |-> id + 1 + m, srvs |-> Numbered(k + 1)]
    BY <2>2, <2>4, <2>5, <2>6
  <2> HIDE DEF m
  <2>8. f[k + 1].iid = id + 1 + m /\ id + 1 + m \in Nat
    BY <2>3, <2>5, <2>7
  <2>9. k + 1 \in S
    BY <2>1, <2>7, <2>8
  <2> QED
    BY <2>8, <2>9 DEF id, m
<1>7. S \in SUBSET (0..n) /\ 0 \in S
  <2>1. f[0].iid = 0 /\ Numbered(0) = <<>>
    BY <1>4
  <2> HIDE DEF Numbered
  <2>2. f[0] = [iid |-> f[0].iid, srvs |-> Numbered(0)]
    BY <1>4, <2>1
  <2> QED
    BY <1>1, <2>1, <2>2
<1>8. S = 0..n
  <2> HIDE DEF S
  <2> QED
    BY <1>1, <1>6, <1>7, InductionUpTo
<1>11. \A k \in 0..n : f[k].iid \in Nat /\ f[k] = [iid |-> f[k].iid, srvs |-> Numbered(k)]
  <2> HIDE DEF Numbered
  <2> QED
    BY <1>8
<1> HIDE DEF Numbered
<1>12. ASSUME NEW k \in 0..n, k < n
       PROVE  f[k + 1].iid = f[k].iid + 1 + Len(srvs[k + 1].chrs)
  <2> HIDE DEF S
  <2> QED
    BY <1>6, <1>8, <1>12
<1> HIDE DEF S
<1> DEFINE ids == [s \in 1..(n + 1) |-> f[s - 1].iid + 1]
<1>9. FirstIds(ids, srvs)
  <2>1. \A s \in 1..(n + 1) : s - 1 \in 0..n
    BY <1>1
  <2>2. ids \in [1..(n + 1) -> Nat]
    <3>1. ASSUME NEW s \in 1..(n + 1) PROVE f[s - 1].iid + 1 \in Nat
      <4>1. f[s - 1].iid \in Nat
        BY <1>11, <2>1
      <4> QED
        BY <4>1
    <3> QED
      BY <3>1
  <2>3. ids[1] = 1
    BY <1>1, <1>4
  <2>4. ASSUME NEW s \in 1..n PROVE ids[s + 1] = ids[s] + 1 + Len(srvs[s].chrs)
    <3>1. s - 1 \in 0..n /\ s - 1 < n /\ (s - 1) + 1 = s /\ (s + 1) - 1 = s
          /\ s \in 1..(n + 1) /\ s + 1 \in 1..(n + 1)
      BY <1>1
    <3>2. f[s].iid = f[s - 1].iid + 1 + Len(srvs[s].chrs)
      BY <1>12, <3>1
    <3>3. f[s - 1].iid \in Nat /\ Len(srvs[s].chrs) \in Nat
      BY <1>1, <1>11, <3>1
    <3>4. ids[s] = f[s - 1].iid + 1 /\ ids[s + 1] = f[s].iid + 1
      BY <3>1
    <3> DEFINE x == f[s - 1].iid
               m == Len(srvs[s].chrs)
    <3>5. x \in Nat /\ m \in Nat /\ f[s].iid = x + 1 + m /\ ids[s] = x + 1
          /\ ids[s + 1] = f[s].iid + 1
      BY <3>2, <3>3, <3>4
    <3> HIDE DEF x, m, ids
    <3>6. ids[s + 1] = ids[s] + 1 + m
      BY <3>5
    <3> QED
      BY <3>6 DEF m
  <2> HIDE DEF ids
  <2> QED
    BY <2>2, <2>3, <2>4 DEF FirstIds, n
<1>10. NumberSrvs(a, raw).srvs = [s \in 1..n |-> NumberedSrv(a, s, srvs[s], ids[s])]
  <2>1. NumberSrvs(a, raw) = f[n]
    BY <1>2 DEF NumberUnfolds
  <2>2. f[n] = [iid |-> f[n].iid, srvs |-> Numbered(n)]
    BY <1>1, <1>11
  <2>3. \A s \in 1..n : ids[s] = f[s - 1].iid + 1
    BY <1>1
  <2> HIDE DEF ids
  <2>4. Numbered(n) = [s \in 1..n |-> NumberedSrv(a, s, srvs[s], ids[s])]
    BY <2>3 DEF Numbered
  <2>5. NumberSrvs(a, raw).srvs = Numbered(n)
    BY <2>1, <2>2
  <2> QED
    BY <2>4, <2>5
<1> HIDE DEF ids
<1> QED
  BY <1>9, <1>10 DEF n, NumberedSrvs

LEMMA EndNumbers ==
  ASSUME NEW w \in Seq(Seq(Srvs))
  PROVE  IsNumbered(IpEndConfig(Raw(w)), w)
<1> DEFINE n == Len(w)
           l == Raw(w)
           end == IpEndConfig(l)
<1>1. n \in Nat /\ \A a \in 1..n : w[a] \in Seq(Srvs) /\ Len(w[a]) \in Nat
  OBVIOUS
<1>2. DOMAIN l = 1..n /\ Len(l) = n
      /\ \A i \in 1..n : l[i] = RawAccessory(n + 1 - i, w[n + 1 - i])
  BY DEF Raw
<1> HIDE DEF l, n
<1>3. \A a \in 1..n : Reverse(l)[a] = RawAccessory(a, w[a])
  <2> SUFFICES ASSUME NEW a \in 1..n PROVE Reverse(l)[a] = RawAccessory(a, w[a])
    OBVIOUS
  <2>1. n + 1 - a \in 1..n /\ Reverse(l)[a] = l[n + 1 - a] /\ n + 1 - (n + 1 - a) = a
    BY <1>1, <1>2, TurnedRound
  <2> QED
    BY <1>2, <2>1
<1>4. DOMAIN end = 1..n /\ \A a \in 1..n : end[a] = NumberAccessory(a, RawAccessory(a, w[a]))
  BY <1>2, <1>3 DEF IpEndConfig
<1>5. ASSUME NEW a \in 1..n
      PROVE  \E ids : FirstIds(ids, w[a]) /\ end[a] = NumberedAccessory(a, w[a], ids)
  <2> DEFINE srvs == w[a]
             m == Len(srvs)
             raw == RawSrvs(a, srvs)
             q == Reverse(raw)
  <2>1. srvs \in Seq(Srvs) /\ m \in Nat
    BY <1>1
  <2>2. DOMAIN raw = 1..m /\ Len(raw) = m
        /\ \A i \in 1..m : raw[i] = RawSrv(a, m + 1 - i, srvs[m + 1 - i])
    BY <2>1 DEF RawSrvs
  <2> HIDE DEF raw, srvs, m
  <2>3. DOMAIN q = 1..m /\ \A s \in 1..m : q[s] = RawSrv(a, s, srvs[s])
    <3>1. /\ DOMAIN q = 1..m
          /\ \A s \in 1..m : m + 1 - s \in 1..m /\ q[s] = raw[m + 1 - s]
      BY <2>1, <2>2, TurnedRound
    <3>2. ASSUME NEW s \in 1..m PROVE q[s] = RawSrv(a, s, srvs[s])
      <4>1. m + 1 - s \in 1..m /\ q[s] = raw[m + 1 - s] /\ m + 1 - (m + 1 - s) = s
        BY <2>1, <3>1
      <4> QED
        BY <2>2, <4>1
    <3> QED
      BY <3>1, <3>2
  <2> HIDE DEF q
  <2>4. PICK ids : FirstIds(ids, srvs) /\ NumberSrvs(a, q).srvs = NumberedSrvs(a, srvs, ids)
    BY <2>1, <2>3, NumbersAll DEF m
  <2>5. NumberAccessory(a, RawAccessory(a, srvs)) = [aid |-> a, srvs |-> NumberSrvs(a, q).srvs]
    BY DEF NumberAccessory, RawAccessory, q, raw
  <2>6. end[a] = NumberedAccessory(a, srvs, ids)
    BY <1>4, <2>4, <2>5 DEF NumberedAccessory, srvs, m
  <2> QED
    BY <2>4, <2>6 DEF srvs
<1> HIDE DEF end
<1>6. IsNumbered(end, w)
  BY <1>4, <1>5 DEF IsNumbered, n
<1> QED
  BY <1>6 DEF end, l

-----------------------------------------------------------------------------
(* What is served at the end of the setup.                                 *)

LEMMA AskedChrs ==
  ASSUME NEW srvs \in Seq(Srvs), NEW s \in 1..Len(srvs)
  PROVE  srvs[s] \in Srvs /\ Len(srvs[s].chrs) \in Nat
BY SrvParts

LEMMA IdsAre ==
  ASSUME NEW srvs \in Seq(Srvs), NEW f, FirstIds(f, srvs), NEW s \in 1..Len(srvs)
  PROVE  f[s] \in Nat /\ f[1] = 1
<1>1. Len(srvs) \in Nat
  OBVIOUS
<1>2. s \in 1..(Len(srvs) + 1)
  BY <1>1
<1> QED
  BY <1>2 DEF FirstIds

\* Each service begins after the last characteristic of the ones before.
LEMMA IdsGrow ==
  ASSUME NEW srvs \in Seq(Srvs), NEW f, FirstIds(f, srvs),
         NEW s \in 1..Len(srvs), NEW t \in 1..Len(srvs), s < t
  PROVE  f[s] + Len(srvs[s].chrs) < f[t]
<1> DEFINE n == Len(srvs)
           m == Len(srvs[s].chrs)
           S == {k \in 0..n : s <= k => f[s] + m < f[k + 1]}
<1>1. n \in Nat /\ m \in Nat /\ \A k \in 1..n : Len(srvs[k].chrs) \in Nat
  BY AskedChrs
<1>2. /\ \A k \in 1..(n + 1) : f[k] \in Nat
      /\ \A k \in 1..n : f[k + 1] = f[k] + 1 + Len(srvs[k].chrs)
  BY DEF FirstIds
<1>3. S \in SUBSET (0..n) /\ 0 \in S
  BY <1>1
<1>4. ASSUME NEW k \in S, k < n PROVE k + 1 \in S
  <2>1. k + 1 \in 1..n /\ k + 1 \in 0..n /\ k + 1 \in 1..(n + 1) /\ (k + 1) + 1 \in 1..(n + 1)
    BY <1>1, <1>4
  <2> DEFINE x == f[k + 1]
             y == f[(k + 1) + 1]
             l == Len(srvs[k + 1].chrs)
  <2>2. x \in Nat /\ y \in Nat /\ l \in Nat /\ y = x + 1 + l /\ f[s] \in Nat
    BY <1>1, <1>2, <2>1
  <2>3. s <= k => f[s] + m < x
    BY <1>4
  <2>4. s = k + 1 => f[s] = x /\ m = l
    OBVIOUS
  <2> HIDE DEF x, y, l, m, n
  <2>5. s <= k + 1 => f[s] + m < y
    BY <1>1, <2>1, <2>2, <2>3, <2>4
  <2> QED
    BY <2>1, <2>5 DEF y
<1>5. S = 0..n
  <2> HIDE DEF S
  <2> QED
    BY <1>1, <1>3, <1>4, InductionUpTo
<1>6. t - 1 \in 0..n /\ s <= t - 1 /\ (t - 1) + 1 = t
  BY <1>1
<1>7. t - 1 \in S
  <2> HIDE DEF S
  <2> QED
    BY <1>5, <1>6
<1> QED
  BY <1>6, <1>7

LEMMA IdsDiffer ==
  ASSUME NEW srvs \in Seq(Srvs), NEW f, FirstIds(f, srvs),
         NEW s \in 1..Len(srvs), NEW t \in 1..Len(srvs),
         NEW k \in 0..Len(srvs[s].chrs), NEW l \in 0..Len(srvs[t].chrs),
         f[s] + k = f[t] + l
  PROVE  s = t /\ k = l
<1>1. /\ Len(srvs[s].chrs) \in Nat /\ Len(srvs[t].chrs) \in Nat
      /\ f[s] \in Nat /\ f[t] \in Nat /\ Len(srvs) \in Nat
  <2>1. f[s] \in Nat /\ f[t] \in Nat
    BY IdsAre
  <2> QED
    BY <2>1, AskedChrs
<1> DEFINE n == Len(srvs[s].chrs)
           m == Len(srvs[t].chrs)
           x == f[s]
           y == f[t]
<1>4. /\ n \in Nat /\ m \in Nat /\ x \in Nat /\ y \in Nat
      /\ k \in 0..n /\ l \in 0..m /\ x + k = y + l
  BY <1>1
<1>5. (s < t => x + n < y) /\ (t < s => y + m < x)
  BY IdsGrow
<1> HIDE DEF n, m, x, y
<1>2. ~(s < t)
  BY <1>4, <1>5
<1>3. ~(t < s)
  BY <1>4, <1>5
<1>6. s = t
  BY <1>1, <1>2, <1>3
<1> QED
  BY <1>4, <1>6 DEF x, y

LEMMA AllIdsDiffer ==
  ASSUME NEW srvs \in Seq(Srvs), NEW f, FirstIds(f, srvs)
  PROVE  \A s, t \in 1..Len(srvs) :
           \A k \in 0..Len(srvs[s].chrs), l \in 0..Len(srvs[t].chrs) :
             f[s] + k = f[t] + l => s = t /\ k = l
BY IdsDiffer

\* What is in the list, accessory by accessory.
Lists(a, srvs, f) ==
  /\ list[a].aid = a /\ DOMAIN list[a].srvs = 1..Len(srvs)
  /\ \A s \in 1..Len(srvs) :
       /\ list[a].srvs[s].iid = f[s] /\ list[a].srvs[s].type = srvs[s].type
       /\ DOMAIN list[a].srvs[s].chrs = 1..Len(srvs[s].chrs)
       /\ \A k \in 1..Len(srvs[s].chrs) :
            At(<<a, s, k>>) = NumberedChr(a, s, k, srvs[s].chrs[k], f[s] + k)

LEMMA ListHas ==
  ASSUME NEW a, NEW srvs, NEW f, list[a] = NumberedAccessory(a, srvs, f)
  PROVE  Lists(a, srvs, f)
<1>1. list[a].aid = a /\ list[a].srvs = NumberedSrvs(a, srvs, f)
  BY DEF NumberedAccessory
<1>2. DOMAIN NumberedSrvs(a, srvs, f) = 1..Len(srvs)
  BY DEF NumberedSrvs
<1>3. ASSUME NEW s \in 1..Len(srvs)
      PROVE  /\ list[a].srvs[s].iid = f[s] /\ list[a].srvs[s].type = srvs[s].type
             /\ DOMAIN list[a].srvs[s].chrs = 1..Len(srvs[s].chrs)
             /\ \A k \in 1..Len(srvs[s].chrs) :
                  At(<<a, s, k>>) = NumberedChr(a, s, k, srvs[s].chrs[k], f[s] + k)
  <2>1. list[a].srvs[s] = NumberedSrv(a, s, srvs[s], f[s])
    BY <1>1, <1>3 DEF NumberedSrvs
  <2>2. /\ list[a].srvs[s].iid = f[s] /\ list[a].srvs[s].type = srvs[s].type
        /\ list[a].srvs[s].chrs =
             [k \in 1..Len(srvs[s].chrs) |-> NumberedChr(a, s, k, srvs[s].chrs[k], f[s] + k)]
    BY <2>1 DEF NumberedSrv
  <2>3. \A k : At(<<a, s, k>>) = list[a].srvs[s].chrs[k]
    BY DEF At
  <2> QED
    BY <2>2, <2>3
<1> QED
  BY <1>1, <1>2, <1>3 DEF Lists

\* Where a characteristic was asked for.
IsPlace(w, p) ==
  \E a \in 1..Len(w) : \E s \in 1..Len(w[a]) : \E k \in 1..Len(w[a][s].chrs) :
    p = <<a, s, k>>

LEMMA PlacesAre ==
  ASSUME NEW w \in Seq(Seq(Srvs)), IsNumbered(list, w)
  PROVE  \A p : p \in Places <=> IsPlace(w, p)
<1>1. DOMAIN list = 1..Len(w)
  BY DEF IsNumbered
<1>2. \A a \in 1..Len(w) :
        /\ DOMAIN list[a].srvs = 1..Len(w[a])
        /\ \A s \in 1..Len(w[a]) : DOMAIN list[a].srvs[s].chrs = 1..Len(w[a][s].chrs)
  <2> SUFFICES ASSUME NEW a \in 1..Len(w)
               PROVE  /\ DOMAIN list[a].srvs = 1..Len(w[a])
                      /\ \A s \in 1..Len(w[a]) :
                           DOMAIN list[a].srvs[s].chrs = 1..Len(w[a][s].chrs)
    OBVIOUS
  <2>1. PICK f : list[a] = NumberedAccessory(a, w[a], f)
    BY DEF IsNumbered
  <2> QED
    BY <2>1, ListHas DEF Lists
<1> DEFINE In(a, s) == {<<a, s, k>> : k \in DOMAIN list[a].srvs[s].chrs}
           InA(a) == UNION {In(a, s) : s \in DOMAIN list[a].srvs}
<1>3. Places = UNION {InA(a) : a \in DOMAIN list}
  BY DEF Places
<1>4. \A a \in 1..Len(w) : \A p : p \in InA(a) <=>
        \E s \in 1..Len(w[a]) : \E k \in 1..Len(w[a][s].chrs) : p = <<a, s, k>>
  <2> SUFFICES ASSUME NEW a \in 1..Len(w), NEW p
               PROVE  p \in InA(a) <=>
                        \E s \in 1..Len(w[a]) : \E k \in 1..Len(w[a][s].chrs) : p = <<a, s, k>>
    OBVIOUS
  <2>1. p \in InA(a) <=> \E s \in 1..Len(w[a]) : p \in In(a, s)
    <3> HIDE DEF In
    <3> QED
      BY <1>2
  <2>2. \A s \in 1..Len(w[a]) : p \in In(a, s) <=> \E k \in 1..Len(w[a][s].chrs) : p = <<a, s, k>>
    BY <1>2
  <2> HIDE DEF InA, In
  <2> QED
    BY <2>1, <2>2
<1> HIDE DEF InA
<1>5. \A p : p \in Places <=> \E a \in 1..Len(w) : p \in InA(a)
  BY <1>1, <1>3
<1> DEFINE At3(a, p) == \E s \in 1..Len(w[a]) : \E k \in 1..Len(w[a][s].chrs) : p = <<a, s, k>>
<1>6. \A a \in 1..Len(w) : \A p : p \in InA(a) <=> At3(a, p)
  BY <1>4
<1> HIDE DEF At3
<1>7. \A p : p \in Places <=> \E a \in 1..Len(w) : At3(a, p)
  BY <1>5, <1>6
<1> QED
  BY <1>7 DEF At3, IsPlace

\* The id of a characteristic leads to it, that of a service to none.
LEMMA IdsLead ==
  ASSUME NEW w \in Seq(Seq(Srvs)), IsNumbered(list, w), NEW a \in 1..Len(w),
         NEW f, FirstIds(f, w[a]), list[a] = NumberedAccessory(a, w[a], f),
         NEW s \in 1..Len(w[a])
  PROVE  /\ GetChr(a, f[s]) = Null
         /\ \A k \in 1..Len(w[a][s].chrs) : GetChr(a, f[s] + k).ptr = <<a, s, k>>
<1> DEFINE found(id) == {p \in Places : list[p[1]].aid = a /\ At(p).iid = id}
<1>1. w[a] \in Seq(Srvs) /\ f[s] \in Nat /\ Len(w[a][s].chrs) \in Nat /\ Len(w[a]) \in Nat
  <2>1. w[a] \in Seq(Srvs)
    OBVIOUS
  <2> QED
    BY <2>1, AskedChrs, IdsAre
<1>5. Lists(a, w[a], f)
  BY ListHas
<1>2. ASSUME NEW k \in 0..Len(w[a][s].chrs), NEW p \in found(f[s] + k)
      PROVE  k # 0 /\ p = <<a, s, k>>
  <2>0. IsPlace(w, p)
    <3>1. p \in Places
      OBVIOUS
    <3> QED
      BY <3>1, PlacesAre
  <2>1. PICK b \in 1..Len(w) : \E t \in 1..Len(w[b]) : \E l \in 1..Len(w[b][t].chrs) :
               p = <<b, t, l>>
    BY <2>0 DEF IsPlace
  <2>2. PICK t \in 1..Len(w[b]) : \E l \in 1..Len(w[b][t].chrs) : p = <<b, t, l>>
    BY <2>1
  <2>3. PICK l \in 1..Len(w[b][t].chrs) : p = <<b, t, l>>
    BY <2>2
  <2>4. b = a
    <3>1. PICK g : list[b] = NumberedAccessory(b, w[b], g)
      BY DEF IsNumbered
    <3>2. list[b].aid = b
      BY <3>1, ListHas DEF Lists
    <3>3. p[1] = b /\ list[p[1]].aid = a
      BY <2>3
    <3> QED
      BY <3>2, <3>3
  <2>5. At(<<a, t, l>>) = NumberedChr(a, t, l, w[a][t].chrs[l], f[t] + l)
    BY <1>5, <2>4 DEF Lists
  <2>6. f[t] + l = f[s] + k
    BY <2>3, <2>4, <2>5 DEF NumberedChr
  <2>7. l \in 0..Len(w[a][t].chrs) /\ l # 0 /\ t \in 1..Len(w[a])
    <3>1. Len(w[a][t].chrs) \in Nat
      BY <1>1, <2>4, AskedChrs
    <3> QED
      BY <2>4, <3>1
  <2>8. s = t /\ k = l
    BY <1>1, <2>6, <2>7, IdsDiffer
  <2> QED
    BY <2>3, <2>4, <2>7, <2>8
<1>3. GetChr(a, f[s]) = Null
  <2>1. f[s] = f[s] + 0 /\ 0 \in 0..Len(w[a][s].chrs)
    BY <1>1
  <2>2. found(f[s]) = {}
    BY <1>2, <2>1
  <2> QED
    BY <2>2 DEF GetChr, FirstAt
<1>4. ASSUME NEW k \in 1..Len(w[a][s].chrs)
      PROVE  GetChr(a, f[s] + k).ptr = <<a, s, k>>
  <2> DEFINE p == <<a, s, k>>
  <2>1. At(p) = NumberedChr(a, s, k, w[a][s].chrs[k], f[s] + k)
    BY <1>5 DEF Lists
  <2>2. At(p).iid = f[s] + k /\ At(p).ptr = p
    <3> DEFINE c == w[a][s].chrs[k]
               id == f[s] + k
    <3> HIDE DEF c, id, p
    <3>1. NumberedChr(a, s, k, c, id).iid = id /\ NumberedChr(a, s, k, c, id).ptr = <<a, s, k>>
      BY DEF NumberedChr
    <3> QED
      BY <2>1, <3>1 DEF c, id, p
  <2>3. p \in Places /\ list[p[1]].aid = a
    <3>1. p \in Places
      <4>1. IsPlace(w, p)
        BY DEF IsPlace
      <4> HIDE DEF p
      <4> QED
        BY <4>1, PlacesAre
    <3>2. p[1] = a /\ list[a].aid = a
      BY <1>5 DEF Lists
    <3> QED
      BY <3>1, <3>2
  <2>4. found(f[s] + k) = {p}
    <3>1. k \in 0..Len(w[a][s].chrs)
      BY <1>1
    <3>2. p \in found(f[s] + k)
      BY <2>2, <2>3
    <3> QED
      BY <1>2, <3>1, <3>2
  <2>5. NoLater(p, p)
    BY <1>1 DEF NoLater
  <2> HIDE DEF p
  <2>6. FirstAt({p}) = At(p)
    BY <2>5 DEF FirstAt
  <2>7. GetChr(a, f[s] + k) = At(p)
    BY <2>4, <2>6 DEF GetChr
  <2> QED
    BY <2>2, <2>7 DEF p
<1> QED
  BY <1>3, <1>4

LEMMA InformationIs ==
  /\ AccessoryInformation \in Srvs /\ AccessoryInformation.type = 62
  /\ Len(AccessoryInformation.chrs) = 6
  /\ \A k \in 1..6 : AccessoryInformation.chrs[k].type = 20 <=> k = 6
  /\ \A k \in 1..5 : AccessoryInformation.chrs[k].access = {"static"}
<1> DEFINE types == <<35, 32, 33, 48, 82>>
           five == [i \in 1..5 |-> Chr(types[i], {"static"})]
           last == Chr(20, {"write"})
           chrs == five \o <<last>>
<1>1. AccessoryInformation = Srv(62, chrs)
  BY DEF AccessoryInformation
<1>2. \A i \in 1..5 : types[i] \in Nat /\ types[i] # 20
  OBVIOUS
<1> HIDE DEF types
<1>3. last \in Chrs /\ last.type = 20 /\ \A i \in 1..5 : five[i] \in Chrs /\ five[i].type # 20
  BY <1>2 DEF Chr, Chrs, Accesses
<1>9. \A i \in 1..5 : five[i].access = {"static"}
  BY DEF Chr
<1>4. five \in Seq(Chrs) /\ Len(five) = 5
  BY <1>3
<1> HIDE DEF five, last
<1>8. <<last>> \in Seq(Chrs) /\ Len(<<last>>) = 1 /\ <<last>>[1] = last
  BY <1>3
<1>5. /\ chrs \in Seq(Chrs) /\ Len(chrs) = 6 /\ chrs[6] = last
      /\ \A i \in 1..5 : chrs[i] = five[i]
  <2> DEFINE one == <<last>>
  <2> HIDE DEF one
  <2>2. /\ five \o one \in Seq(Chrs) /\ Len(five \o one) = Len(five) + Len(one)
        /\ \A i \in 1..(Len(five) + Len(one)) :
             (five \o one)[i] = IF i <= Len(five) THEN five[i] ELSE one[i - Len(five)]
    <3>1. one \in Seq(Chrs)
      BY <1>8 DEF one
    <3> QED
      BY <1>4, <3>1, ConcatProperties
  <2>3. Len(five) = 5 /\ Len(one) = 1 /\ one[1] = last /\ chrs = five \o one
    BY <1>4, <1>8 DEF one
  <2> HIDE DEF chrs
  <2>4. chrs \in Seq(Chrs) /\ Len(chrs) = 6
    BY <2>2, <2>3
  <2>5. \A i \in 1..6 : chrs[i] = IF i <= 5 THEN five[i] ELSE one[i - 5]
    BY <2>2, <2>3
  <2> QED
    BY <2>3, <2>4, <2>5
<1> HIDE DEF chrs
<1>6. Srv(62, chrs) \in Srvs /\ Srv(62, chrs).type = 62 /\ Srv(62, chrs).chrs = chrs
  BY <1>5 DEF Srv, Srvs
<1>7. \A k \in 1..6 : chrs[k].type = 20 <=> k = 6
  BY <1>3, <1>5
<1>10. \A k \in 1..5 : chrs[k].access = {"static"}
  BY <1>5, <1>9
<1> QED
  BY <1>1, <1>5, <1>6, <1>7, <1>10

LEMMA IdentifyIs ==
  ASSUME NEW w \in Seq(Seq(Srvs)), IsNumbered(list, w), Len(w) > 0, Len(w[1]) > 0,
         w[1][1] = AccessoryInformation
  PROVE  IdentifyChr.ptr = <<1, 1, 6>>
<1> DEFINE found == {p \in Places : At(p).type = 20}
           first == <<1, 1, 6>>
<1>1. Len(w) \in Nat /\ 1 \in 1..Len(w) /\ w[1] \in Seq(Srvs) /\ 1 \in 1..Len(w[1])
  <2>1. Len(w) \in Nat /\ 1 \in 1..Len(w)
    OBVIOUS
  <2>2. w[1] \in Seq(Srvs)
    BY <2>1
  <2> QED
    BY <2>1, <2>2
<1>2. PICK f : FirstIds(f, w[1]) /\ list[1] = NumberedAccessory(1, w[1], f)
  BY <1>1 DEF IsNumbered
<1>3. Lists(1, w[1], f)
  BY <1>2, ListHas
<1>4. \A k \in 1..6 : /\ At(<<1, 1, k>>).type = 20 <=> k = 6
                      /\ At(<<1, 1, k>>).ptr = <<1, 1, k>>
  <2> SUFFICES ASSUME NEW k \in 1..6
               PROVE  /\ At(<<1, 1, k>>).type = 20 <=> k = 6
                      /\ At(<<1, 1, k>>).ptr = <<1, 1, k>>
    OBVIOUS
  <2> DEFINE c == AccessoryInformation.chrs[k]
             id == f[1] + k
  <2>1. At(<<1, 1, k>>) = NumberedChr(1, 1, k, c, id)
    BY <1>1, <1>3, InformationIs DEF Lists
  <2>2. c.type = 20 <=> k = 6
    BY InformationIs
  <2> HIDE DEF c, id
  <2>3. NumberedChr(1, 1, k, c, id).type = c.type /\ NumberedChr(1, 1, k, c, id).ptr = <<1, 1, k>>
    BY DEF NumberedChr
  <2> QED
    BY <2>1, <2>2, <2>3
<1>5. first \in found
  <2>1. \E k \in 1..Len(w[1][1].chrs) : first = <<1, 1, k>>
    BY InformationIs
  <2>2. IsPlace(w, first)
    BY <1>1, <2>1 DEF IsPlace
  <2>3. first \in Places
    <3> HIDE DEF first
    <3> QED
      BY <2>2, PlacesAre
  <2> QED
    BY <1>4, <2>3
<1>6. ASSUME NEW q \in found
      PROVE  NoLater(first, q) /\ (NoLater(q, first) => q = first)
  <2>0. IsPlace(w, q)
    <3>1. q \in Places
      OBVIOUS
    <3> QED
      BY <3>1, PlacesAre
  <2>1. PICK b \in 1..Len(w) : \E t \in 1..Len(w[b]) : \E l \in 1..Len(w[b][t].chrs) :
               q = <<b, t, l>>
    BY <2>0 DEF IsPlace
  <2>2. PICK t \in 1..Len(w[b]) : \E l \in 1..Len(w[b][t].chrs) : q = <<b, t, l>>
    BY <2>1
  <2>3. PICK l \in 1..Len(w[b][t].chrs) : q = <<b, t, l>>
    BY <2>2
  <2>4. w[b] \in Seq(Srvs)
    OBVIOUS
  <2>5. b \in Nat /\ t \in Nat /\ l \in Nat /\ b >= 1 /\ t >= 1 /\ l >= 1
    BY <1>1, <2>4, AskedChrs
  <2>6. b = 1 /\ t = 1 => l = 6
    <3> SUFFICES ASSUME b = 1, t = 1 PROVE l = 6
      OBVIOUS
    <3>1. l \in 1..6 /\ q = <<1, 1, l>>
      BY <2>3, InformationIs
    <3>2. At(q).type = 20
      OBVIOUS
    <3> HIDE DEF found, first
    <3> QED
      BY <1>4, <3>1, <3>2
  <2> QED
    BY <2>3, <2>5, <2>6 DEF NoLater
<1> HIDE DEF found, first
<1>7. FirstAt(found) = At(first)
  BY <1>5, <1>6 DEF FirstAt
<1>8. IdentifyChr = At(first)
  BY <1>7 DEF IdentifyChr, found
<1>9. At(first).ptr = first
  BY <1>4 DEF first
<1> QED
  BY <1>8, <1>9 DEF first

\* An accessory as a controller reads it.
Shows(served, srvs, f) ==
  /\ DOMAIN served = 1..Len(srvs) /\ Len(served) = Len(srvs)
  /\ \A s \in 1..Len(srvs) :
       LET chrs == served[s].characteristics
       IN  /\ served[s].type = srvs[s].type /\ served[s].iid = f[s]
           /\ Len(chrs) = Len(srvs[s].chrs)
           /\ \A k \in 1..Len(srvs[s].chrs) :
                /\ chrs[k].type = srvs[s].chrs[k].type /\ chrs[k].iid = f[s] + k
                /\ chrs[k].perms = Perms(srvs[s].chrs[k])

LEMMA Serves ==
  ASSUME NEW a \in DOMAIN list, NEW srvs \in Seq(Srvs), NEW f, Lists(a, srvs, f)
  PROVE  Shows(Serialized[a].services, srvs, f)
<1> DEFINE Shown(c) == [type |-> c.type, iid |-> c.iid, perms |-> Perms(c), format |-> Format(c.type)]
           ShownSrv(srv) == [type |-> srv.type, iid |-> srv.iid,
                             characteristics |-> [k \in DOMAIN srv.chrs |-> Shown(srv.chrs[k])]]
           served == Serialized[a].services
<1>1. served = [s \in DOMAIN list[a].srvs |-> ShownSrv(list[a].srvs[s])]
  BY DEF Serialized
<1>2. /\ DOMAIN list[a].srvs = 1..Len(srvs) /\ Len(srvs) \in Nat
      /\ \A s \in 1..Len(srvs) :
           /\ list[a].srvs[s].iid = f[s] /\ list[a].srvs[s].type = srvs[s].type
           /\ DOMAIN list[a].srvs[s].chrs = 1..Len(srvs[s].chrs)
  BY DEF Lists
<1>3. DOMAIN served = 1..Len(srvs) /\ Len(served) = Len(srvs)
  <2> HIDE DEF ShownSrv, served
  <2> QED
    BY <1>1, <1>2
<1>4. ASSUME NEW s \in 1..Len(srvs)
      PROVE  LET chrs == served[s].characteristics
             IN  /\ served[s].type = srvs[s].type /\ served[s].iid = f[s]
                 /\ Len(chrs) = Len(srvs[s].chrs)
                 /\ \A k \in 1..Len(srvs[s].chrs) :
                      /\ chrs[k].type = srvs[s].chrs[k].type /\ chrs[k].iid = f[s] + k
                      /\ chrs[k].perms = Perms(srvs[s].chrs[k])
  <2> DEFINE srv == list[a].srvs[s]
             n == Len(srvs[s].chrs)
             chrs == served[s].characteristics
  <2>1. n \in Nat
    BY AskedChrs
  <2>2. served[s] = ShownSrv(srv)
    <3> HIDE DEF ShownSrv, served
    <3> QED
      BY <1>1, <1>2
  <2>3. srv.iid = f[s] /\ srv.type = srvs[s].type /\ DOMAIN srv.chrs = 1..n
    BY <1>2
  <2> HIDE DEF srv, served, n
  <2>4. /\ served[s].type = srvs[s].type /\ served[s].iid = f[s]
        /\ chrs = [k \in 1..n |-> Shown(srv.chrs[k])]
    <3> HIDE DEF Shown
    <3> QED
      BY <2>2, <2>3
  <2>5. Len(chrs) = n
    <3> HIDE DEF Shown, chrs
    <3> QED
      BY <2>1, <2>4
  <2>6. ASSUME NEW k \in 1..n
        PROVE  /\ chrs[k].type = srvs[s].chrs[k].type /\ chrs[k].iid = f[s] + k
               /\ chrs[k].perms = Perms(srvs[s].chrs[k])
    <3> DEFINE c == srvs[s].chrs[k]
               id == f[s] + k
    <3>1. srv.chrs[k] = NumberedChr(a, s, k, c, id)
      <4>1. At(<<a, s, k>>) = srv.chrs[k]
        BY DEF At, srv
      <4> QED
        BY <4>1 DEF Lists, n
    <3>2. chrs[k] = Shown(srv.chrs[k])
      <4> HIDE DEF Shown, chrs
      <4> QED
        BY <2>4
    <3> HIDE DEF c, id, chrs
    <3>3. Shown(NumberedChr(a, s, k, c, id)).type = c.type /\ Shown(NumberedChr(a, s, k, c, id)).iid = id
      BY DEF NumberedChr
    <3>4. Shown(NumberedChr(a, s, k, c, id)).perms = Perms(NumberedChr(a, s, k, c, id))
      OBVIOUS
    <3>5. Perms(NumberedChr(a, s, k, c, id)) = Perms(c)
      <4>1. NumberedChr(a, s, k, c, id).access = c.access
        BY DEF NumberedChr
      <4> QED
        BY <4>1 DEF Perms
    <3> HIDE DEF Shown
    <3> QED
      BY <3>1, <3>2, <3>3, <3>4, <3>5 DEF c, id
  <2> QED
    BY <2>4, <2>5, <2>6 DEF n
<1> QED
  BY <1>3, <1>4 DEF Shows

\* Every accessory begins with its information.
HasInformation(w) ==
  \A a \in 1..Len(w) : Len(w[a]) > 0 /\ w[a][1] = AccessoryInformation

LEMMA ListServes ==
  ASSUME wanted \in Seq(Seq(Srvs)), HasInformation(wanted), IsNumbered(list, wanted)
  PROVE  ListServesSetup
<1>1. Len(wanted) \in Nat /\ DOMAIN wanted = 1..Len(wanted) /\ DOMAIN list = 1..Len(wanted)
  BY DEF IsNumbered
<1>2. ASSUME NEW a \in 1..Len(wanted)
      PROVE  list[a].aid = a /\ ServesAccessory(a, Serialized[a].services, wanted[a])
  <2> DEFINE srvs == wanted[a]
             served == Serialized[a].services
  <2>1. srvs \in Seq(Srvs) /\ Len(srvs) \in Nat /\ a \in DOMAIN list
    BY <1>1
  <2>2. PICK f : FirstIds(f, srvs) /\ list[a] = NumberedAccessory(a, srvs, f)
    BY DEF IsNumbered
  <2>3. Lists(a, srvs, f)
    BY <2>2, ListHas
  <2> HIDE DEF served
  <2>3a. Shows(served, srvs, f)
    <3> HIDE DEF srvs
    <3> QED
      BY <2>1, <2>3, Serves DEF served
  <2>4. /\ DOMAIN served = 1..Len(srvs) /\ Len(served) = Len(srvs)
        /\ \A s \in 1..Len(srvs) :
             /\ served[s].type = srvs[s].type /\ served[s].iid = f[s]
             /\ Len(served[s].characteristics) = Len(srvs[s].chrs)
             /\ \A k \in 1..Len(srvs[s].chrs) :
                  /\ served[s].characteristics[k].type = srvs[s].chrs[k].type
                  /\ served[s].characteristics[k].iid = f[s] + k
                  /\ served[s].characteristics[k].perms = Perms(srvs[s].chrs[k])
    <3> HIDE DEF srvs
    <3> QED
      BY <2>3a DEF Shows
  <2>5. list[a].aid = a
    BY <2>3 DEF Lists
  <2>6. IidsDiffer(served)
    <3> HIDE DEF srvs
    <3>1. ASSUME NEW s \in 1..Len(srvs), NEW k \in 0..Len(srvs[s].chrs)
          PROVE  Iid(served[s], k) = f[s] + k
      <4>1. Len(srvs[s].chrs) \in Nat /\ f[s] \in Nat /\ served[s].iid = f[s]
        BY <2>1, <2>2, <2>4, AskedChrs, IdsAre
      <4>2. k # 0 => served[s].characteristics[k].iid = f[s] + k
        BY <2>4, <4>1
      <4> QED
        BY <4>1, <4>2 DEF Iid
    <3>2. SUFFICES ASSUME NEW s \in DOMAIN served, NEW t \in DOMAIN served,
                          NEW k \in 0..Len(served[s].characteristics),
                          NEW l \in 0..Len(served[t].characteristics),
                          Iid(served[s], k) = Iid(served[t], l)
                   PROVE  s = t /\ k = l
      BY DEF IidsDiffer
    <3>3. /\ s \in 1..Len(srvs) /\ t \in 1..Len(srvs)
          /\ k \in 0..Len(srvs[s].chrs) /\ l \in 0..Len(srvs[t].chrs)
      BY <2>4
    <3>4. f[s] + k = f[t] + l /\ FirstIds(f, srvs) /\ srvs \in Seq(Srvs)
      BY <2>1, <2>2, <3>1, <3>2, <3>3
    <3>5. \A x, y \in 1..Len(srvs) :
            \A i \in 0..Len(srvs[x].chrs), j \in 0..Len(srvs[y].chrs) :
              f[x] + i = f[y] + j => x = y /\ i = j
      BY <3>4, AllIdsDiffer
    <3>6. \A i \in 0..Len(srvs[s].chrs), j \in 0..Len(srvs[t].chrs) :
            f[s] + i = f[t] + j => s = t /\ i = j
      BY <3>3, <3>5
    <3> QED
      BY <3>3, <3>4, <3>6
  <2>7. 1 \in 1..Len(srvs) /\ served[1].type = \h3E /\ served[1].iid = 1
    <3>1. 1 \in 1..Len(srvs) /\ srvs[1] = AccessoryInformation
      BY <2>1 DEF HasInformation
    <3>2. f[1] = 1
      BY <2>2 DEF FirstIds
    <3> QED
      BY <2>4, <3>1, <3>2, InformationIs
  <2>8. ASSUME NEW s \in 1..Len(srvs)
        PROVE  ServesSrv(a, s, served[s], srvs[s])
    <3>1. /\ GetChr(a, f[s]) = Null
          /\ \A k \in 1..Len(srvs[s].chrs) : GetChr(a, f[s] + k).ptr = <<a, s, k>>
      BY <2>2, IdsLead
    <3>2. DOMAIN srvs[s].chrs = 1..Len(srvs[s].chrs)
      BY <2>1, SrvParts
    <3> HIDE DEF srvs
    <3>3. ASSUME NEW k \in 1..Len(srvs[s].chrs)
          PROVE  LET chr == served[s].characteristics[k]
                 IN  /\ chr.type = srvs[s].chrs[k].type
                     /\ chr.perms = Perms(srvs[s].chrs[k])
                     /\ GetChr(a, chr.iid).ptr = <<a, s, k>>
      BY <2>4, <3>1
    <3> QED
      BY <2>4, <3>1, <3>2, <3>3 DEF ServesSrv
  <2>9. ServesAccessory(a, served, srvs)
    <3> HIDE DEF srvs
    <3> QED
      BY <2>4, <2>6, <2>7, <2>8 DEF ServesAccessory
  <2> QED
    BY <2>5, <2>9 DEF served
<1>3. wanted # <<>> => IdentifyChr.ptr = <<1, 1, 6>>
  <2> SUFFICES ASSUME wanted # <<>> PROVE IdentifyChr.ptr = <<1, 1, 6>>
    OBVIOUS
  <2>1. Len(wanted) > 0 /\ 1 \in 1..Len(wanted)
    BY <1>1
  <2>2. Len(wanted[1]) > 0 /\ wanted[1][1] = AccessoryInformation
    BY <2>1 DEF HasInformation
  <2> QED
    BY <2>1, <2>2, IdentifyIs
<1>4. [a \in DOMAIN wanted |-> a] = [a \in DOMAIN list |-> list[a].aid]
  BY <1>1, <1>2
<1> QED
  BY <1>1, <1>2, <1>3, <1>4 DEF ListServesSetup

-----------------------------------------------------------------------------
(* The services of all accessories, one after the other.  FlattenSeq is a  *)
(* recursive function, of which it has to be shown that it exists.         *)

\* g[i] has the elements of the first i sequences of w.
IsFlat(g, w, n) == g = [i \in 1..n |-> IF i = 1 THEN w[i] ELSE g[i - 1] \o w[i]]

LEMMA FlatExists ==
  ASSUME NEW w, NEW n \in Nat
  PROVE  \E g : IsFlat(g, w, n)
<1> DEFINE S == {k \in Nat : \E g : IsFlat(g, w, k)}
<1>1. \E g : IsFlat(g, w, 0)
  <2> DEFINE g == [i \in 1..0 |-> w]
  <2>1. IsFlat(g, w, 0)
    BY DEF IsFlat
  <2> QED
    BY <2>1
<1>2. ASSUME NEW k \in Nat, \E g : IsFlat(g, w, k) PROVE \E g : IsFlat(g, w, k + 1)
  <2>1. PICK g : IsFlat(g, w, k)
    BY <1>2
  <2> DEFINE E(h, i) == IF i = 1 THEN w[i] ELSE h[i - 1] \o w[i]
             h == [i \in 1..(k + 1) |-> E(g, i)]
  <2>2. g = [i \in 1..k |-> E(g, i)]
    BY <2>1 DEF IsFlat
  <2>3. \A i \in 1..k : h[i] = g[i]
    <3> HIDE DEF E
    <3> QED
      BY <2>2
  <2>4. ASSUME NEW i \in 1..(k + 1) PROVE E(h, i) = E(g, i)
    <3>1. i # 1 => i - 1 \in 1..k
      OBVIOUS
    <3>2. i # 1 => h[i - 1] = g[i - 1]
      BY <2>3, <3>1
    <3> HIDE DEF h
    <3> QED
      BY <3>2
  <2>5. h = [i \in 1..(k + 1) |-> E(h, i)]
    <3> HIDE DEF E
    <3> QED
      BY <2>4
  <2> HIDE DEF h
  <2>6. IsFlat(h, w, k + 1)
    BY <2>5 DEF IsFlat
  <2> QED
    BY <2>6
<1>3. S \in SUBSET Nat /\ 0 \in S /\ \A k \in S : k + 1 \in S
  BY <1>1, <1>2
<1>4. S = Nat
  <2> HIDE DEF S
  <2> QED
    BY <1>3, Induction
<1> QED
  BY <1>4

LEMMA FlattenUnfolds ==
  ASSUME NEW w, Len(w) \in Nat, Len(w) # 0
  PROVE  \E g : IsFlat(g, w, Len(w)) /\ FlattenSeq(w) = g[Len(w)]
<1> DEFINE E(g, i) == IF i = 1 THEN w[i] ELSE g[i - 1] \o w[i]
           flat == CHOOSE g : g = [i \in 1..Len(w) |-> E(g, i)]
<1>1. FlattenSeq(w) = flat[Len(w)]
  BY DEF FlattenSeq
<1>2. flat = [i \in 1..Len(w) |-> E(flat, i)]
  <2>1. \E g : g = [i \in 1..Len(w) |-> E(g, i)]
    BY FlatExists DEF IsFlat
  <2> HIDE DEF E
  <2> QED
    BY <2>1
<1> HIDE DEF flat
<1>3. IsFlat(flat, w, Len(w))
  BY <1>2 DEF IsFlat
<1> QED
  BY <1>1, <1>3

LEMMA FlatSteps ==
  ASSUME NEW g, NEW w, NEW n \in Nat, IsFlat(g, w, n)
  PROVE  /\ n > 0 => g[1] = w[1]
         /\ \A i \in 1..n : i < n => g[i + 1] = g[i] \o w[i + 1]
<1>1. n > 0 => g[1] = w[1]
  <2>1. n > 0 => 1 \in 1..n
    OBVIOUS
  <2> QED
    BY <2>1 DEF IsFlat
<1>2. ASSUME NEW i \in 1..n, i < n PROVE g[i + 1] = g[i] \o w[i + 1]
  <2>1. i + 1 \in 1..n /\ i + 1 # 1 /\ (i + 1) - 1 = i
    BY <1>2
  <2> QED
    BY <2>1 DEF IsFlat
<1> QED
  BY <1>1, <1>2

LEMMA FlattenAppend ==
  ASSUME NEW S, NEW w \in Seq(Seq(S)), NEW x \in Seq(S)
  PROVE  /\ FlattenSeq(w) \in Seq(S)
         /\ FlattenSeq(Append(w, x)) = FlattenSeq(w) \o x
<1> DEFINE n == Len(w)
           v == Append(w, x)
<1>1. /\ n \in Nat /\ Len(v) = n + 1 /\ v[n + 1] = x
      /\ \A i \in 1..n : v[i] = w[i] /\ w[i] \in Seq(S)
  BY Appended
<1>2. PICK h : IsFlat(h, v, n + 1) /\ FlattenSeq(v) = h[n + 1]
  <2> HIDE DEF n, v
  <2> QED
    BY <1>1, FlattenUnfolds
<1>3. CASE n = 0
  <2>1. FlattenSeq(w) = <<>>
    BY <1>3 DEF FlattenSeq
  <2>2. h[1] = v[1]
    <3> HIDE DEF n, v
    <3>1. IsFlat(h, v, n + 1) /\ n + 1 \in Nat /\ n + 1 > 0
      BY <1>1, <1>2
    <3> QED
      BY <3>1, FlatSteps
  <2>3. FlattenSeq(v) = x
    BY <1>1, <1>2, <1>3, <2>2
  <2>4. <<>> \o x = x /\ <<>> \in Seq(S)
    OBVIOUS
  <2> QED
    BY <2>1, <2>3, <2>4
<1>4. CASE n # 0
  <2>1. PICK g : IsFlat(g, w, n) /\ FlattenSeq(w) = g[n]
    BY <1>1, <1>4, FlattenUnfolds
  <2> DEFINE T == {k \in 0..n : k > 0 => h[k] = g[k] /\ g[k] \in Seq(S)}
  <2> HIDE DEF n, v
  <2>7. /\ h[1] = v[1] /\ g[1] = w[1]
        /\ \A i \in 1..n : h[i + 1] = h[i] \o v[i + 1]
        /\ \A i \in 1..n : i < n => g[i + 1] = g[i] \o w[i + 1]
    <3>1. IsFlat(h, v, n + 1) /\ IsFlat(g, w, n) /\ n + 1 \in Nat /\ n + 1 > 0 /\ n \in Nat /\ n > 0
      BY <1>1, <1>2, <1>4, <2>1
    <3>2. h[1] = v[1] /\ \A i \in 1..(n + 1) : i < n + 1 => h[i + 1] = h[i] \o v[i + 1]
      BY <3>1, FlatSteps
    <3>3. g[1] = w[1] /\ \A i \in 1..n : i < n => g[i + 1] = g[i] \o w[i + 1]
      BY <3>1, FlatSteps
    <3>4. \A i \in 1..n : i \in 1..(n + 1) /\ i < n + 1
      BY <3>1
    <3> QED
      BY <3>2, <3>3, <3>4
  <2>2. T \in SUBSET (0..n) /\ 0 \in T
    BY <1>1
  <2>3. ASSUME NEW k \in T, k < n PROVE k + 1 \in T
    <3>1. CASE k = 0
      <4>1. h[1] = v[1] /\ g[1] = w[1] /\ v[1] = w[1] /\ w[1] \in Seq(S)
        <5>1. 1 \in 1..n
          BY <1>1, <1>4
        <5> QED
          BY <1>1, <2>7, <5>1
      <4>2. k + 1 = 1 /\ 1 \in 0..n
        BY <1>1, <2>3, <3>1
      <4> QED
        BY <4>1, <4>2
    <3>2. CASE k # 0
      <4>1. k \in 1..n /\ k \in 1..(n + 1) /\ k < n + 1 /\ k + 1 \in 1..n
            /\ h[k] = g[k] /\ g[k] \in Seq(S)
        BY <1>1, <2>3, <3>2
      <4>2. h[k + 1] = h[k] \o v[k + 1] /\ g[k + 1] = g[k] \o w[k + 1]
        BY <2>3, <2>7, <4>1
      <4>3. v[k + 1] = w[k + 1] /\ w[k + 1] \in Seq(S)
        BY <1>1, <4>1
      <4>4. g[k + 1] \in Seq(S)
        BY <4>1, <4>2, <4>3
      <4>5. k + 1 \in 0..n
        BY <1>1, <4>1
      <4> QED
        BY <4>1, <4>2, <4>3, <4>4, <4>5
    <3> QED
      BY <3>1, <3>2
  <2>4. T = 0..n
    <3> HIDE DEF T
    <3> QED
      BY <1>1, <2>2, <2>3, InductionUpTo
  <2>5. h[n] = g[n] /\ g[n] \in Seq(S)
    <3>1. n \in 0..n /\ n > 0
      BY <1>1, <1>4
    <3> QED
      BY <2>4, <3>1
  <2>6. h[n + 1] = h[n] \o v[n + 1]
    <3>1. n \in 1..n
      BY <1>1, <1>4
    <3> QED
      BY <2>7, <3>1
  <2> QED
    BY <1>1, <1>2, <2>1, <2>5, <2>6 DEF v
<1> QED
  BY <1>3, <1>4

\* The service of the last accessory that was asked for last is the last of all.
LEMMA FlattenLast ==
  ASSUME NEW w \in Seq(Seq(Srvs)), NEW srvs \in Seq(Srvs), NEW srv \in Srvs
  PROVE  /\ FlattenSeq(w) \o srvs \in Seq(Srvs)
         /\ FlattenSeq(Append(w, Append(srvs, srv))) = Append(FlattenSeq(w) \o srvs, srv)
<1>1. Append(srvs, srv) \in Seq(Srvs) /\ FlattenSeq(w) \in Seq(Srvs)
  BY FlattenAppend
<1>2. FlattenSeq(Append(w, Append(srvs, srv))) = FlattenSeq(w) \o Append(srvs, srv)
  BY <1>1, FlattenAppend
<1> DEFINE all == FlattenSeq(w)
<1> HIDE DEF all
<1>3. all \in Seq(Srvs)
  BY <1>1 DEF all
<1>4. all \o Append(srvs, srv) = Append(all \o srvs, srv) /\ all \o srvs \in Seq(Srvs)
  BY <1>3
<1> QED
  BY <1>2, <1>4 DEF all

-----------------------------------------------------------------------------
(* The BLE stack: the arrays of a setup that goes on.                      *)

\* The variable gatt, and an element of its array.
Gatt(srvs, srv, chr, next, srvId) ==
  [srvs |-> srvs, srv |-> srv, chr |-> chr, next |-> next, srvId |-> srvId]

LEMMA GattFields ==
  ASSUME NEW a, NEW b, NEW c, NEW d, NEW e
  PROVE  /\ Gatt(a, b, c, d, e).srvs = a /\ Gatt(a, b, c, d, e).srv = b
         /\ Gatt(a, b, c, d, e).chr = c /\ Gatt(a, b, c, d, e).next = d
         /\ Gatt(a, b, c, d, e).srvId = e
BY DEF Gatt

LEMMA GattPut ==
  ASSUME NEW a, NEW b, NEW c, NEW d, NEW e, NEW x
  PROVE  /\ [Gatt(a, b, c, d, e) EXCEPT !.srvs = x] = Gatt(x, b, c, d, e)
         /\ [Gatt(a, b, c, d, e) EXCEPT !.srv = x] = Gatt(a, x, c, d, e)
         /\ [Gatt(a, b, c, d, e) EXCEPT !.chr = x] = Gatt(a, b, x, d, e)
         /\ [Gatt(a, b, c, d, e) EXCEPT !.next = x] = Gatt(a, b, c, x, e)
         /\ [Gatt(a, b, c, d, e) EXCEPT !.srvId = x] = Gatt(a, b, c, d, x)
BY DEF Gatt

Entry(uuid, chrs) == [uuid |-> uuid, chrs |-> chrs]

LEMMA EntryPut ==
  ASSUME NEW u, NEW x, NEW y
  PROVE  /\ Entry(u, x).uuid = u /\ Entry(u, x).chrs = x
         /\ [Entry(u, x) EXCEPT !.chrs = y] = Entry(u, y)
BY DEF Entry

LEMMA AppendIs ==
  ASSUME NEW S, NEW q \in Seq(S), NEW x
  PROVE  Append(q, x) = [i \in 1..(Len(q) + 1) |-> IF i = Len(q) + 1 THEN x ELSE q[i]]
<1> DEFINE T == S \cup {x}
           n == Len(q)
           r == Append(q, x)
<1>1. q \in Seq(T) /\ x \in T
  OBVIOUS
<1>2. /\ n \in Nat /\ r \in Seq(T) /\ Len(r) = n + 1 /\ r[n + 1] = x
      /\ \A i \in 1..n : r[i] = q[i]
  BY <1>1, Appended
<1> HIDE DEF T, n, r
<1>3. \A i \in 1..(n + 1) : i # n + 1 => i \in 1..n
  BY <1>2
<1>4. \A i \in 1..(n + 1) : r[i] = IF i = n + 1 THEN x ELSE q[i]
  BY <1>2, <1>3
<1>5. r = [i \in 1..(n + 1) |-> r[i]]
  BY <1>2
<1>6. r = [i \in 1..(n + 1) |-> IF i = n + 1 THEN x ELSE q[i]]
  BY <1>4, <1>5
<1> QED
  BY <1>6 DEF r, n

\* An array that is one element longer, and one whose last element is written.
LEMMA ResizeAppends ==
  ASSUME NEW S, NEW q \in Seq(S)
  PROVE  Resize(q, Len(q) + 1) = Append(q, End)
<1> DEFINE n == Len(q)
<1>1. n \in Nat /\ DOMAIN q = 1..n
  OBVIOUS
<1>3. Append(q, End) = [i \in 1..(n + 1) |-> IF i = n + 1 THEN End ELSE q[i]]
  BY AppendIs
<1> HIDE DEF n
<1>4. \A i \in 1..(n + 1) : i # n + 1 => i \in 1..n
  BY <1>1
<1> QED
  BY <1>1, <1>3, <1>4 DEF Resize, n

LEMMA LastPut ==
  ASSUME NEW S, NEW q \in Seq(S), NEW x, NEW y
  PROVE  /\ Append(q, x)[Len(q) + 1] = x /\ Len(Append(q, x)) = Len(q) + 1
         /\ DOMAIN Append(q, x) = 1..(Len(q) + 1)
         /\ [Append(q, x) EXCEPT ![Len(q) + 1] = y] = Append(q, y)
<1> DEFINE n == Len(q)
<1>1. n \in Nat
  OBVIOUS
<1>2. Append(q, x) = [i \in 1..(n + 1) |-> IF i = n + 1 THEN x ELSE q[i]]
  BY AppendIs
<1>3. Append(q, y) = [i \in 1..(n + 1) |-> IF i = n + 1 THEN y ELSE q[i]]
  BY AppendIs
<1> HIDE DEF n
<1>4. Len(Append(q, x)) = n + 1
  BY <1>1, <1>2
<1>5. n + 1 \in 1..(n + 1)
  BY <1>1
<1> QED
  BY <1>2, <1>3, <1>4, <1>5 DEF n

\* The last service is the one that grows.
LEMMA AllocChrGrows ==
  ASSUME NEW S, NEW pre \in Seq(S), NEW T, NEW x \in Seq(T), NEW u, NEW d, NEW e,
         Len(x) \in Nat
  PROVE  AllocChr(Gatt(Append(pre, Entry(u, x)), Len(pre), Len(x) - 1, d, e))
           = Gatt(Append(pre, Entry(u, Append(x, End))), Len(pre), Len(x), d, e)
<1> DEFINE n == Len(pre)
           m == Len(x)
           old == Append(pre, Entry(u, x))
           new == Append(pre, Entry(u, Append(x, End)))
           g == Gatt(old, n, m - 1, d, e)
           h == Gatt(old, n, m, d, e)
<1>1. n \in Nat /\ m \in Nat
  OBVIOUS
<1>2. /\ old[n + 1] = Entry(u, x) /\ DOMAIN old = 1..(n + 1)
      /\ [old EXCEPT ![n + 1] = Entry(u, Append(x, End))] = new
  BY LastPut
<1>3. Resize(x, m + 1) = Append(x, End)
  BY ResizeAppends
<1> HIDE DEF n, m, old, new
<1>4. g.srvs = old /\ g.srv = n /\ g.chr = m - 1
  BY GattFields
<1>5. h.srvs = old /\ h = [g EXCEPT !.chr = m]
  BY GattFields, GattPut
<1> HIDE DEF g, h
<1>6. g.chr + 1 = m /\ g.chr + 2 = m + 1
  BY <1>1, <1>4
<1>7. [old[n + 1] EXCEPT !.chrs = Resize(old[n + 1].chrs, m + 1)] = Entry(u, Append(x, End))
  <2>1. old[n + 1].chrs = x
    BY <1>2, EntryPut
  <2>2. [Entry(u, x) EXCEPT !.chrs = Append(x, End)] = Entry(u, Append(x, End))
    BY EntryPut
  <2> QED
    BY <1>2, <1>3, <2>1, <2>2
<1>8. [h EXCEPT !.srvs[n + 1].chrs = Resize(@, m + 1)]
        = [h EXCEPT !.srvs = [old EXCEPT ![n + 1] =
             [old[n + 1] EXCEPT !.chrs = Resize(old[n + 1].chrs, m + 1)]]]
  BY <1>5
<1>9. [h EXCEPT !.srvs = new] = Gatt(new, n, m, d, e)
  BY GattPut DEF h
<1>10. AllocChr(g) = [h EXCEPT !.srvs[n + 1].chrs = Resize(@, m + 1)]
  <2>1. AllocChr(g) = [[g EXCEPT !.chr = g.chr + 1] EXCEPT !.srvs[g.srv + 1].chrs = Resize(@, g.chr + 2)]
    BY DEF AllocChr
  <2> QED
    BY <1>4, <1>5, <1>6, <2>1
<1> QED
  BY <1>2, <1>7, <1>8, <1>9, <1>10 DEF g, n, m, old, new

LEMMA PutChrGrows ==
  ASSUME NEW S, NEW pre \in Seq(S), NEW T, NEW x \in Seq(T), NEW u, NEW d, NEW e, NEW c
  PROVE  PutChr(Gatt(Append(pre, Entry(u, x)), Len(pre), Len(x) - 1, d, e), c)
           = Gatt(Append(pre, Entry(u, Append(x, c))), Len(pre), Len(x), d, e)
<1> DEFINE n == Len(pre)
           m == Len(x)
           mid == Append(pre, Entry(u, Append(x, End)))
           new == Append(pre, Entry(u, Append(x, c)))
           g == Gatt(Append(pre, Entry(u, x)), n, m - 1, d, e)
           h == Gatt(mid, n, m, d, e)
<1>1. n \in Nat /\ m \in Nat
  OBVIOUS
<1>2. /\ mid[n + 1] = Entry(u, Append(x, End)) /\ DOMAIN mid = 1..(n + 1)
      /\ [mid EXCEPT ![n + 1] = Entry(u, Append(x, c))] = new
  BY LastPut
<1>3. [Append(x, End) EXCEPT ![m + 1] = c] = Append(x, c)
  BY LastPut
<1>4. AllocChr(g) = h
  BY <1>1, AllocChrGrows
<1> HIDE DEF n, m, mid, new
<1>5. h.srvs = mid /\ h.srv = n /\ h.chr = m
  BY GattFields
<1>9. [h EXCEPT !.srvs = new] = Gatt(new, n, m, d, e)
  BY GattPut DEF h
<1> HIDE DEF g, h
<1>6. mid[n + 1].chrs = Append(x, End)
  <2>1. Entry(u, Append(x, End)).chrs = Append(x, End)
    BY EntryPut
  <2> QED
    BY <1>2, <2>1
<1>7. [mid[n + 1] EXCEPT !.chrs = Append(x, c)] = Entry(u, Append(x, c))
  <2>1. [Entry(u, Append(x, End)) EXCEPT !.chrs = Append(x, c)] = Entry(u, Append(x, c))
    BY EntryPut
  <2> QED
    BY <1>2, <2>1
<1>8. [h EXCEPT !.srvs[n + 1].chrs[m + 1] = c]
        = [h EXCEPT !.srvs = [mid EXCEPT ![n + 1] = [mid[n + 1] EXCEPT !.chrs =
             [Append(x, End) EXCEPT ![m + 1] = c]]]]
  BY <1>5, <1>6
<1>10. PutChr(g, c) = [h EXCEPT !.srvs[n + 1].chrs[m + 1] = c]
  BY <1>4, <1>5 DEF PutChr
<1> QED
  BY <1>2, <1>3, <1>7, <1>8, <1>9, <1>10 DEF g, n, m, new

LEMMA CloseSrvEnds ==
  ASSUME NEW S, NEW pre \in Seq(S), NEW T, NEW x \in Seq(T), NEW u, NEW d, NEW e
  PROVE  CloseSrv(Gatt(Append(pre, Entry(u, x)), Len(pre), Len(x) - 1, d, e))
           = Gatt(Append(pre, Entry(u, Append(x, End))), Len(pre), -1, d, e)
<1> DEFINE n == Len(pre)
           m == Len(x)
           mid == Append(pre, Entry(u, Append(x, End)))
           g == Gatt(Append(pre, Entry(u, x)), n, m - 1, d, e)
           h == Gatt(mid, n, m, d, e)
<1>1. n \in Nat /\ m \in Nat
  OBVIOUS
<1>2. AllocChr(g) = h
  BY <1>1, AllocChrGrows
<1>3. g.srv = n
  BY GattFields
<1> HIDE DEF n, m, mid
<1>4. [h EXCEPT !.chr = -1] = Gatt(mid, n, -1, d, e)
  <2> DEFINE none == -1
  <2> HIDE DEF none
  <2>1. [Gatt(mid, n, m, d, e) EXCEPT !.chr = none] = Gatt(mid, n, none, d, e)
    BY DEF Gatt
  <2> QED
    BY <2>1 DEF none
<1> HIDE DEF g, h
<1>5. CloseSrv(g) = [h EXCEPT !.chr = -1]
  BY <1>1, <1>2, <1>3 DEF CloseSrv
<1> QED
  BY <1>4, <1>5 DEF g, n, m, mid

LEMMA AllocSrvGrows ==
  ASSUME NEW S, NEW pre \in Seq(S), NEW c, NEW d, NEW e
  PROVE  AllocSrv(Gatt(pre, Len(pre) - 1, c, d, e)) = Gatt(Append(pre, End), Len(pre), c, d, e)
<1> DEFINE n == Len(pre)
           g == Gatt(pre, n - 1, c, d, e)
           h == Gatt(pre, n, c, d, e)
<1>1. n \in Nat
  OBVIOUS
<1>2. Resize(pre, n + 1) = Append(pre, End)
  BY ResizeAppends
<1> HIDE DEF n
<1>3. g.srv = n - 1 /\ h.srvs = pre /\ h = [g EXCEPT !.srv = n]
  BY GattFields, GattPut
<1> DEFINE new == Append(pre, End)
<1> HIDE DEF new
<1>4. [h EXCEPT !.srvs = new] = Gatt(new, n, c, d, e)
  BY GattPut
<1> HIDE DEF g, h
<1>5. g.srv + 1 = n /\ g.srv + 2 = n + 1
  BY <1>1, <1>3
<1>6. AllocSrv(g) = [[g EXCEPT !.srv = g.srv + 1] EXCEPT !.srvs = Resize(@, g.srv + 2)]
  BY DEF AllocSrv
<1>7. AllocSrv(g) = [h EXCEPT !.srvs = Resize(h.srvs, n + 1)]
  BY <1>3, <1>5, <1>6
<1> QED
  BY <1>2, <1>3, <1>4, <1>7 DEF g, n, new

\* What is read to identify a service.
FirstEntry(id) == [uuid |-> "srv_id", index |-> id, srvId |-> id % CharRange]

\* The services pre are closed.
Between(pre, next, id) == Gatt(pre, Len(pre) - 1, -1, next, id)

\* A service that is added after them.
LEMMA BeginsSrv ==
  ASSUME NEW g, NEW S, NEW pre \in Seq(S), NEW d, NEW e, NEW type,
         CloseSrv(g) = Between(pre, d, e)
  PROVE  BleAddSrv(g, type)
           = Gatt(Append(pre, Entry(Uuid(type), <<FirstEntry(d)>>)), Len(pre), 0, d + 1, d % CharRange)
<1> DEFINE n == Len(pre)
           u == Uuid(type)
           id == d % CharRange
           new == Gatt(Append(pre, End), n, -1, d, e)
           filled == Append(pre, Entry(u, <<>>))
           g1 == Gatt(filled, n, -1, d, e)
           g2 == Gatt(filled, n, -1, d + 1, e)
           g3 == Gatt(filled, n, -1, d + 1, id)
<1>1. AllocSrv(CloseSrv(g)) = new
  BY AllocSrvGrows DEF Between
<1>2. [Append(pre, End) EXCEPT ![n + 1] = Entry(u, <<>>)] = filled /\ n \in Nat
  BY LastPut
<1>3. PutChr(g3, FirstEntry(d))
        = Gatt(Append(pre, Entry(u, <<FirstEntry(d)>>)), n, 0, d + 1, id)
  <2>1. <<>> \in Seq({}) /\ Len(<<>>) = 0 /\ Append(<<>>, FirstEntry(d)) = <<FirstEntry(d)>> /\ -1 = 0 - 1
    OBVIOUS
  <2> DEFINE none == <<>>
  <2>2. none \in Seq({}) /\ Len(none) = 0
    BY <2>1
  <2>3. PutChr(Gatt(Append(pre, Entry(u, none)), n, Len(none) - 1, d + 1, id), FirstEntry(d))
          = Gatt(Append(pre, Entry(u, Append(none, FirstEntry(d)))), n, Len(none), d + 1, id)
    <3> DEFINE next == d + 1
               entry == FirstEntry(d)
               T == {}
    <3> HIDE DEF T
    <3>2. none \in Seq(T)
      BY <2>2 DEF T
    <3> HIDE DEF none, u, id, next, entry
    <3>1. PutChr(Gatt(Append(pre, Entry(u, none)), Len(pre), Len(none) - 1, next, id), entry)
            = Gatt(Append(pre, Entry(u, Append(none, entry))), Len(pre), Len(none), next, id)
      BY <3>2, PutChrGrows
    <3> QED
      BY <2>2, <3>1 DEF next, entry
  <2> QED
    BY <2>1, <2>3
<1> DEFINE end == Append(pre, End)
           next == d + 1
<1> HIDE DEF n, filled, u, id
<1>4. new.srv = n /\ new.next = d /\ new.srvs = end
  <2>1. new = Gatt(end, n, -1, d, e)
    OBVIOUS
  <2> HIDE DEF end, new
  <2> QED
    BY <2>1, GattFields
<1>11. /\ [Gatt(end, n, -1, d, e) EXCEPT !.srvs = filled] = Gatt(filled, n, -1, d, e)
       /\ [Gatt(filled, n, -1, d, e) EXCEPT !.next = next] = Gatt(filled, n, -1, next, e)
       /\ [Gatt(filled, n, -1, next, e) EXCEPT !.srvId = id] = Gatt(filled, n, -1, next, id)
       /\ Gatt(filled, n, -1, d, e).next = d
  <2> HIDE DEF end, next
  <2> QED
    BY GattPut, GattFields
<1>5. [new EXCEPT !.srvs = filled] = g1 /\ [g1 EXCEPT !.next = d + 1] = g2 /\ [g2 EXCEPT !.srvId = id] = g3
      /\ g1.next = d
  BY <1>11
<1> HIDE DEF new, g1, g2, g3, end
<1>6. [new EXCEPT !.srvs[n + 1] = Entry(u, <<>>)] = g1
  <2>1. [end EXCEPT ![n + 1] = Entry(u, <<>>)] = filled
    BY <1>2 DEF end
  <2>2. [new EXCEPT !.srvs[n + 1] = Entry(u, <<>>)]
          = [new EXCEPT !.srvs = [end EXCEPT ![n + 1] = Entry(u, <<>>)]]
    BY <1>4
  <2> QED
    BY <1>5, <2>1, <2>2
<1>7. [new EXCEPT !.srvs[new.srv + 1] = [uuid |-> u, chrs |-> <<>>], !.next = @ + 1, !.srvId = id]
        = g3
  <2>1. [new EXCEPT !.srvs[new.srv + 1] = [uuid |-> u, chrs |-> <<>>]] = g1
    BY <1>4, <1>6 DEF Entry
  <2>2. [new EXCEPT !.srvs[new.srv + 1] = [uuid |-> u, chrs |-> <<>>], !.next = @ + 1] = g2
    <3>1. [g1 EXCEPT !.next = @ + 1] = g2
      BY <1>5
    <3> QED
      BY <2>1, <3>1
  <2> QED
    BY <1>5, <2>2
<1>8. BleAddSrv(g, type) = PutChr(g3, FirstEntry(d))
  <2>1. id = new.next % CharRange /\ FirstEntry(d) = [uuid |-> "srv_id", index |-> new.next, srvId |-> id]
    BY <1>4 DEF FirstEntry, id
  <2> HIDE DEF id
  <2> QED
    BY <1>1, <1>7, <2>1 DEF BleAddSrv, u
<1> QED
  BY <1>3, <1>8 DEF n, u, id

-----------------------------------------------------------------------------
(* The arrays, from what was asked for.                                    *)

ChrEntry(c, index, id) ==
  [uuid |-> Uuid(c.type), index |-> index, srvId |-> id % CharRange,
   type |-> c.type, access |-> c.access]

\* The characteristics of a service whose first one has instance id id.
Row(chrs, id) ==
  [k \in 1..(Len(chrs) + 1) |->
     IF k = 1 THEN FirstEntry(id) ELSE ChrEntry(chrs[k - 1], id + (k - 1), id)]

OpenRow(srv, id) == Entry(Uuid(srv.type), Row(srv.chrs, id))

ClosedRow(srv, id) == Entry(Uuid(srv.type), Append(Row(srv.chrs, id), End))

Closed(q, f) == [s \in 1..Len(q) |-> ClosedRow(q[s], f[s])]

\* Service srv is the last one, after the services q.
Open(q, srv, id, f) ==
  Gatt(Append(Closed(q, f), OpenRow(srv, id)), Len(q), Len(srv.chrs),
       id + Len(srv.chrs) + 1, id % CharRange)

\* The last service, srv after those of q, has no end marker yet.
IsOpen(g, q, srv) ==
  \E f : FirstIds(f, q) /\ g = Open(q, srv, f[Len(q) + 1], f)

\* The table while the setup goes on, and at its end.
IsTable(g, asked) ==
  \/ asked = <<>> /\ g = NoGatt
  \/ \E q \in Seq(Srvs) : \E srv \in Srvs : asked = Append(q, srv) /\ IsOpen(g, q, srv)

IsEnded(g, asked) ==
  \E f : FirstIds(f, asked) /\ g.srvs = Append(Closed(asked, f), End)

LEMMA UuidIs ==
  ASSUME NEW type \in Nat
  PROVE  Uuid(type) \in Nat
BY Remainder DEF Uuid

LEMMA FirstEntryIs ==
  ASSUME NEW id \in Nat
  PROVE  FirstEntry(id) \in ChrEntries
<1>1. id % CharRange \in Nat
  BY KindsAssumption, Remainder
<1> QED
  BY <1>1 DEF FirstEntry, ChrEntries

LEMMA ChrEntryIs ==
  ASSUME NEW id \in Nat, NEW index \in Nat, NEW c \in Chrs
  PROVE  ChrEntry(c, index, id) \in ChrEntries
<1>1. id % CharRange \in Nat
  BY KindsAssumption, Remainder
<1>2. c.type \in Nat /\ c.access \in SUBSET Accesses
  BY DEF Chrs
<1>3. Uuid(c.type) \in Nat
  BY <1>2, UuidIs
<1> QED
  BY <1>1, <1>2, <1>3 DEF ChrEntry, ChrEntries

LEMMA RowIs ==
  ASSUME NEW chrs \in Seq(Chrs), NEW id \in Nat
  PROVE  Row(chrs, id) \in Seq(ChrEntries) /\ Len(Row(chrs, id)) = Len(chrs) + 1
<1> DEFINE n == Len(chrs)
           E(k) == IF k = 1 THEN FirstEntry(id) ELSE ChrEntry(chrs[k - 1], id + (k - 1), id)
<1>1. n \in Nat /\ \A k \in 1..n : chrs[k] \in Chrs
  OBVIOUS
<1>2. ASSUME NEW k \in 1..(n + 1) PROVE E(k) \in ChrEntries
  <2>1. CASE k = 1
    <3>1. FirstEntry(id) \in ChrEntries
      BY FirstEntryIs
    <3> QED
      BY <2>1, <3>1
  <2>2. CASE k # 1
    <3>1. k - 1 \in 1..n /\ id + (k - 1) \in Nat
      BY <1>1, <2>2
    <3>2. chrs[k - 1] \in Chrs
      BY <1>1, <3>1
    <3> DEFINE c == chrs[k - 1]
               index == id + (k - 1)
    <3> HIDE DEF c, index
    <3>3. c \in Chrs /\ index \in Nat
      BY <3>1, <3>2 DEF c, index
    <3>4. ChrEntry(c, index, id) \in ChrEntries
      BY <3>3, ChrEntryIs
    <3> QED
      BY <2>2, <3>4 DEF c, index
  <2> QED
    BY <2>1, <2>2
<1>3. Row(chrs, id) = [k \in 1..(n + 1) |-> E(k)]
  BY DEF Row
<1> HIDE DEF E, n
<1>4. Row(chrs, id) \in [1..(n + 1) -> ChrEntries]
  BY <1>2, <1>3
<1>5. n + 1 \in Nat
  BY <1>1
<1> QED
  BY <1>4, <1>5 DEF n

\* A characteristic more is an element more of its service.
LEMMA RowGrows ==
  ASSUME NEW chrs \in Seq(Chrs), NEW id \in Nat, NEW c \in Chrs
  PROVE  Row(Append(chrs, c), id) = Append(Row(chrs, id), ChrEntry(c, id + (Len(chrs) + 1), id))
<1> DEFINE n == Len(chrs)
           new == Append(chrs, c)
           row == Row(chrs, id)
           e == ChrEntry(c, id + (n + 1), id)
           E(q, k) == IF k = 1 THEN FirstEntry(id) ELSE ChrEntry(q[k - 1], id + (k - 1), id)
<1>1. n \in Nat /\ Len(new) = n + 1 /\ new[n + 1] = c /\ \A k \in 1..n : new[k] = chrs[k]
  BY Appended
<1>2. Row(new, id) = [k \in 1..((n + 1) + 1) |-> E(new, k)]
  BY <1>1 DEF Row
<1>3. row = [k \in 1..(n + 1) |-> E(chrs, k)]
  BY DEF Row
<1>4. row \in Seq(ChrEntries) /\ Len(row) = n + 1
  BY RowIs
<1>5. Append(row, e) = [k \in 1..((n + 1) + 1) |-> IF k = (n + 1) + 1 THEN e ELSE row[k]]
  <2> HIDE DEF row, e
  <2>1. Append(row, e) = [k \in 1..(Len(row) + 1) |-> IF k = Len(row) + 1 THEN e ELSE row[k]]
    BY <1>4, AppendIs
  <2> QED
    BY <1>4, <2>1
<1>6. ASSUME NEW k \in 1..((n + 1) + 1)
      PROVE  E(new, k) = IF k = (n + 1) + 1 THEN e ELSE row[k]
  <2>1. CASE k = (n + 1) + 1
    <3>1. k # 1 /\ k - 1 = n + 1
      BY <1>1, <2>1
    <3> HIDE DEF new, row, n
    <3> QED
      BY <1>1, <2>1, <3>1
  <2>2. CASE k # (n + 1) + 1
    <3>1. k \in 1..(n + 1) /\ (k # 1 => k - 1 \in 1..n)
      BY <1>1, <2>2
    <3>2. row[k] = E(chrs, k)
      <4> HIDE DEF row, E, n
      <4> QED
        BY <1>3, <3>1
    <3> HIDE DEF new, row, n, e
    <3> QED
      BY <1>1, <2>2, <3>1, <3>2
  <2> QED
    BY <2>1, <2>2
<1> HIDE DEF new, row, n, e, E
<1>7. Row(new, id) = Append(row, e)
  BY <1>2, <1>5, <1>6
<1> QED
  BY <1>7 DEF new, row, n, e

LEMMA ClosedIs ==
  ASSUME NEW q \in Seq(Srvs), NEW f, FirstIds(f, q)
  PROVE  /\ Closed(q, f) \in Seq(SrvEntries) /\ Len(Closed(q, f)) = Len(q)
         /\ f[Len(q) + 1] \in Nat
<1> DEFINE n == Len(q)
<1>1. n \in Nat /\ n + 1 \in 1..(n + 1) /\ \A s \in 1..n : q[s] \in Srvs /\ s \in 1..(n + 1)
  OBVIOUS
<1>2. f \in [1..(n + 1) -> Nat]
  BY DEF FirstIds
<1>3. ASSUME NEW s \in 1..n PROVE ClosedRow(q[s], f[s]) \in SrvEntries
  <2> DEFINE srv == q[s]
             id == f[s]
             row == Row(srv.chrs, id)
  <2>1. srv \in Srvs /\ id \in Nat
    <3> HIDE DEF n
    <3> QED
      BY <1>1, <1>2
  <2> HIDE DEF srv, id
  <2>2. srv.type \in Nat /\ srv.chrs \in Seq(Chrs)
    BY <2>1, SrvParts
  <2>3. row \in Seq(ChrEntries)
    BY <2>1, <2>2, RowIs
  <2> HIDE DEF row
  <2>4. Append(row, End) \in Seq(ChrEntries \cup {End})
    <3>1. row \in Seq(ChrEntries \cup {End})
      BY <2>3
    <3> QED
      BY <3>1
  <2>5. Uuid(srv.type) \in Nat
    BY <2>2, UuidIs
  <2> QED
    BY <2>4, <2>5 DEF SrvEntries, ClosedRow, Entry, row, srv, id
<1> HIDE DEF n
<1>4. Closed(q, f) \in [1..n -> SrvEntries]
  <2>1. Closed(q, f) = [s \in 1..n |-> ClosedRow(q[s], f[s])]
    BY DEF Closed, n
  <2> QED
    BY <1>3, <2>1
<1> QED
  BY <1>1, <1>2, <1>4 DEF n

LEMMA IdsExtend ==
  ASSUME NEW q \in Seq(Srvs), NEW f, FirstIds(f, q), NEW srv \in Srvs
  PROVE  \E h : /\ FirstIds(h, Append(q, srv))
                /\ h[Len(Append(q, srv)) + 1] = f[Len(q) + 1] + Len(srv.chrs) + 1
                /\ Closed(Append(q, srv), h)
                     = Append(Closed(q, f), ClosedRow(srv, f[Len(q) + 1]))
<1> DEFINE n == Len(q)
           new == Append(q, srv)
           m == Len(srv.chrs)
           id == f[n + 1]
           h == [s \in 1..((n + 1) + 1) |-> IF s = (n + 1) + 1 THEN (id + 1) + m ELSE f[s]]
           c == Closed(q, f)
<1>1. /\ n \in Nat /\ Len(new) = n + 1 /\ new[n + 1] = srv
      /\ \A k \in 1..n : new[k] = q[k]
  BY Appended
<1>2. id \in Nat /\ m \in Nat /\ c \in Seq(SrvEntries) /\ Len(c) = n
  BY ClosedIs, SrvParts
<1>3. /\ f \in [1..(n + 1) -> Nat] /\ f[1] = 1
      /\ \A s \in 1..n : f[s + 1] = f[s] + 1 + Len(q[s].chrs)
  BY DEF FirstIds
<1> HIDE DEF c, new
<1>4. FirstIds(h, new)
  <2> HIDE DEF n, m
  <2>1. h \in [1..((n + 1) + 1) -> Nat]
    <3>1. \A s \in 1..((n + 1) + 1) : s # (n + 1) + 1 => f[s] \in Nat
      BY <1>1, <1>3
    <3>2. (id + 1) + m \in Nat
      BY <1>2
    <3> HIDE DEF id
    <3> QED
      BY <3>1, <3>2
  <2>2. h[1] = 1
    BY <1>1, <1>3
  <2>3. ASSUME NEW s \in 1..(n + 1) PROVE h[s + 1] = h[s] + 1 + Len(new[s].chrs)
    <3>1. CASE s = n + 1
      <4>1. h[s] = id /\ h[s + 1] = (id + 1) + m
        BY <1>1, <3>1
      <4> QED
        BY <1>1, <3>1, <4>1 DEF m
    <3>2. CASE s # n + 1
      <4>1. s \in 1..n /\ s \in 1..((n + 1) + 1) /\ s + 1 \in 1..((n + 1) + 1) /\ s # (n + 1) + 1 /\ s + 1 # (n + 1) + 1
        BY <1>1, <3>2
      <4>2. h[s] = f[s] /\ h[s + 1] = f[s + 1]
        BY <4>1
      <4> HIDE DEF h
      <4> QED
        BY <1>1, <1>3, <4>1, <4>2
    <3> QED
      BY <3>1, <3>2
  <2> HIDE DEF h
  <2> QED
    BY <1>1, <2>1, <2>2, <2>3 DEF FirstIds
<1>5. h[Len(new) + 1] = id + m + 1
  <2> HIDE DEF n, m, id
  <2> QED
    BY <1>1, <1>2
<1>6. Closed(new, h) = Append(c, ClosedRow(srv, id))
  <2>1. Append(c, ClosedRow(srv, id))
          = [s \in 1..(n + 1) |-> IF s = n + 1 THEN ClosedRow(srv, id) ELSE c[s]]
    <3> DEFINE row == ClosedRow(srv, id)
    <3> HIDE DEF row
    <3>1. Append(c, row) = [s \in 1..(Len(c) + 1) |-> IF s = Len(c) + 1 THEN row ELSE c[s]]
      BY <1>2, AppendIs
    <3> QED
      BY <1>2, <3>1 DEF row
  <2>2. Closed(new, h) = [s \in 1..(n + 1) |-> ClosedRow(new[s], h[s])]
    BY <1>1 DEF Closed
  <2>3. c = [s \in 1..n |-> ClosedRow(q[s], f[s])]
    BY DEF c, Closed
  <2> HIDE DEF n, m
  <2>4. ASSUME NEW s \in 1..(n + 1)
        PROVE  ClosedRow(new[s], h[s]) = IF s = n + 1 THEN ClosedRow(srv, id) ELSE c[s]
    <3>1. s \in 1..((n + 1) + 1) /\ s # (n + 1) + 1 /\ (s # n + 1 => s \in 1..n)
      BY <1>1
    <3>2. h[s] = f[s]
      BY <3>1
    <3> HIDE DEF h
    <3> QED
      BY <1>1, <2>3, <3>1, <3>2
  <2> HIDE DEF h, id
  <2> QED
    BY <2>1, <2>2, <2>4
<1> HIDE DEF h
<1> QED
  BY <1>4, <1>5, <1>6 DEF new, c

-----------------------------------------------------------------------------
(* The calls of the BLE stack.                                             *)

LEMMA ClosesSrv ==
  ASSUME NEW q \in Seq(Srvs), NEW srv \in Srvs, NEW f, FirstIds(f, q), NEW id \in Nat
  PROVE  CloseSrv(Open(q, srv, id, f))
           = Gatt(Append(Closed(q, f), ClosedRow(srv, id)), Len(q), -1,
                  id + Len(srv.chrs) + 1, id % CharRange)
<1> DEFINE pre == Closed(q, f)
           x == Row(srv.chrs, id)
           u == Uuid(srv.type)
           d == id + Len(srv.chrs) + 1
           e == id % CharRange
<1>1. pre \in Seq(SrvEntries) /\ Len(pre) = Len(q)
  BY ClosedIs
<1>2. x \in Seq(ChrEntries) /\ Len(x) - 1 = Len(srv.chrs)
  <2>1. srv.chrs \in Seq(Chrs) /\ Len(srv.chrs) \in Nat
    BY SrvParts
  <2>2. x \in Seq(ChrEntries) /\ Len(x) = Len(srv.chrs) + 1
    BY <2>1, RowIs
  <2> QED
    BY <2>1, <2>2
<1> HIDE DEF pre, x, u, d, e
<1>3. CloseSrv(Gatt(Append(pre, Entry(u, x)), Len(pre), Len(x) - 1, d, e))
        = Gatt(Append(pre, Entry(u, Append(x, End))), Len(pre), -1, d, e)
  BY <1>1, <1>2, CloseSrvEnds
<1>4. Open(q, srv, id, f) = Gatt(Append(pre, Entry(u, x)), Len(pre), Len(x) - 1, d, e)
  BY <1>1, <1>2 DEF Open, OpenRow, pre, x, u, d, e
<1> QED
  BY <1>1, <1>3, <1>4 DEF ClosedRow, pre, x, u, d, e

\* A service without its characteristics yet.
LEMMA OpenWithout ==
  ASSUME NEW q, NEW type \in Nat, NEW id \in Nat, NEW f
  PROVE  Open(q, Srv(type, <<>>), id, f)
           = Gatt(Append(Closed(q, f), Entry(Uuid(type), <<FirstEntry(id)>>)), Len(q), 0,
                  id + 1, id % CharRange)
<1>1. Row(<<>>, id) = <<FirstEntry(id)>>
  BY DEF Row
<1>2. Srv(type, <<>>).type = type /\ Srv(type, <<>>).chrs = <<>> /\ Len(<<>>) = 0 /\ id + 0 + 1 = id + 1
  BY DEF Srv
<1> QED
  BY <1>1, <1>2 DEF Open, OpenRow

LEMMA FirstSrv ==
  ASSUME NEW type \in Nat
  PROVE  IsOpen(BleAddSrv(NoGatt, type), <<>>, Srv(type, <<>>))
<1> DEFINE f == [s \in 1..1 |-> 1]
           none == <<>>
<1>1. FirstIds(f, none) /\ f[Len(none) + 1] = 1 /\ Closed(none, f) = none
  <2>1. Len(none) = 0 /\ f \in [1..1 -> Nat] /\ f[1] = 1
    OBVIOUS
  <2> QED
    BY <2>1 DEF FirstIds, Closed
<1>2. CloseSrv(NoGatt) = Between(none, 1, 0)
  <2>1. CloseSrv(NoGatt) = NoGatt
    BY DEF CloseSrv, NoGatt
  <2> QED
    BY <2>1 DEF NoGatt, Gatt, Between
<1>3. none \in Seq(SrvEntries) /\ Len(none) = 0
  OBVIOUS
<1> HIDE DEF none, f
<1>4. BleAddSrv(NoGatt, type)
        = Gatt(Append(none, Entry(Uuid(type), <<FirstEntry(1)>>)), Len(none), 0, 1 + 1, 1 % CharRange)
  <2> DEFINE g == NoGatt
             d == 1
             e == 0
  <2> HIDE DEF g, d, e
  <2>1. CloseSrv(g) = Between(none, d, e)
    BY <1>2 DEF g, d, e
  <2>2. BleAddSrv(g, type)
          = Gatt(Append(none, Entry(Uuid(type), <<FirstEntry(d)>>)), Len(none), 0, d + 1, d % CharRange)
    <3>1. ASSUME NEW pre \in Seq(SrvEntries), CloseSrv(g) = Between(pre, d, e)
          PROVE  BleAddSrv(g, type)
                   = Gatt(Append(pre, Entry(Uuid(type), <<FirstEntry(d)>>)), Len(pre), 0,
                          d + 1, d % CharRange)
      BY <3>1, BeginsSrv
    <3> QED
      BY <1>3, <2>1, <3>1
  <2> QED
    BY <2>2 DEF g, d
<1>5. Open(none, Srv(type, <<>>), 1, f)
        = Gatt(Append(none, Entry(Uuid(type), <<FirstEntry(1)>>)), Len(none), 0, 1 + 1, 1 % CharRange)
  BY <1>1, OpenWithout
<1>6. IsOpen(BleAddSrv(NoGatt, type), none, Srv(type, <<>>))
  BY <1>1, <1>4, <1>5 DEF IsOpen
<1> QED
  BY <1>6 DEF none

LEMMA NextSrv ==
  ASSUME NEW g, NEW q \in Seq(Srvs), NEW srv \in Srvs, IsOpen(g, q, srv), NEW type \in Nat
  PROVE  IsOpen(BleAddSrv(g, type), Append(q, srv), Srv(type, <<>>))
<1>1. PICK f : FirstIds(f, q) /\ g = Open(q, srv, f[Len(q) + 1], f)
  BY DEF IsOpen
<1> DEFINE n == Len(q)
           id == f[n + 1]
           new == Append(q, srv)
<1>2. id \in Nat /\ Len(srv.chrs) \in Nat /\ new \in Seq(Srvs)
  BY <1>1, ClosedIs, SrvParts
<1>3. PICK h : /\ FirstIds(h, new) /\ h[Len(new) + 1] = id + Len(srv.chrs) + 1
               /\ Closed(new, h) = Append(Closed(q, f), ClosedRow(srv, id))
  BY <1>1, IdsExtend
<1> DEFINE pre == Closed(new, h)
           d == id + Len(srv.chrs) + 1
           e == id % CharRange
<1>4. /\ pre \in Seq(SrvEntries) /\ Len(pre) = Len(new) /\ Len(new) = n + 1 /\ n \in Nat
      /\ h[Len(new) + 1] = d /\ d \in Nat
  <2>1. Closed(new, h) \in Seq(SrvEntries) /\ Len(Closed(new, h)) = Len(new)
    <3> HIDE DEF new
    <3> QED
      BY <1>2, <1>3, ClosedIs
  <2>2. Len(new) = n + 1 /\ n \in Nat
    BY Appended
  <2> HIDE DEF new, id
  <2> QED
    BY <1>2, <1>3, <2>1, <2>2
<1>5. CloseSrv(g) = Between(pre, d, e)
  <2>1. CloseSrv(Open(q, srv, id, f))
          = Gatt(Append(Closed(q, f), ClosedRow(srv, id)), Len(q), -1, d, e)
    <3> HIDE DEF id
    <3> QED
      BY <1>1, <1>2, ClosesSrv
  <2>2. Len(pre) - 1 = Len(q)
    <3> HIDE DEF pre, new
    <3> QED
      BY <1>4
  <2> QED
    BY <1>1, <1>3, <2>1, <2>2 DEF Between
<1> HIDE DEF pre, d, e, new, id
<1>6. BleAddSrv(g, type)
        = Gatt(Append(pre, Entry(Uuid(type), <<FirstEntry(d)>>)), Len(pre), 0, d + 1, d % CharRange)
  BY <1>4, <1>5, BeginsSrv
<1>7. Open(new, Srv(type, <<>>), d, h)
        = Gatt(Append(pre, Entry(Uuid(type), <<FirstEntry(d)>>)), Len(new), 0, d + 1, d % CharRange)
  BY <1>4, OpenWithout DEF pre
<1>8. IsOpen(BleAddSrv(g, type), new, Srv(type, <<>>))
  BY <1>3, <1>4, <1>6, <1>7 DEF IsOpen
<1> QED
  BY <1>8 DEF new

LEMMA NextChr ==
  ASSUME NEW g, NEW q \in Seq(Srvs), NEW type \in Nat, NEW chrs \in Seq(Chrs), NEW c \in Chrs,
         IsOpen(g, q, Srv(type, chrs))
  PROVE  IsOpen(BleAddChr(g, c), q, Srv(type, Append(chrs, c)))
<1> DEFINE old == Srv(type, chrs)
           new == Srv(type, Append(chrs, c))
<1>1. PICK f : FirstIds(f, q) /\ g = Open(q, old, f[Len(q) + 1], f)
  BY DEF IsOpen
<1> DEFINE id == f[Len(q) + 1]
           m == Len(chrs)
           pre == Closed(q, f)
           x == Row(chrs, id)
           u == Uuid(type)
           e == id % CharRange
           index == id + m + 1
           entry == ChrEntry(c, index, id)
           s0 == Append(pre, Entry(u, x))
           s1 == Append(pre, Entry(u, Append(x, entry)))
<1>2. /\ id \in Nat /\ m \in Nat /\ pre \in Seq(SrvEntries) /\ Len(pre) = Len(q)
      /\ Append(chrs, c) \in Seq(Chrs) /\ Len(Append(chrs, c)) = m + 1
  BY <1>1, ClosedIs, Appended
<1>3. x \in Seq(ChrEntries) /\ Len(x) = m + 1 /\ Row(Append(chrs, c), id) = Append(x, entry)
  <2> HIDE DEF id
  <2>1. x \in Seq(ChrEntries) /\ Len(x) = m + 1
    BY <1>2, RowIs
  <2>2. Row(Append(chrs, c), id) = Append(x, ChrEntry(c, id + (m + 1), id))
    BY <1>2, RowGrows
  <2>3. id + (m + 1) = id + m + 1
    BY <1>2
  <2> QED
    BY <2>1, <2>2, <2>3
<1>4. /\ old.type = type /\ old.chrs = chrs
      /\ new.type = type /\ new.chrs = Append(chrs, c)
  BY DEF Srv
<1>5. g = Gatt(s0, Len(pre), Len(x) - 1, index, e)
  <2>1. Len(x) - 1 = m
    <3> HIDE DEF x, m
    <3> QED
      BY <1>2, <1>3
  <2>2. Open(q, old, id, f) = Gatt(s0, Len(q), m, index, e)
    <3> HIDE DEF id
    <3> QED
      BY <1>4 DEF Open, OpenRow
  <2> HIDE DEF pre, x, m, index, e, s0
  <2> QED
    BY <1>1, <1>2, <2>1, <2>2
<1>6. Open(q, new, id, f) = Gatt(s1, Len(pre), Len(x), index + 1, e)
  <2> HIDE DEF id
  <2>1. Open(q, new, id, f) = Gatt(s1, Len(q), m + 1, id + (m + 1) + 1, e)
    <3>1. OpenRow(new, id) = Entry(u, Append(x, entry))
      BY <1>3, <1>4 DEF OpenRow
    <3>2. Len(new.chrs) = m + 1
      BY <1>2, <1>4
    <3> HIDE DEF new, m
    <3> QED
      BY <3>1, <3>2 DEF Open
  <2>2. id + (m + 1) + 1 = index + 1
    <3> HIDE DEF m
    <3> QED
      BY <1>2
  <2> HIDE DEF pre, x, m, index, e, s1
  <2> QED
    BY <1>2, <1>3, <2>1, <2>2
<1> DEFINE up == Gatt(s0, Len(pre), Len(x) - 1, index + 1, e)
           last == Len(x) - 1
           next == index + 1
<1>7. [g EXCEPT !.next = @ + 1] = up
  <2> HIDE DEF s0, index, e, last, pre
  <2>1. Gatt(s0, Len(pre), last, index, e).next = index
    BY GattFields
  <2>2. [Gatt(s0, Len(pre), last, index, e) EXCEPT !.next = next] = Gatt(s0, Len(pre), last, next, e)
    <3> HIDE DEF next
    <3> QED
      BY DEF Gatt
  <2> QED
    BY <1>5, <2>1, <2>2 DEF last
<1>8. [uuid |-> Uuid(c.type), index |-> g.next, srvId |-> g.srvId,
       type |-> c.type, access |-> c.access] = entry
  <2> HIDE DEF s0, index, e, last, pre
  <2>1. Gatt(s0, Len(pre), last, index, e).next = index /\ Gatt(s0, Len(pre), last, index, e).srvId = e
    BY GattFields
  <2>2. g.next = index /\ g.srvId = e
    BY <1>5, <2>1 DEF last
  <2> HIDE DEF id
  <2> QED
    BY <2>2 DEF ChrEntry, e
<1> HIDE DEF entry, id
<1>9. PutChr(up, entry) = Gatt(s1, Len(pre), Len(x), next, e)
  <2> HIDE DEF pre, x, u, next, e
  <2>1. PutChr(Gatt(Append(pre, Entry(u, x)), Len(pre), Len(x) - 1, next, e), entry)
          = Gatt(Append(pre, Entry(u, Append(x, entry))), Len(pre), Len(x), next, e)
    BY <1>2, <1>3, PutChrGrows
  <2> QED
    BY <2>1 DEF next
<1>10. BleAddChr(g, c) = PutChr(up, entry)
  <2> HIDE DEF up
  <2> QED
    BY <1>7, <1>8 DEF BleAddChr
<1>11. BleAddChr(g, c) = Open(q, new, id, f)
  <2> HIDE DEF up, s1, pre, x, e, index, new
  <2> QED
    BY <1>6, <1>9, <1>10 DEF next
<1> QED
  BY <1>1, <1>11 DEF IsOpen, id

LEMMA TableBegins ==
  ASSUME NEW g, NEW asked \in Seq(Srvs), IsTable(g, asked), NEW type \in Nat
  PROVE  IsOpen(BleAddSrv(g, type), asked, Srv(type, <<>>))
<1>1. CASE asked = <<>> /\ g = NoGatt
  BY <1>1, FirstSrv
<1>2. CASE \E q \in Seq(Srvs) : \E srv \in Srvs : asked = Append(q, srv) /\ IsOpen(g, q, srv)
  <2>1. PICK q \in Seq(Srvs) : \E srv \in Srvs : asked = Append(q, srv) /\ IsOpen(g, q, srv)
    BY <1>2
  <2>2. PICK srv \in Srvs : asked = Append(q, srv) /\ IsOpen(g, q, srv)
    BY <2>1
  <2> QED
    BY <2>2, NextSrv
<1> QED
  BY <1>1, <1>2 DEF IsTable

\* A service with all its characteristics.
LEMMA TableAddsSrv ==
  ASSUME NEW g, NEW asked \in Seq(Srvs), IsTable(g, asked), NEW srv \in Srvs
  PROVE  IsOpen(BleAdd(g, srv), asked, srv)
<1> DEFINE n == Len(srv.chrs)
           base == BleAddSrv(g, srv.type)
           R(h, k) == IsOpen(h, asked, Srv(srv.type, SubSeq(srv.chrs, 1, k)))
           S(f) == {k \in 0..n : R(f[k], k)}
<1>1. /\ srv.type \in Nat /\ srv.chrs \in Seq(Chrs) /\ Srv(srv.type, srv.chrs) = srv
      /\ n \in Nat /\ DOMAIN srv.chrs = 1..n
  BY SrvParts
<1>2. R(base, 0) /\ \A h : R(h, n) => IsOpen(h, asked, srv)
  <2>1. SubSeq(srv.chrs, 1, 0) = <<>> /\ SubSeq(srv.chrs, 1, Len(srv.chrs)) = srv.chrs
    BY <1>1, PrefixesGrow
  <2>2. IsOpen(base, asked, Srv(srv.type, <<>>))
    BY <1>1, TableBegins
  <2> QED
    BY <1>1, <2>1, <2>2
<1>3. ASSUME NEW h, NEW k \in 0..n, k < n, R(h, k)
      PROVE  R(BleAddChr(h, srv.chrs[k + 1]), k + 1)
  <2> DEFINE p == SubSeq(srv.chrs, 1, k)
             c == srv.chrs[k + 1]
             type == srv.type
  <2>1. p \in Seq(Chrs) /\ c \in Chrs /\ type \in Nat /\ SubSeq(srv.chrs, 1, k + 1) = Append(p, c)
    BY <1>1, <1>3, PrefixesGrow
  <2> HIDE DEF p, c, type
  <2>2. IsOpen(h, asked, Srv(type, p))
    BY <1>3 DEF p, type
  <2>3. IsOpen(BleAddChr(h, c), asked, Srv(type, Append(p, c)))
    BY <2>1, <2>2, NextChr
  <2> QED
    BY <2>1, <2>3 DEF c, type
<1> HIDE DEF R, base
<1>4. PICK f : BleAddChrsUnfolds(f, base, srv.chrs, n)
  <2> HIDE DEF n
  <2> QED
    BY <1>1, BleAddChrsFold
<1> HIDE DEF n
<1>5. S(f) \in SUBSET (0..n) /\ 0 \in S(f)
  BY <1>1, <1>2, <1>4 DEF BleAddChrsUnfolds
<1>6. ASSUME NEW k \in S(f), k < n PROVE k + 1 \in S(f)
  <2>1. k \in 0..n /\ R(f[k], k) /\ k + 1 \in 1..n /\ k + 1 \in 0..n /\ (k + 1) - 1 = k
    BY <1>1, <1>6
  <2>2. f[k + 1] = BleAddChr(f[k], srv.chrs[k + 1])
    BY <1>4, <2>1 DEF BleAddChrsUnfolds
  <2> QED
    BY <1>3, <1>6, <2>1, <2>2
<1>7. S(f) = 0..n
  <2> HIDE DEF S
  <2> QED
    BY <1>1, <1>5, <1>6, InductionUpTo
<1>8. R(f[n], n)
  BY <1>1, <1>7
<1> QED
  BY <1>2, <1>4, <1>8 DEF BleAddChrsUnfolds, BleAdd, base

LEMMA OpenIsTable ==
  ASSUME NEW g, NEW q \in Seq(Srvs), NEW srv \in Srvs, IsOpen(g, q, srv)
  PROVE  IsTable(g, Append(q, srv))
BY DEF IsTable

\* All services of an accessory.
LEMMA TableAddsAll ==
  ASSUME NEW g, NEW asked \in Seq(Srvs), IsTable(g, asked), NEW srvs \in Seq(Srvs)
  PROVE  IsTable(BleAddAll(g, srvs), asked \o srvs) /\ asked \o srvs \in Seq(Srvs)
<1> DEFINE n == Len(srvs)
           R(h, k) == IsTable(h, asked \o SubSeq(srvs, 1, k))
           S(f) == {k \in 0..n : R(f[k], k)}
<1>1. n \in Nat /\ DOMAIN srvs = 1..n /\ asked \o srvs \in Seq(Srvs)
  OBVIOUS
<1>2. R(g, 0) /\ \A h : R(h, n) => IsTable(h, asked \o srvs)
  <2>1. SubSeq(srvs, 1, 0) = <<>> /\ SubSeq(srvs, 1, Len(srvs)) = srvs
    BY PrefixesGrow
  <2>2. asked \o <<>> = asked
    OBVIOUS
  <2> QED
    BY <2>1, <2>2
<1>3. ASSUME NEW h, NEW k \in 0..n, k < n, R(h, k)
      PROVE  R(BleAdd(h, srvs[k + 1]), k + 1)
  <2> DEFINE p == SubSeq(srvs, 1, k)
             c == srvs[k + 1]
  <2>1. p \in Seq(Srvs) /\ c \in Srvs /\ SubSeq(srvs, 1, k + 1) = Append(p, c)
    BY <1>3, PrefixesGrow
  <2>2. IsTable(h, asked \o p)
    BY <1>3
  <2> HIDE DEF p, c
  <2>3. asked \o p \in Seq(Srvs) /\ asked \o Append(p, c) = Append(asked \o p, c)
    BY <2>1
  <2> DEFINE all == asked \o p
  <2> HIDE DEF all
  <2>4. IsOpen(BleAdd(h, c), all, c)
    BY <2>1, <2>2, <2>3, TableAddsSrv DEF all
  <2>5. IsTable(BleAdd(h, c), Append(all, c))
    BY <2>1, <2>3, <2>4, OpenIsTable DEF all
  <2> QED
    BY <2>1, <2>3, <2>5 DEF c, all
<1> HIDE DEF R
<1>4. PICK f : BleAddAllUnfolds(f, g, srvs, n)
  <2> HIDE DEF n
  <2> QED
    BY <1>1, BleAddAllFold
<1> HIDE DEF n
<1>5. S(f) \in SUBSET (0..n) /\ 0 \in S(f)
  BY <1>1, <1>2, <1>4 DEF BleAddAllUnfolds
<1>6. ASSUME NEW k \in S(f), k < n PROVE k + 1 \in S(f)
  <2>1. k \in 0..n /\ R(f[k], k) /\ k + 1 \in 1..n /\ k + 1 \in 0..n /\ (k + 1) - 1 = k
    BY <1>1, <1>6
  <2>2. f[k + 1] = BleAdd(f[k], srvs[k + 1])
    BY <1>4, <2>1 DEF BleAddAllUnfolds
  <2> QED
    BY <1>3, <1>6, <2>1, <2>2
<1>7. S(f) = 0..n
  <2> HIDE DEF S
  <2> QED
    BY <1>1, <1>5, <1>6, InductionUpTo
<1>8. R(f[n], n)
  BY <1>1, <1>7
<1> QED
  BY <1>1, <1>2, <1>4, <1>8 DEF BleAddAllUnfolds

\* The end of the setup closes the last service and writes the end marker.
LEMMA TableEnds ==
  ASSUME NEW g, NEW asked \in Seq(Srvs), IsTable(g, asked)
  PROVE  IsEnded(BleEndConfig(g), asked)
<1>1. ASSUME NEW S, NEW pre \in Seq(S), NEW d, NEW e, CloseSrv(g) = Between(pre, d, e)
      PROVE  BleEndConfig(g).srvs = Append(pre, End)
  <2> DEFINE none == -1
             n == Len(pre)
             new == Append(pre, End)
  <2> HIDE DEF none, n, new
  <2>1. AllocSrv(Gatt(pre, Len(pre) - 1, none, d, e)) = Gatt(Append(pre, End), Len(pre), none, d, e)
    BY AllocSrvGrows
  <2>2. BleEndConfig(g) = Gatt(new, n, none, d, e)
    BY <1>1, <2>1 DEF BleEndConfig, Between, none, n, new
  <2>3. Gatt(new, n, none, d, e).srvs = new
    BY GattFields
  <2> QED
    BY <2>2, <2>3 DEF new
<1>2. CASE asked = <<>> /\ g = NoGatt
  <2> DEFINE f == [s \in 1..1 |-> 1]
             none == <<>>
  <2>1. FirstIds(f, none) /\ Closed(none, f) = none
    <3>1. Len(none) = 0 /\ f \in [1..1 -> Nat] /\ f[1] = 1
      OBVIOUS
    <3> QED
      BY <3>1 DEF FirstIds, Closed
  <2>2. CloseSrv(NoGatt) = Between(none, 1, 0)
    <3>1. CloseSrv(NoGatt) = NoGatt /\ Len(none) - 1 = -1
      BY DEF CloseSrv, NoGatt
    <3> QED
      BY <3>1 DEF NoGatt, Gatt, Between
  <2>3. none \in Seq(SrvEntries)
    OBVIOUS
  <2> HIDE DEF none, f
  <2>4. BleEndConfig(g).srvs = Append(none, End)
    BY <1>1, <1>2, <2>2, <2>3
  <2> QED
    BY <1>2, <2>1, <2>4 DEF IsEnded, none
<1>3. CASE \E q \in Seq(Srvs) : \E srv \in Srvs : asked = Append(q, srv) /\ IsOpen(g, q, srv)
  <2>1. PICK q \in Seq(Srvs) : \E srv \in Srvs : asked = Append(q, srv) /\ IsOpen(g, q, srv)
    BY <1>3
  <2>2. PICK srv \in Srvs : asked = Append(q, srv) /\ IsOpen(g, q, srv)
    BY <2>1
  <2>3. PICK f : FirstIds(f, q) /\ g = Open(q, srv, f[Len(q) + 1], f)
    BY <2>2 DEF IsOpen
  <2> DEFINE id == f[Len(q) + 1]
             pre == Append(Closed(q, f), ClosedRow(srv, id))
             d == id + Len(srv.chrs) + 1
             e == id % CharRange
  <2>4. PICK h : FirstIds(h, asked) /\ Closed(asked, h) = pre
    BY <2>2, <2>3, IdsExtend
  <2>5. pre \in Seq(SrvEntries) /\ Len(pre) = Len(q) + 1 /\ Len(q) \in Nat /\ id \in Nat
    <3>1. pre \in Seq(SrvEntries) /\ Len(pre) = Len(asked)
      BY <2>4, ClosedIs
    <3>2. Len(asked) = Len(q) + 1 /\ Len(q) \in Nat
      BY <2>2, Appended
    <3>3. id \in Nat
      BY <2>3, ClosedIs
    <3> QED
      BY <3>1, <3>2, <3>3
  <2>6. CloseSrv(g) = Between(pre, d, e)
    <3>1. CloseSrv(Open(q, srv, id, f)) = Gatt(pre, Len(q), -1, d, e)
      <4> HIDE DEF id
      <4> QED
        BY <2>3, <2>5, ClosesSrv
    <3>2. Len(pre) - 1 = Len(q)
      <4> HIDE DEF pre
      <4> QED
        BY <2>5
    <3> HIDE DEF pre
    <3> QED
      BY <2>3, <3>1, <3>2 DEF Between
  <2> HIDE DEF pre, d, e, id
  <2>7. BleEndConfig(g).srvs = Append(pre, End)
    BY <1>1, <2>5, <2>6
  <2> QED
    BY <2>4, <2>7 DEF IsEnded
<1> QED
  BY <1>2, <1>3 DEF IsTable

-----------------------------------------------------------------------------
(* What NimBLE finds at the end of the setup.                              *)

LEMMA WalkStops ==
  ASSUME NEW S, End \notin S, NEW q \in Seq(S)
  PROVE  /\ Walk(Append(q, End)) = q
         /\ End \in ToSet(Append(q, End))
         /\ ToSet(Append(q, End)) \subseteq S \cup {End} /\ ToSet(q) \subseteq S
<1> DEFINE n == Len(q)
           array == Append(q, End)
           I == {i \in 1..Len(array) : array[i] = End}
<1>1. n \in Nat /\ \A i \in 1..n : q[i] \in S
  OBVIOUS
<1>2. array = [i \in 1..(n + 1) |-> IF i = n + 1 THEN End ELSE q[i]]
  BY AppendIs
<1>3. Len(array) = n + 1 /\ DOMAIN array = 1..(n + 1)
  <2> HIDE DEF n, array
  <2> QED
    BY <1>1, <1>2
<1>4. /\ array[n + 1] = End /\ n + 1 \in 1..(n + 1)
      /\ \A i \in 1..(n + 1) : i # n + 1 => i \in 1..n /\ array[i] = q[i]
  <2> HIDE DEF n, array
  <2> QED
    BY <1>1, <1>2
<1>5. I = {n + 1}
  <2> HIDE DEF n, array
  <2> QED
    BY <1>1, <1>3, <1>4
<1>6. SelectInSeq(array, LAMBDA e : e = End) = n + 1
  <2>1. SelectInSeq(array, LAMBDA e : e = End) = Min({n + 1})
    <3> HIDE DEF array, n
    <3> QED
      BY <1>5 DEF SelectInSeq
  <2>2. Min({n + 1}) = n + 1
    <3> HIDE DEF n
    <3> QED
      BY <1>1 DEF Min
  <2> QED
    BY <2>1, <2>2
<1>7. SubSeq(array, 1, n) = q
  <2>1. q \in Seq(S \cup {End}) /\ End \in S \cup {End}
    OBVIOUS
  <2>2. SubSeq(array, 1, n) \in Seq(S \cup {End}) /\ Len(SubSeq(array, 1, n)) = n
        /\ \A i \in 1..n : SubSeq(array, 1, n)[i] = q[i]
    BY <2>1
  <2> HIDE DEF array
  <2> QED
    BY <2>1, <2>2
<1>8. Walk(array) = q
  <2>1. (n + 1) - 1 = n
    BY <1>1
  <2> HIDE DEF array, n
  <2> QED
    BY <1>6, <1>7, <2>1 DEF Walk
<1>9. End \in ToSet(array) /\ ToSet(array) \subseteq S \cup {End}
  <2> HIDE DEF array, n
  <2> QED
    BY <1>1, <1>3, <1>4 DEF ToSet
<1>10. ToSet(q) \subseteq S
  BY DEF ToSet
<1> QED
  BY <1>8, <1>9, <1>10

LEMMA RowHas ==
  ASSUME NEW chrs \in Seq(Chrs), NEW id \in Nat
  PROVE  /\ DOMAIN Row(chrs, id) = 1..(Len(chrs) + 1) /\ Len(chrs) \in Nat
         /\ Row(chrs, id)[1] = FirstEntry(id)
         /\ \A k \in 1..Len(chrs) : Row(chrs, id)[k + 1] = ChrEntry(chrs[k], id + k, id)
         /\ \A k \in 1..(Len(chrs) + 1) : Row(chrs, id)[k].index = id + (k - 1)
<1> DEFINE n == Len(chrs)
           row == Row(chrs, id)
           E(k) == IF k = 1 THEN FirstEntry(id) ELSE ChrEntry(chrs[k - 1], id + (k - 1), id)
<1>1. n \in Nat
  OBVIOUS
<1>2. row = [k \in 1..(n + 1) |-> E(k)]
  BY DEF Row
<1> HIDE DEF row, n
<1>3. row[1] = FirstEntry(id) /\ DOMAIN row = 1..(n + 1)
  <2>1. 1 \in 1..(n + 1)
    BY <1>1
  <2> QED
    BY <1>2, <2>1
<1>4. ASSUME NEW k \in 1..n PROVE row[k + 1] = ChrEntry(chrs[k], id + k, id)
  <2>1. k + 1 \in 1..(n + 1) /\ k + 1 # 1 /\ (k + 1) - 1 = k
    BY <1>1
  <2> QED
    BY <1>2, <2>1
<1>5. ASSUME NEW k \in 1..(n + 1) PROVE row[k].index = id + (k - 1)
  <2>1. CASE k = 1
    <3>1. FirstEntry(id).index = id /\ id + (k - 1) = id
      BY <2>1 DEF FirstEntry
    <3> QED
      BY <1>3, <2>1, <3>1
  <2>2. CASE k # 1
    <3> DEFINE c == chrs[k - 1]
               index == id + (k - 1)
    <3>1. row[k] = ChrEntry(c, index, id)
      BY <1>2, <2>2
    <3> HIDE DEF c, index
    <3>2. ChrEntry(c, index, id).index = index
      BY DEF ChrEntry
    <3> QED
      BY <3>1, <3>2 DEF index
  <2> QED
    BY <2>1, <2>2
<1> QED
  BY <1>1, <1>3, <1>4, <1>5 DEF row, n

LEMMA NoMarkers ==
  /\ End \notin ChrEntries /\ End \notin SrvEntries
  /\ Wild \notin ChrEntries /\ Wild \notin SrvEntries /\ Wild # End
BY MarkerAssumption

LEMMA FindsRow ==
  ASSUME NEW srv \in Srvs, NEW id \in Nat
  PROVE  /\ Walk(ClosedRow(srv, id).chrs) = Row(srv.chrs, id)
         /\ ClosedRow(srv, id).uuid = Uuid(srv.type)
         /\ End \in ToSet(ClosedRow(srv, id).chrs)
         /\ Wild \notin ToSet(Row(srv.chrs, id))
<1> DEFINE row == Row(srv.chrs, id)
<1>1. row \in Seq(ChrEntries)
  BY SrvParts, RowIs
<1> HIDE DEF row
<1>2. Walk(Append(row, End)) = row /\ End \in ToSet(Append(row, End)) /\ ToSet(row) \subseteq ChrEntries
  BY <1>1, NoMarkers, WalkStops
<1>3. ClosedRow(srv, id).chrs = Append(row, End) /\ ClosedRow(srv, id).uuid = Uuid(srv.type)
  BY EntryPut DEF ClosedRow, row
<1> QED
  BY <1>2, <1>3, NoMarkers DEF row

LEMMA SmallUuid ==
  ASSUME NEW type \in Nat, type < 256
  PROVE  Uuid(type) = type
BY SmallRemainder DEF Uuid

\* NimBLE finds a service as it was asked for.
LEMMA ServiceIsFound ==
  ASSUME NEW srv \in Srvs, NEW id \in Nat, \A k \in 1..Len(srv.chrs) : Readable(srv.chrs[k])
  PROVE  FindsSrv(ClosedRow(srv, id), srv)
<1> DEFINE found == ClosedRow(srv, id)
           row == Row(srv.chrs, id)
           n == Len(srv.chrs)
<1>1. /\ srv.type \in Nat /\ srv.chrs \in Seq(Chrs) /\ n \in Nat /\ DOMAIN srv.chrs = 1..n
      /\ \A k \in 1..n : srv.chrs[k] \in Chrs
  BY SrvParts
<1>2. /\ Walk(found.chrs) = row /\ found.uuid = Uuid(srv.type)
      /\ End \in ToSet(found.chrs) /\ Wild \notin ToSet(row)
  BY FindsRow
<1>3. /\ row[1] = FirstEntry(id) /\ Len(row) = n + 1
      /\ \A k \in 1..n : row[k + 1] = ChrEntry(srv.chrs[k], id + k, id)
  BY <1>1, RowHas, RowIs
<1> HIDE DEF found, row, n
<1>4. InstanceId(row[1]) = id /\ ServiceId(found) = id % CharRange
  <2>1. FirstEntry(id).index = id /\ FirstEntry(id).srvId = id % CharRange
    BY DEF FirstEntry
  <2> QED
    BY <1>2, <1>3, <2>1 DEF InstanceId, ServiceId
<1>5. id < CharRange => id % CharRange = id
  BY KindsAssumption, SmallRemainder
<1>6. ASSUME NEW k \in 1..n
      PROVE  LET c == srv.chrs[k]
                 sig == Signature(found, row[k + 1])
             IN  /\ c.type < 256 => sig.uuid = c.type
                 /\ sig.srvUuid = found.uuid
                 /\ sig.srvId = ServiceId(found)
                 /\ sig.format = Format(c.type)
                 /\ "read" \in sig.props =>
                      row[k + 1].access \cap {"static", "read"} # {}
  <2> DEFINE c == srv.chrs[k]
             index == id + k
             e == ChrEntry(c, index, id)
  <2>1. c \in Chrs /\ c.type \in Nat /\ row[k + 1] = e /\ Readable(c)
    <3>1. c \in Chrs /\ row[k + 1] = e /\ Readable(c)
      BY <1>1, <1>3 DEF n
    <3> QED
      BY <3>1 DEF Chrs
  <2> HIDE DEF c, index
  <2>2. /\ e.uuid = Uuid(c.type) /\ e.srvId = id % CharRange /\ e.type = c.type /\ e.access = c.access
    BY DEF ChrEntry
  <2> HIDE DEF e
  <2>3. /\ Signature(found, e).uuid = e.uuid /\ Signature(found, e).srvUuid = found.uuid
        /\ Signature(found, e).srvId = e.srvId
        /\ Signature(found, e).props = Announced(e.type)
        /\ Signature(found, e).format = Format(e.type)
    BY DEF Signature
  <2>4. c.type < 256 => Uuid(c.type) = c.type
    BY <2>1, SmallUuid
  <2>5. "read" \in Announced(c.type) => c.access \cap {"static", "read"} # {}
    BY <2>1 DEF Readable
  <2> QED
    BY <1>4, <2>1, <2>2, <2>3, <2>4, <2>5 DEF c
<1>7. srv.type < 256 => found.uuid = srv.type
  BY <1>1, <1>2, SmallUuid
<1> QED
  BY <1>1, <1>2, <1>3, <1>4, <1>5, <1>6, <1>7 DEF FindsSrv, found, n

\* What can be asked for: a type announced as readable can be read.
AllReadable(srvs) ==
  \A s \in 1..Len(srvs) : \A k \in 1..Len(srvs[s].chrs) : Readable(srvs[s].chrs[k])

LEMMA TableServes ==
  ASSUME NEW asked \in Seq(Srvs), AllReadable(asked), FlattenSeq(wanted) = asked,
         IsEnded(gatt, asked)
  PROVE  TableServesSetup
<1>1. PICK f : FirstIds(f, asked) /\ gatt.srvs = Append(Closed(asked, f), End)
  BY DEF IsEnded
<1> DEFINE found == Closed(asked, f)
           n == Len(asked)
<1>2. found \in Seq(SrvEntries) /\ Len(found) = n /\ n \in Nat
  BY <1>1, ClosedIs
<1>3. \A s \in 1..n : found[s] = ClosedRow(asked[s], f[s])
  BY DEF Closed
<1>4. \A s \in 1..n : asked[s] \in Srvs /\ f[s] \in Nat
  BY <1>1, IdsAre
<1> HIDE DEF found, n
<1>5. /\ Walk(gatt.srvs) = found /\ End \in ToSet(gatt.srvs)
      /\ ToSet(gatt.srvs) \subseteq SrvEntries \cup {End}
  <2>1. gatt.srvs = Append(found, End)
    BY <1>1 DEF found
  <2> QED
    BY <1>2, <2>1, NoMarkers, WalkStops
<1>6. Wild \notin ToSet(gatt.srvs)
  BY <1>5, NoMarkers
<1>7. DOMAIN found = 1..n
  BY <1>2
<1>8. \A s \in 1..n : FindsSrv(found[s], asked[s])
  <2> SUFFICES ASSUME NEW s \in 1..n PROVE FindsSrv(ClosedRow(asked[s], f[s]), asked[s])
    BY <1>3
  <2>1. \A k \in 1..Len(asked[s].chrs) : Readable(asked[s].chrs[k])
    BY DEF AllReadable, n
  <2> DEFINE srv == asked[s]
             id == f[s]
  <2>2. srv \in Srvs /\ id \in Nat
    BY <1>4
  <2> HIDE DEF srv, id
  <2>3. \A k \in 1..Len(srv.chrs) : Readable(srv.chrs[k])
    BY <2>1 DEF srv
  <2>4. FindsSrv(ClosedRow(srv, id), srv)
    BY <2>2, <2>3, ServiceIsFound
  <2> QED
    BY <2>4 DEF srv, id
<1>9. ASSUME NEW s \in 1..n
      PROVE  /\ DOMAIN Walk(found[s].chrs) = 1..(Len(asked[s].chrs) + 1)
             /\ Len(asked[s].chrs) \in Nat
             /\ \A k \in 1..(Len(asked[s].chrs) + 1) :
                  InstanceId(Walk(found[s].chrs)[k]) = f[s] + (k - 1)
  <2> DEFINE srv == asked[s]
             id == f[s]
  <2>1. srv \in Srvs /\ id \in Nat /\ found[s] = ClosedRow(srv, id)
    BY <1>3, <1>4
  <2> HIDE DEF srv, id
  <2>2. Walk(found[s].chrs) = Row(srv.chrs, id)
    BY <2>1, FindsRow
  <2>3. srv.chrs \in Seq(Chrs)
    BY <2>1, SrvParts
  <2>4. /\ DOMAIN Row(srv.chrs, id) = 1..(Len(srv.chrs) + 1) /\ Len(srv.chrs) \in Nat
        /\ \A k \in 1..(Len(srv.chrs) + 1) : Row(srv.chrs, id)[k].index = id + (k - 1)
    BY <2>1, <2>3, RowHas
  <2> QED
    BY <2>2, <2>4 DEF InstanceId, srv, id
<1>10. InstanceIdsDiffer(found)
  <2> SUFFICES ASSUME NEW s \in 1..n, NEW t \in 1..n,
                      NEW k \in DOMAIN Walk(found[s].chrs), NEW l \in DOMAIN Walk(found[t].chrs),
                      InstanceId(Walk(found[s].chrs)[k]) = InstanceId(Walk(found[t].chrs)[l])
               PROVE  s = t /\ k = l
    BY <1>7 DEF InstanceIdsDiffer
  <2>1. k \in 1..(Len(asked[s].chrs) + 1) /\ l \in 1..(Len(asked[t].chrs) + 1)
    BY <1>9
  <2>2. f[s] + (k - 1) = f[t] + (l - 1)
    BY <1>9, <2>1
  <2>3. k - 1 \in 0..Len(asked[s].chrs) /\ l - 1 \in 0..Len(asked[t].chrs) /\ k \in Nat /\ l \in Nat
    <3> DEFINE x == Len(asked[s].chrs)
               y == Len(asked[t].chrs)
    <3>1. x \in Nat /\ y \in Nat /\ k \in 1..(x + 1) /\ l \in 1..(y + 1)
      BY <1>9, <2>1
    <3> HIDE DEF x, y
    <3>2. k - 1 \in 0..x /\ l - 1 \in 0..y /\ k \in Nat /\ l \in Nat
      BY <3>1
    <3> QED
      BY <3>2 DEF x, y
  <2>4. s = t /\ k - 1 = l - 1
    <3> DEFINE x == k - 1
               y == l - 1
    <3> HIDE DEF x, y
    <3>1. x \in 0..Len(asked[s].chrs) /\ y \in 0..Len(asked[t].chrs) /\ f[s] + x = f[t] + y
      BY <2>2, <2>3 DEF x, y
    <3>2. s = t /\ x = y
      BY <1>1, <3>1, IdsDiffer DEF n
    <3> QED
      BY <3>2 DEF x, y
  <2> QED
    BY <2>3, <2>4
<1> QED
  BY <1>2, <1>5, <1>6, <1>7, <1>8, <1>10 DEF TableServesSetup, n

-----------------------------------------------------------------------------
(* A setup, call by call.                                                  *)

ReadableSrvs == {srv \in Srvs : \A k \in 1..Len(srv.chrs) : Readable(srv.chrs[k])}

LEMMA ReadableSrvsIs ==
  ASSUME NEW srvs \in Seq(ReadableSrvs)
  PROVE  srvs \in Seq(Srvs) /\ AllReadable(srvs)
<1>1. ReadableSrvs \subseteq Srvs
  BY DEF ReadableSrvs
<1>2. srvs \in Seq(Srvs)
  BY <1>1
<1>3. \A s \in 1..Len(srvs) : srvs[s] \in ReadableSrvs
  OBVIOUS
<1> QED
  BY <1>2, <1>3 DEF AllReadable, ReadableSrvs

LEMMA AccessoriesAre ==
  ASSUME NEW w \in Seq(Seq(ReadableSrvs))
  PROVE  /\ w \in Seq(Seq(Srvs))
         /\ FlattenSeq(w) \in Seq(Srvs) /\ FlattenSeq(w) \in Seq(ReadableSrvs)
<1>1. Seq(ReadableSrvs) \subseteq Seq(Srvs)
  BY ReadableSrvsIs
<1>2. w \in Seq(Seq(Srvs))
  <2> DEFINE R == Seq(ReadableSrvs)
             T == Seq(Srvs)
  <2> HIDE DEF R, T
  <2>1. R \subseteq T /\ w \in Seq(R)
    BY <1>1 DEF R, T
  <2>2. w \in Seq(T)
    BY <2>1
  <2> QED
    BY <2>2 DEF T
<1>3. FlattenSeq(w) \in Seq(ReadableSrvs)
  <2>1. \E x : x \in Seq(ReadableSrvs)
    <3>1. <<>> \in Seq(ReadableSrvs)
      OBVIOUS
    <3> QED
      BY <3>1
  <2> QED
    BY <2>1, FlattenAppend
<1> QED
  BY <1>1, <1>2, <1>3

LEMMA NoneFlat == FlattenSeq(<<>>) = <<>>
BY DEF FlattenSeq

LEMMA SrvOf ==
  ASSUME NEW type \in Nat, NEW chrs \in Seq(Chrs), \A k \in 1..Len(chrs) : Readable(chrs[k])
  PROVE  Srv(type, chrs) \in ReadableSrvs
BY DEF Srv, Srvs, ReadableSrvs

\* x is the last element of s.
EndsWith(s, q, x) ==
  /\ s = Append(q, x) /\ Len(s) = Len(q) + 1 /\ s[Len(s)] = x /\ Last(s) = x
  /\ \A y : [s EXCEPT ![Len(s)] = y] = Append(q, y)

LEMMA LastOf ==
  ASSUME NEW S, NEW s \in Seq(S), s # <<>>
  PROVE  \E q \in Seq(S) : \E x \in S : EndsWith(s, q, x)
<1> DEFINE n == Len(s)
           q == SubSeq(s, 1, n - 1)
           x == s[n]
<1>1. n \in Nat /\ n # 0
  OBVIOUS
<1>2. n - 1 \in 0..n /\ n - 1 < n /\ (n - 1) + 1 = n
  BY <1>1
<1>3. q \in Seq(S) /\ Len(q) = n - 1 /\ x \in S /\ SubSeq(s, 1, n) = Append(q, x)
  <2> DEFINE k == n - 1
  <2>1. k \in 0..Len(s) /\ k < Len(s) /\ k + 1 = n
    BY <1>2
  <2> HIDE DEF k
  <2>2. SubSeq(s, 1, k) \in Seq(S) /\ Len(SubSeq(s, 1, k)) = k
        /\ s[k + 1] \in S /\ SubSeq(s, 1, k + 1) = Append(SubSeq(s, 1, k), s[k + 1])
    BY <2>1, PrefixesGrow
  <2> QED
    BY <2>1, <2>2 DEF k
<1>4. SubSeq(s, 1, n) = s
  BY PrefixesGrow
<1> HIDE DEF n, q, x
<1>5. s = Append(q, x) /\ n = Len(q) + 1
  BY <1>1, <1>3, <1>4
<1>6. ASSUME NEW y PROVE [s EXCEPT ![n] = y] = Append(q, y)
  BY <1>3, <1>5, LastPut
<1>7. Last(s) = x
  BY DEF Last, x, n
<1>8. EndsWith(s, q, x)
  BY <1>5, <1>6, <1>7 DEF n, x, EndsWith
<1> QED
  BY <1>3, <1>8

LEMMA AppendDiffers ==
  ASSUME NEW S, NEW q \in Seq(S), NEW r \in Seq(S), NEW x \in S, NEW y \in S
  PROVE  /\ Append(q, x) # <<>>
         /\ Append(q, x) = Append(r, y) => q = r /\ x = y
<1>1. Append(q, x) # <<>>
  OBVIOUS
<1>2. ASSUME Append(q, x) = Append(r, y) PROVE q = r /\ x = y
  <2>1. /\ Len(q) = Len(r) /\ Len(q) \in Nat /\ x = y
        /\ \A i \in 1..Len(q) : q[i] = r[i]
    <3> DEFINE a == Append(q, x)
               b == Append(r, y)
    <3>1. /\ Len(a) = Len(q) + 1 /\ a[Len(q) + 1] = x /\ \A i \in 1..Len(q) : a[i] = q[i]
          /\ Len(b) = Len(r) + 1 /\ b[Len(r) + 1] = y /\ \A i \in 1..Len(r) : b[i] = r[i]
          /\ Len(q) \in Nat /\ Len(r) \in Nat
      BY Appended
    <3>2. a = b
      BY <1>2
    <3> HIDE DEF a, b
    <3>3. Len(q) = Len(r)
      BY <3>1, <3>2
    <3> QED
      BY <3>1, <3>2, <3>3
  <2> QED
    BY <2>1
<1> QED
  BY <1>1, <1>2

-----------------------------------------------------------------------------
(* What is so between two calls.                                           *)

\* The lists or arrays are those of what was asked for, in every phase.
Fits(st, ph, w, l, g) ==
  /\ st \in {"ip", "ble"} /\ ph \in {"off", "started", "finished", "running"}
  /\ w \in Seq(Seq(ReadableSrvs)) /\ HasInformation(w)
  /\ ph = "off" => w = <<>> /\ l = <<>> /\ g = NoGatt
  /\ ph = "started" /\ st = "ip" => l = Raw(w)
  /\ ph = "started" /\ st = "ble" => IsTable(g, FlattenSeq(w))
  /\ ph \in {"finished", "running"} /\ st = "ip" => IsNumbered(l, w)
  /\ ph \in {"finished", "running"} /\ st = "ble" => IsEnded(g, FlattenSeq(w))

LEMMA NothingFits ==
  /\ <<>> \in Seq(Seq(ReadableSrvs)) /\ HasInformation(<<>>)
  /\ <<>> = Raw(<<>>) /\ IsTable(NoGatt, FlattenSeq(<<>>))
<1>1. <<>> \in Seq(Seq(ReadableSrvs))
  OBVIOUS
<1>2. HasInformation(<<>>)
  BY DEF HasInformation
<1>3. <<>> = Raw(<<>>)
  BY DEF Raw
<1> QED
  BY <1>1, <1>2, <1>3, NoneFlat DEF IsTable

LEMMA OwnServicesFit ==
  ASSUME stack \in {"ip", "ble"}
  PROVE  /\ OwnServices \in Seq(ReadableSrvs) /\ Len(OwnServices) > 0
         /\ OwnServices[1] = AccessoryInformation
<1>1. AccessoryInformation \in ReadableSrvs
  <2>1. ASSUME NEW k \in 1..6 PROVE Readable(AccessoryInformation.chrs[k])
    <3>1. \A k1 \in 1..5 : AccessoryInformation.chrs[k1].access = {"static"}
      BY InformationIs
    <3>2. AccessoryInformation.chrs[6].type = 20
      BY InformationIs
    <3>3. k = 6 => "read" \notin Announced(20)
      BY DEF Announced, ReadOnly, ReadNotify, Unpaired
    <3>4. k # 6 => AccessoryInformation.chrs[k].access \cap {"static", "read"} # {}
      BY <3>1
    <3> QED
      BY <3>2, <3>3, <3>4 DEF Readable
  <2> QED
    BY <2>1, InformationIs DEF ReadableSrvs
<1>2. ProtocolInformation \in ReadableSrvs
  <2> DEFINE a == Chr(55, {"static"})
             b == Chr(165, {"read", "write"})
             chrs == <<a, b>>
  <2>1. a \in Chrs /\ b \in Chrs /\ Readable(a) /\ Readable(b)
    BY DEF Chr, Chrs, Accesses, Readable
  <2> HIDE DEF a, b
  <2>2. chrs \in Seq(Chrs) /\ \A k \in 1..Len(chrs) : Readable(chrs[k])
    BY <2>1
  <2> HIDE DEF chrs
  <2>3. Srv(162, chrs) \in ReadableSrvs
    BY <2>2, SrvOf
  <2> QED
    BY <2>3 DEF ProtocolInformation, chrs, a, b
<1>3. Pairing \in ReadableSrvs
  <2> DEFINE a == Chr(76, {"respond"})
             b == Chr(78, {"respond"})
             c == Chr(79, {"read"})
             d == Chr(80, {"read", "respond"})
             chrs == <<a, b, c, d>>
  <2>1. a \in Chrs /\ b \in Chrs /\ c \in Chrs /\ d \in Chrs
    BY DEF Chr, Chrs, Accesses
  <2>2. "read" \notin Announced(76) /\ "read" \notin Announced(78)
    BY DEF Announced, ReadOnly, ReadNotify, Unpaired
  <2>3. Readable(a) /\ Readable(b) /\ Readable(c) /\ Readable(d)
    BY <2>2 DEF Chr, Readable
  <2> HIDE DEF a, b, c, d
  <2>4. chrs \in Seq(Chrs) /\ \A k \in 1..Len(chrs) : Readable(chrs[k])
    BY <2>1, <2>3
  <2> HIDE DEF chrs
  <2>5. Srv(85, chrs) \in ReadableSrvs
    BY <2>4, SrvOf
  <2> QED
    BY <2>5 DEF Pairing, chrs, a, b, c, d
<1> HIDE DEF AccessoryInformation, ProtocolInformation, Pairing
<1> QED
  BY <1>1, <1>2, <1>3 DEF OwnServices

SetupInv == Fits(stack, phase, wanted, list, gatt)

LEMMA InitFits == InitSetup => SetupInv
BY KindsAssumption, NothingFits DEF InitSetup, SetupInv, Fits

LEMMA StartFits ==
  ASSUME SetupInv, SetupStart
  PROVE  SetupInv'
BY NothingFits DEF SetupStart, SetupInv, Fits

LEMMA RunFits ==
  ASSUME SetupInv, Start
  PROVE  SetupInv'
BY DEF Start, SetupInv, Fits

LEMMA RestartFits ==
  ASSUME SetupInv, RestartSetup
  PROVE  SetupInv'
BY NothingFits DEF RestartSetup, SetupInv, Fits

LEMMA SameFits ==
  ASSUME SetupInv, UNCHANGED setupVars
  PROVE  SetupInv'
BY DEF setupVars, SetupInv, Fits

LEMMA InformationGrows ==
  ASSUME NEW w \in Seq(Seq(ReadableSrvs)), HasInformation(w),
         NEW srvs \in Seq(ReadableSrvs), Len(srvs) > 0, srvs[1] = AccessoryInformation
  PROVE  HasInformation(Append(w, srvs))
<1> DEFINE n == Len(w)
           v == Append(w, srvs)
<1>1. n \in Nat /\ Len(v) = n + 1 /\ v[n + 1] = srvs /\ \A i \in 1..n : v[i] = w[i]
  BY Appended
<1> HIDE DEF v, n
<1>2. ASSUME NEW a \in 1..(n + 1) PROVE Len(v[a]) > 0 /\ v[a][1] = AccessoryInformation
  <2>1. a # n + 1 => a \in 1..n
    BY <1>1
  <2> QED
    BY <1>1, <2>1 DEF HasInformation, n
<1> QED
  BY <1>1, <1>2 DEF HasInformation, v

\* What Fits says while the setup goes on.
Grows(w, l, g) ==
  /\ w \in Seq(Seq(ReadableSrvs)) /\ HasInformation(w)
  /\ stack = "ip" => l = Raw(w)
  /\ stack = "ble" => IsTable(g, FlattenSeq(w))

LEMMA GrowsFits ==
  ASSUME SetupInv, phase = "started"
  PROVE  /\ stack \in {"ip", "ble"} /\ Grows(wanted, list, gatt)
         /\ UNCHANGED <<stack, phase>> /\ Grows(wanted', list', gatt') => SetupInv'
BY DEF SetupInv, Fits, Grows

LEMMA AddAccessoryFits ==
  ASSUME SetupInv, AddAccessory
  PROVE  SetupInv'
<1> DEFINE w == wanted
           own == OwnServices
           v == Append(w, own)
<1>1. phase = "started" /\ wanted' = v /\ Adds(own) /\ UNCHANGED <<stack, phase>>
  BY DEF AddAccessory
<1>2. stack \in {"ip", "ble"} /\ Grows(w, list, gatt)
  BY <1>1, GrowsFits
<1>3. own \in Seq(ReadableSrvs) /\ Len(own) > 0 /\ own[1] = AccessoryInformation
  BY <1>2, OwnServicesFit
<1> HIDE DEF own
<1>4. w \in Seq(Seq(ReadableSrvs)) /\ HasInformation(w)
  BY <1>2 DEF Grows
<1>5. /\ w \in Seq(Seq(Srvs)) /\ own \in Seq(Srvs) /\ FlattenSeq(w) \in Seq(Srvs)
  BY <1>3, <1>4, AccessoriesAre, ReadableSrvsIs
<1>6. v \in Seq(Seq(ReadableSrvs)) /\ HasInformation(v)
  <2>1. HasInformation(v)
    BY <1>3, <1>4, InformationGrows
  <2>2. v \in Seq(Seq(ReadableSrvs))
    <3> DEFINE R == Seq(ReadableSrvs)
    <3>1. w \in Seq(R) /\ own \in R
      BY <1>3, <1>4
    <3> HIDE DEF R
    <3>2. v \in Seq(R)
      BY <3>1
    <3> QED
      BY <3>2 DEF R
  <2> QED
    BY <2>1, <2>2
<1>7. CASE stack = "ip"
  <2>1. list' = IpAddAll(IpAddAccessory(list), own)
    BY <1>1, <1>7 DEF Adds
  <2>2. list' = Raw(v)
    BY <1>2, <1>5, <1>7, <2>1, AddsWholeAccessory DEF Grows
  <2>3. Grows(v, list', gatt')
    BY <1>6, <1>7, <2>2 DEF Grows
  <2> QED
    BY <1>1, <2>3, GrowsFits
<1>8. CASE stack = "ble"
  <2>1. gatt' = BleAddAll(gatt, own)
    BY <1>1, <1>8 DEF Adds
  <2>2. FlattenSeq(v) = FlattenSeq(w) \o own
    BY <1>5, FlattenAppend
  <2>3. IsTable(gatt', FlattenSeq(w) \o own)
    <3> DEFINE all == FlattenSeq(w)
    <3>1. IsTable(gatt, all) /\ all \in Seq(Srvs)
      BY <1>2, <1>5, <1>8 DEF Grows
    <3> HIDE DEF all
    <3>2. IsTable(BleAddAll(gatt, own), all \o own)
      BY <1>5, <3>1, TableAddsAll
    <3> QED
      BY <2>1, <3>2 DEF all
  <2>4. Grows(v, list', gatt')
    BY <1>6, <1>8, <2>2, <2>3 DEF Grows
  <2> QED
    BY <1>1, <2>4, GrowsFits
<1> QED
  BY <1>2, <1>7, <1>8

LEMMA FinishFits ==
  ASSUME SetupInv, SetupFinish
  PROVE  SetupInv'
<1>1. phase = "started" /\ phase' = "finished" /\ UNCHANGED <<stack, wanted>>
  BY DEF SetupFinish
<1>2. stack \in {"ip", "ble"} /\ Grows(wanted, list, gatt)
  BY <1>1, GrowsFits
<1>3. /\ wanted \in Seq(Seq(ReadableSrvs)) /\ HasInformation(wanted)
      /\ wanted \in Seq(Seq(Srvs)) /\ FlattenSeq(wanted) \in Seq(Srvs)
  BY <1>2, AccessoriesAre DEF Grows
<1>4. stack = "ip" => IsNumbered(list', wanted)
  <2> SUFFICES ASSUME stack = "ip" PROVE IsNumbered(list', wanted)
    OBVIOUS
  <2>1. list = Raw(wanted) /\ list' = IpEndConfig(list)
    BY <1>2 DEF Grows, SetupFinish
  <2> QED
    BY <1>3, <2>1, EndNumbers
<1>5. stack = "ble" => IsEnded(gatt', FlattenSeq(wanted))
  <2> SUFFICES ASSUME stack = "ble" PROVE IsEnded(gatt', FlattenSeq(wanted))
    OBVIOUS
  <2>1. IsTable(gatt, FlattenSeq(wanted)) /\ gatt' = BleEndConfig(gatt)
    BY <1>2 DEF Grows, SetupFinish
  <2> QED
    BY <1>3, <2>1, TableEnds
<1> QED
  BY <1>1, <1>2, <1>3, <1>4, <1>5 DEF SetupInv, Fits

\* The last accessory gets other services after its first one.
LEMMA LastGrows ==
  ASSUME NEW w \in Seq(Seq(ReadableSrvs)), NEW srvs \in Seq(ReadableSrvs),
         HasInformation(Append(w, srvs)),
         NEW new \in Seq(ReadableSrvs), Len(new) > 0, new[1] = srvs[1]
  PROVE  Append(w, new) \in Seq(Seq(ReadableSrvs)) /\ HasInformation(Append(w, new))
<1> DEFINE R == Seq(ReadableSrvs)
           n == Len(w)
           v == Append(w, srvs)
<1>1. w \in Seq(R) /\ srvs \in R /\ new \in R
  OBVIOUS
<1> HIDE DEF R
<1>2. Append(w, new) \in Seq(R)
  BY <1>1
<1>3. n \in Nat /\ Len(v) = n + 1 /\ v[n + 1] = srvs /\ \A i \in 1..n : v[i] = w[i]
  BY <1>1, Appended
<1> HIDE DEF v, n
<1>4. /\ \A i \in 1..(n + 1) : Len(v[i]) > 0 /\ v[i][1] = AccessoryInformation
      /\ n + 1 \in 1..(n + 1) /\ \A i \in 1..n : i \in 1..(n + 1)
  BY <1>3 DEF HasInformation, v
<1>5. HasInformation(w)
  BY <1>3, <1>4 DEF HasInformation, n
<1>6. new[1] = AccessoryInformation
  BY <1>3, <1>4
<1>7. HasInformation(Append(w, new))
  BY <1>5, <1>6, InformationGrows
<1> QED
  BY <1>2, <1>7 DEF R

LEMMA AddSrvFits ==
  ASSUME SetupInv, NEW type \in SrvTypes, AddSrv(type)
  PROVE  SetupInv'
<1> DEFINE srv == Srv(type, <<>>)
           R == Seq(ReadableSrvs)
<1>1. phase = "started" /\ wanted # <<>> /\ UNCHANGED <<stack, phase>> /\ type \in Nat
  BY KindsAssumption DEF AddSrv
<1>2. stack \in {"ip", "ble"} /\ Grows(wanted, list, gatt)
  BY <1>1, GrowsFits
<1>3. wanted \in Seq(R) /\ HasInformation(wanted)
  BY <1>2 DEF Grows
<1>4. PICK w \in Seq(R) : \E srvs \in R : EndsWith(wanted, w, srvs)
  <2> HIDE DEF R
  <2>1. \E q \in Seq(R) : \E x \in R : EndsWith(wanted, q, x)
    BY <1>1, <1>3, LastOf
  <2> QED
    BY <2>1
<1>5. PICK srvs \in R : EndsWith(wanted, w, srvs)
  BY <1>4
<1>6. /\ wanted = Append(w, srvs) /\ wanted[Len(wanted)] = srvs
      /\ \A y : [wanted EXCEPT ![Len(wanted)] = y] = Append(w, y)
  BY <1>5 DEF EndsWith
<1> DEFINE new == Append(srvs, srv)
<1>7. wanted' = Append(w, new)
  BY <1>6 DEF AddSrv
<1>8. srv \in ReadableSrvs /\ srv \in Srvs
  <2> DEFINE none == <<>>
  <2>1. none \in Seq(Chrs) /\ \A k \in 1..Len(none) : Readable(none[k])
    OBVIOUS
  <2> HIDE DEF none
  <2>2. Srv(type, none) \in ReadableSrvs
    BY <1>1, <2>1, SrvOf
  <2>3. srv \in ReadableSrvs
    BY <2>2 DEF none
  <2> QED
    BY <2>3 DEF ReadableSrvs
<1> HIDE DEF srv
<1>9. new \in Seq(ReadableSrvs) /\ Len(new) > 0
  BY <1>8
<1>16. new[1] = srvs[1]
  <2>1. Len(srvs) > 0 /\ Len(srvs) \in Nat
    <3>1. Len(wanted) \in Nat /\ Len(wanted) = Len(w) + 1 /\ Len(w) \in Nat
      <4> HIDE DEF R
      <4> QED
        BY <1>6, Appended
    <3>2. Len(wanted) \in 1..Len(wanted)
      BY <3>1
    <3> QED
      BY <1>3, <1>6, <3>2 DEF HasInformation
  <2>2. 1 \in 1..Len(srvs)
    BY <2>1
  <2> QED
    BY <1>8, <2>2
<1>10. Append(w, new) \in Seq(Seq(ReadableSrvs)) /\ HasInformation(Append(w, new))
  <2> HIDE DEF new
  <2> QED
    BY <1>3, <1>6, <1>9, <1>16, LastGrows
<1>11. w \in Seq(Seq(Srvs)) /\ srvs \in Seq(Srvs) /\ FlattenSeq(wanted) \in Seq(Srvs)
  BY <1>3, AccessoriesAre, ReadableSrvsIs
<1>12. CASE stack = "ip"
  <2>1. list = Raw(wanted) /\ list' = IpAddSrv(list, type)
    BY <1>2, <1>12 DEF Grows, AddSrv
  <2>2. IpAddSrv(Raw(Append(w, srvs)), type) = Raw(Append(w, new))
    BY <1>1, <1>11, AddsSrv DEF srv
  <2>3. Grows(wanted', list', gatt')
    BY <1>6, <1>7, <1>10, <1>12, <2>1, <2>2 DEF Grows
  <2> QED
    BY <1>1, <2>3, GrowsFits
<1>13. CASE stack = "ble"
  <2> DEFINE asked == FlattenSeq(wanted)
  <2>1. IsTable(gatt, asked) /\ gatt' = BleAddSrv(gatt, type)
    BY <1>2, <1>13 DEF Grows, AddSrv
  <2>2. IsOpen(gatt', asked, srv)
    <3>1. asked \in Seq(Srvs)
      BY <1>11
    <3> HIDE DEF asked
    <3> QED
      BY <1>1, <2>1, <3>1, TableBegins DEF srv
  <2>3. IsTable(gatt', Append(asked, srv))
    BY <1>8, <1>11, <2>2, OpenIsTable
  <2>4. FlattenSeq(Append(w, new)) = Append(FlattenSeq(w) \o srvs, srv)
    BY <1>8, <1>11, FlattenLast
  <2>5. asked = FlattenSeq(w) \o srvs
    BY <1>6, <1>11, FlattenAppend
  <2>6. Grows(wanted', list', gatt')
    BY <1>7, <1>10, <1>13, <2>3, <2>4, <2>5 DEF Grows
  <2> QED
    BY <1>1, <2>6, GrowsFits
<1> QED
  BY <1>2, <1>12, <1>13

LEMMA SrvGrows ==
  ASSUME NEW old \in ReadableSrvs, NEW c \in Chrs, Readable(c)
  PROVE  LET new == [old EXCEPT !.chrs = Append(old.chrs, c)]
         IN  /\ new = Srv(old.type, Append(old.chrs, c)) /\ new \in ReadableSrvs
             /\ old = Srv(old.type, old.chrs) /\ old.type \in Nat /\ old.chrs \in Seq(Chrs)
<1> DEFINE type == old.type
           chrs == old.chrs
           grown == Append(chrs, c)
           n == Len(chrs)
<1>1. /\ type \in Nat /\ chrs \in Seq(Chrs) /\ old = Srv(type, chrs)
      /\ \A k \in 1..n : Readable(chrs[k])
  BY SrvParts DEF ReadableSrvs
<1>2. /\ grown \in Seq(Chrs) /\ n \in Nat /\ Len(grown) = n + 1 /\ grown[n + 1] = c
      /\ \A k \in 1..n : grown[k] = chrs[k]
  BY <1>1, Appended
<1> HIDE DEF type, chrs, n, grown
<1>3. \A k \in 1..Len(grown) : Readable(grown[k])
  <2>1. \A k \in 1..(n + 1) : k # n + 1 => k \in 1..n
    BY <1>2
  <2> QED
    BY <1>1, <1>2, <2>1
<1>4. [Srv(type, chrs) EXCEPT !.chrs = grown] = Srv(type, grown)
  BY DEF Srv
<1>5. Srv(type, grown) \in ReadableSrvs
  BY <1>1, <1>2, <1>3, SrvOf
<1> QED
  BY <1>1, <1>4, <1>5 DEF type, chrs, grown

LEMMA AddChrFits ==
  ASSUME SetupInv, NEW c \in ChrKinds, AddChr(c)
  PROVE  SetupInv'
<1> DEFINE R == Seq(ReadableSrvs)
<1>1. phase = "started" /\ wanted # <<>> /\ UNCHANGED <<stack, phase>> /\ c \in Chrs /\ Readable(c)
  BY KindsAssumption DEF AddChr
<1>2. stack \in {"ip", "ble"} /\ Grows(wanted, list, gatt)
  BY <1>1, GrowsFits
<1>3. wanted \in Seq(R) /\ HasInformation(wanted)
  BY <1>2 DEF Grows
<1>4. PICK w \in Seq(R) : \E srvs \in R : EndsWith(wanted, w, srvs)
  <2> HIDE DEF R
  <2>1. \E q \in Seq(R) : \E x \in R : EndsWith(wanted, q, x)
    BY <1>1, <1>3, LastOf
  <2> QED
    BY <2>1
<1>5. PICK last \in R : EndsWith(wanted, w, last)
  BY <1>4
<1>6. /\ wanted = Append(w, last) /\ wanted[Len(wanted)] = last /\ Last(wanted) = last
      /\ \A y : [wanted EXCEPT ![Len(wanted)] = y] = Append(w, y)
  BY <1>5 DEF EndsWith
<1>7. Len(last) > Len(OwnServices) /\ Len(OwnServices) > 0 /\ Len(OwnServices) \in Nat /\ Len(last) \in Nat
  <2>1. Len(last) > Len(OwnServices)
    BY <1>6 DEF AddChr
  <2>2. Len(OwnServices) > 0 /\ OwnServices \in Seq(ReadableSrvs)
    BY <1>2, OwnServicesFit
  <2> DEFINE own == OwnServices
  <2> HIDE DEF own
  <2>3. Len(own) \in Nat
    BY <2>2 DEF own
  <2> QED
    BY <2>1, <2>2, <2>3 DEF own
<1>8. PICK srvs \in Seq(ReadableSrvs) : \E old \in ReadableSrvs : EndsWith(last, srvs, old)
  <2>1. last # <<>>
    BY <1>7
  <2>2. \E q \in Seq(ReadableSrvs) : \E x \in ReadableSrvs : EndsWith(last, q, x)
    BY <2>1, LastOf
  <2> QED
    BY <2>2
<1>9. PICK old \in ReadableSrvs : EndsWith(last, srvs, old)
  BY <1>8
<1>10. /\ last = Append(srvs, old) /\ last[Len(last)] = old /\ Len(last) = Len(srvs) + 1
       /\ \A y : [last EXCEPT ![Len(last)] = y] = Append(srvs, y)
  BY <1>9 DEF EndsWith
<1> DEFINE type == old.type
           chrs == old.chrs
           grown == [old EXCEPT !.chrs = Append(old.chrs, c)]
           new == Append(srvs, grown)
<1>11. /\ grown = Srv(type, Append(chrs, c)) /\ grown \in ReadableSrvs
       /\ old = Srv(type, chrs) /\ type \in Nat /\ chrs \in Seq(Chrs)
  BY <1>1, SrvGrows
<1>12. wanted' = Append(w, new)
  <2>1. wanted' = [wanted EXCEPT ![Len(wanted)] =
                    [wanted[Len(wanted)] EXCEPT ![Len(last)] =
                      [wanted[Len(wanted)][Len(last)] EXCEPT !.chrs =
                        Append(wanted[Len(wanted)][Len(last)].chrs, c)]]]
    BY <1>6 DEF AddChr
  <2>2. wanted' = [wanted EXCEPT ![Len(wanted)] = [last EXCEPT ![Len(last)] = grown]]
    BY <1>6, <1>10, <2>1
  <2> HIDE DEF grown
  <2> QED
    BY <1>6, <1>10, <2>2
<1> HIDE DEF type, chrs, grown
<1>13. new \in Seq(ReadableSrvs) /\ Len(new) > 0 /\ new[1] = last[1]
  <2>1. Len(srvs) > 0 /\ Len(srvs) \in Nat
    BY <1>7, <1>10
  <2>2. 1 \in 1..Len(srvs)
    BY <2>1
  <2>3. new \in Seq(ReadableSrvs) /\ Len(new) = Len(srvs) + 1 /\ \A i \in 1..Len(srvs) : new[i] = srvs[i]
    BY <1>11, Appended
  <2>4. \A i \in 1..Len(srvs) : last[i] = srvs[i]
    BY <1>10, Appended
  <2> HIDE DEF new
  <2> QED
    BY <2>1, <2>2, <2>3, <2>4
<1>14. Append(w, new) \in Seq(Seq(ReadableSrvs)) /\ HasInformation(Append(w, new))
  <2> HIDE DEF new
  <2> QED
    BY <1>3, <1>6, <1>13, LastGrows
<1>15. /\ w \in Seq(Seq(Srvs)) /\ srvs \in Seq(Srvs) /\ FlattenSeq(w) \in Seq(Srvs)
       /\ old \in Srvs /\ grown \in Srvs
  <2>1. old \in Srvs /\ grown \in Srvs
    BY <1>11 DEF ReadableSrvs
  <2> QED
    BY <2>1, AccessoriesAre, ReadableSrvsIs
<1>16. CASE stack = "ip"
  <2>1. list = Raw(wanted) /\ list' = IpAddChr(list, c)
    BY <1>2, <1>16 DEF Grows, AddChr
  <2>2. IpAddChr(Raw(Append(w, Append(srvs, Srv(type, chrs)))), c)
          = Raw(Append(w, Append(srvs, Srv(type, Append(chrs, c)))))
    BY <1>1, <1>11, <1>15, AddsChr
  <2>3. list' = Raw(Append(w, new))
    BY <1>6, <1>10, <1>11, <2>1, <2>2
  <2>4. Grows(wanted', list', gatt')
    BY <1>12, <1>14, <1>16, <2>3 DEF Grows
  <2> QED
    BY <1>1, <2>4, GrowsFits
<1>17. CASE stack = "ble"
  <2> DEFINE all == FlattenSeq(w) \o srvs
  <2>1. IsTable(gatt, FlattenSeq(wanted)) /\ gatt' = BleAddChr(gatt, c)
    BY <1>2, <1>17 DEF Grows, AddChr
  <2>2. /\ all \in Seq(Srvs)
        /\ FlattenSeq(wanted) = Append(all, old) /\ FlattenSeq(wanted') = Append(all, grown)
    BY <1>6, <1>10, <1>12, <1>15, FlattenLast
  <2> HIDE DEF all
  <2>3. IsOpen(gatt, all, old)
    <3>1. Append(all, old) # <<>>
      BY <1>15, <2>2, AppendDiffers
    <3>2. PICK q \in Seq(Srvs) : \E srv \in Srvs : Append(all, old) = Append(q, srv) /\ IsOpen(gatt, q, srv)
      BY <2>1, <2>2, <3>1 DEF IsTable
    <3>3. PICK srv \in Srvs : Append(all, old) = Append(q, srv) /\ IsOpen(gatt, q, srv)
      BY <3>2
    <3>4. all = q /\ old = srv
      BY <1>15, <2>2, <3>3, AppendDiffers
    <3> QED
      BY <3>3, <3>4
  <2>4. IsOpen(gatt', all, grown)
    <3>1. IsOpen(gatt, all, Srv(type, chrs))
      BY <1>11, <2>3
    <3>2. IsOpen(BleAddChr(gatt, c), all, Srv(type, Append(chrs, c)))
      BY <1>1, <1>11, <2>2, <3>1, NextChr
    <3> QED
      BY <1>11, <2>1, <3>2
  <2>5. IsTable(gatt', Append(all, grown))
    BY <1>15, <2>2, <2>4, OpenIsTable
  <2>6. Grows(wanted', list', gatt')
    BY <1>12, <1>14, <1>17, <2>2, <2>5 DEF Grows
  <2> QED
    BY <1>1, <2>6, GrowsFits
<1> QED
  BY <1>2, <1>16, <1>17

LEMMA FacadeFits ==
  ASSUME SetupInv, NEW srv \in Facades, Facade(srv)
  PROVE  SetupInv'
<1> DEFINE own == OwnServices
           srvs == Append(own, srv)
           v == <<srvs>>
           none == <<>>
<1>1. /\ phase = "off" /\ phase' = "finished" /\ stack' = stack /\ wanted' = v
      /\ stack \in {"ip", "ble"} /\ list = <<>> /\ gatt = NoGatt
  BY DEF Facade, SetupInv, Fits
<1>2. own \in Seq(ReadableSrvs) /\ Len(own) > 0 /\ own[1] = AccessoryInformation
  BY <1>1, OwnServicesFit
<1>3. srv \in ReadableSrvs
  <2>1. srv \in Srvs /\ \A k \in DOMAIN srv.chrs : Readable(srv.chrs[k])
    BY KindsAssumption
  <2> QED
    BY <2>1, SrvParts DEF ReadableSrvs
<1> HIDE DEF own
<1>4. /\ srvs \in Seq(ReadableSrvs) /\ Len(srvs) > 0 /\ srvs[1] = AccessoryInformation
      /\ srvs \in Seq(Srvs)
  <2>1. srvs \in Seq(ReadableSrvs) /\ Len(srvs) = Len(own) + 1 /\ Len(own) \in Nat
        /\ \A i \in 1..Len(own) : srvs[i] = own[i]
    BY <1>2, <1>3, Appended
  <2>2. 1 \in 1..Len(own)
    BY <1>2, <2>1
  <2> HIDE DEF srvs
  <2> QED
    BY <1>2, <2>1, <2>2, ReadableSrvsIs
<1> HIDE DEF srvs
<1>5. /\ none \in Seq(Seq(ReadableSrvs)) /\ none \in Seq(Seq(Srvs)) /\ none \in Seq(Srvs)
      /\ HasInformation(none) /\ v = Append(none, srvs)
  BY NothingFits
<1>6. v \in Seq(Seq(ReadableSrvs)) /\ HasInformation(v) /\ v \in Seq(Seq(Srvs))
  <2>1. HasInformation(Append(none, srvs))
    <3> HIDE DEF none
    <3> QED
      BY <1>4, <1>5, InformationGrows
  <2>2. v \in Seq(Seq(ReadableSrvs))
    BY <1>4
  <2> QED
    BY <1>5, <2>1, <2>2, AccessoriesAre
<1>7. stack = "ip" => IsNumbered(list', v)
  <2> SUFFICES ASSUME stack = "ip" PROVE IsNumbered(list', v)
    OBVIOUS
  <2>1. list' = IpEndConfig(IpAddAll(IpAddAccessory(list), srvs))
    BY DEF Facade, srvs, own
  <2>2. list = Raw(none)
    BY <1>1, NothingFits
  <2>3. IpAddAll(IpAddAccessory(Raw(none)), srvs) = Raw(v)
    <3>1. IpAddAll(IpAddAccessory(Raw(none)), srvs) = Raw(Append(none, srvs))
      <4>1. none \in Seq(Seq(Srvs)) /\ srvs \in Seq(Srvs)
        BY <1>4, <1>5
      <4> HIDE DEF none
      <4> QED
        BY <4>1, AddsWholeAccessory
    <3> QED
      BY <1>5, <3>1
  <2>4. list' = IpEndConfig(Raw(v))
    BY <2>1, <2>2, <2>3
  <2> HIDE DEF v
  <2> QED
    BY <1>6, <2>4, EndNumbers
<1>8. stack = "ble" => IsEnded(gatt', FlattenSeq(v))
  <2> SUFFICES ASSUME stack = "ble" PROVE IsEnded(gatt', FlattenSeq(v))
    OBVIOUS
  <2>1. gatt' = BleEndConfig(BleAddAll(NoGatt, srvs))
    BY <1>1 DEF Facade, srvs, own
  <2>2. FlattenSeq(v) = none \o srvs
    <3>1. FlattenSeq(Append(none, srvs)) = FlattenSeq(none) \o srvs
      <4>1. none \in Seq(Seq(Srvs)) /\ srvs \in Seq(Srvs)
        BY <1>4, <1>5
      <4> HIDE DEF none
      <4> QED
        BY <4>1, FlattenAppend
    <3> QED
      BY <1>5, <3>1, NoneFlat
  <2>3. IsTable(BleAddAll(NoGatt, srvs), none \o srvs) /\ none \o srvs \in Seq(Srvs)
    <3> DEFINE g == NoGatt
    <3>1. IsTable(g, none) /\ none \in Seq(Srvs)
      BY <1>5 DEF IsTable
    <3> HIDE DEF g, none
    <3>2. IsTable(BleAddAll(g, srvs), none \o srvs) /\ none \o srvs \in Seq(Srvs)
      BY <1>4, <3>1, TableAddsAll
    <3> QED
      BY <3>2 DEF g
  <2> DEFINE h == BleAddAll(NoGatt, srvs)
             asked == none \o srvs
  <2> HIDE DEF h, asked
  <2>4. IsEnded(BleEndConfig(h), asked)
    BY <2>3, TableEnds DEF h, asked
  <2> QED
    BY <2>1, <2>2, <2>4 DEF h, asked
<1> QED
  BY <1>1, <1>6, <1>7, <1>8 DEF SetupInv, Fits

\* A setup that has ended is served.
LEMMA SetupServed ==
  ASSUME SetupInv
  PROVE  ListServesSetup /\ TableServesSetup
<1>1. /\ wanted \in Seq(Seq(Srvs)) /\ HasInformation(wanted)
      /\ FlattenSeq(wanted) \in Seq(Srvs) /\ AllReadable(FlattenSeq(wanted))
  <2>1. wanted \in Seq(Seq(ReadableSrvs)) /\ HasInformation(wanted)
    BY DEF SetupInv, Fits
  <2> QED
    BY <2>1, AccessoriesAre, ReadableSrvsIs
<1>2. ListServesSetup
  <2>1. CASE stack = "ip" /\ SetUp
    <3>1. IsNumbered(list, wanted)
      BY <2>1 DEF SetupInv, Fits, SetUp
    <3> QED
      BY <1>1, <3>1, ListServes
  <2>2. CASE ~(stack = "ip" /\ SetUp)
    BY <2>2 DEF ListServesSetup
  <2> QED
    BY <2>1, <2>2
<1>3. TableServesSetup
  <2>1. CASE stack = "ble" /\ SetUp
    <3>1. IsEnded(gatt, FlattenSeq(wanted))
      BY <2>1 DEF SetupInv, Fits, SetUp
    <3> DEFINE asked == FlattenSeq(wanted)
    <3>2. asked \in Seq(Srvs) /\ AllReadable(asked) /\ FlattenSeq(wanted) = asked /\ IsEnded(gatt, asked)
      BY <1>1, <3>1
    <3> HIDE DEF asked
    <3> QED
      BY <3>2, TableServes
  <2>2. CASE ~(stack = "ble" /\ SetUp)
    BY <2>2 DEF TableServesSetup
  <2> QED
    BY <2>1, <2>2
<1> QED
  BY <1>2, <1>3

-----------------------------------------------------------------------------
(* The setup and the run of the accessory.                                 *)

LEMMA RunKeepsSetup ==
  ASSUME Next, ~Setup, ~SendEventPanics, ~PowerFailure
  PROVE  UNCHANGED setupVars
BY DEF Next, NotifyStep, SendStep, Connect, Close, Get, Subscribe, Unsubscribe, Write, WriteFails,
       WriteReturns, WriteReplyFails, AppChange, NotifyNobody, NotifyGetSockets, NotifyReadValue,
       NotifyQueue, NotifyQueueFails, SendEvent, SendEventFails

LEMMA SetupStep == SetupInv /\ [Next]_vars => SetupInv'
<1> SUFFICES ASSUME SetupInv, [Next]_vars PROVE SetupInv'
  OBVIOUS
<1>1. CASE SetupNext
  BY <1>1, StartFits, AddAccessoryFits, AddSrvFits, AddChrFits, FinishFits, FacadeFits
  DEF SetupNext
<1>2. CASE Start
  BY <1>2, RunFits
<1>3. CASE SendEventPanics \/ PowerFailure
  BY <1>3, RestartFits DEF SendEventPanics, PowerFailure, Restart
<1>4. CASE Next /\ ~Setup /\ ~SendEventPanics /\ ~PowerFailure
  BY <1>4, RunKeepsSetup, SameFits
<1>5. CASE UNCHANGED vars
  BY <1>5, SameFits DEF vars
<1> QED
  BY <1>1, <1>2, <1>3, <1>4, <1>5 DEF Setup

\* Between two calls, the lists and the arrays are those of what was asked for.
THEOREM SetupHolds == Spec => []SetupInv
<1>1. Init => SetupInv
  BY InitFits DEF Init
<1> QED
  BY <1>1, SetupStep, PTL DEF Spec

(***************************************************************************)
(* The IP stack serves what the application set up: every accessory,       *)
(* service and characteristic in the order of the calls, under ids that    *)
(* are unique and lead back to it.  hk_accessories_store.c builds the      *)
(* lists backwards, and hk_accessories_store_end_config turns each of them *)
(* round once while it counts the ids.                                     *)
(***************************************************************************)
THEOREM ListIsServed == Spec => []ListServesSetup
<1>1. SetupInv => ListServesSetup
  BY SetupServed
<1> QED
  BY <1>1, SetupHolds, PTL

(***************************************************************************)
(* NimBLE finds what the application set up in the arrays of hk_gatt.c: it *)
(* never walks beyond an end marker or into an element that was not        *)
(* written, and every characteristic names the service it is in.           *)
(***************************************************************************)
THEOREM TableIsServed == Spec => []TableServesSetup
<1>1. SetupInv => TableServesSetup
  BY SetupServed
<1> QED
  BY <1>1, SetupHolds, PTL

=============================================================================
