-------------------------- MODULE HkCharacteristics --------------------------
(***************************************************************************)
(* The characteristics of a running IP accessory: controllers read, write  *)
(* and subscribe (GET and PUT /characteristics, GET /accessories, in the   *)
(* httpd task), the application changes values and calls hk_notify in its  *)
(* own task, and work items carry the events to the sockets (hk_chrs.c,    *)
(* hk_server.c).  HkSetup says how the characteristics came about,         *)
(* HkSubscriptions is the subscription store; HkIpEvents shows that the    *)
(* store implements it, and what hk_notify reads from it unlocked, which   *)
(* is a copy here.                                                         *)
(*                                                                         *)
(* A connection is one whose pair verify is done; HkIpSession has what is  *)
(* before.  Controllers address characteristics they found in /accessories *)
(* and use them as their permissions say, with one entry per PUT.          *)
(***************************************************************************)
EXTENDS HkSetup

CONSTANTS
  Handles,  \* pointers to characteristics that the application keeps to notify of:
            \* which place the characteristic is at
  Ctls,     \* controllers
  Fds,      \* socket numbers that httpd uses
  Values,   \* values that the characteristics take
  Numbers,  \* numbers that controllers write
  IdRange,  \* number of values of a uint8_t, 256 in the code
  MaxSubs,  \* bound on the subscriptions of one characteristic
  MaxQueue  \* bound on the queued work items, above it queueing fails

ASSUME RunAssumption ==
  /\ Null \notin Fds
  /\ Values \subseteq Nat
  /\ {0, 1} \subseteq Values /\ Numbers \subseteq Nat
  /\ IdRange \in Nat \ {0}
  /\ MaxSubs \in Nat /\ MaxQueue \in Nat

VARIABLES
  fd,      \* the socket of each controller, Null without a connection
  subs,    \* the subscription store
  value,   \* what the read function of a characteristic returns
  mirror,  \* what each controller takes for the value
  put,     \* the write request that the httpd task has not answered yet
  app,     \* the application's task in hk_notify
  queue,   \* queued work items: events, oldest first
  behind   \* history: controllers that nobody tells the current value

runVars == <<fd, subs, value, mirror, put, app, queue, behind>>
vars == <<setupVars, runVars>>

Store == INSTANCE HkSubscriptions WITH Chrs <- Handles

NoPut == [pc |-> "idle", ctl |-> Null, chr |-> Null, val |-> 0]

\* socks: the sockets that hk_chrs_notify has not queued an event for.
NoNotify == [pc |-> "idle", chr |-> Null, socks |-> <<>>, val |-> 0]

IsBool(h) == Format(At(h).type) = "bool"

Running == stack = "ip" /\ phase = "running"

\* What the application and the controllers may store.
Kept == Values \cup Numbers

Sent == Kept \cup {Null}

(***************************************************************************)
(* The types; and a characteristic whose format is bool has the value of a *)
(* boolean, whoever wrote it.                                              *)
(***************************************************************************)
TypeOK ==
  /\ stack \in Stacks
  /\ phase \in {"off", "started", "finished", "running"}
  /\ fd \in [Ctls -> Fds \cup {Null}]
  /\ subs \in [Handles -> Seq(Fds)]
  /\ value \in [Handles -> Kept]
  /\ Running => \A h \in Handles : IsBool(h) => value[h] \in {0, 1}
  /\ mirror \in [Ctls -> [Handles -> Sent]]
  /\ put \in [pc : {"idle", "written"}, ctl : Ctls \cup {Null},
              chr : Handles \cup {Null}, val : Kept]
  /\ app \in [pc : {"idle", "changed", "value", "queue"}, chr : Handles \cup {Null},
              socks : Seq(Fds), val : Sent]
  /\ queue \in Seq([fd : Fds, chr : Handles, val : Sent])
  /\ behind \in [Handles -> SUBSET Ctls]
  /\ Len(queue) <= MaxQueue

InitRun ==
  /\ fd = [c \in Ctls |-> Null]
  /\ Store!Init
  /\ value = [h \in Handles |-> 0]
  /\ mirror = [c \in Ctls |-> [h \in Handles |-> Null]]
  /\ put = NoPut
  /\ app = NoNotify
  /\ queue = <<>>
  /\ behind = [h \in Handles |-> Ctls]

Init == InitSetup /\ InitRun

-----------------------------------------------------------------------------
(* Characteristics and their values.                                       *)

\* hk_accessories_serializer_format_value; null for what it cannot format.
Printable(c) == Format(c.type) \in {"bool", "uint8", "uint32", "float", "string"}
Formatted(c, v) == IF Printable(c) THEN v ELSE Null

(***************************************************************************)
(* The value of a write request in JSON: its kind and, for booleans and    *)
(* numbers, its valueint.                                                  *)
(***************************************************************************)
Json == [kind : {"bool"}, n : {0, 1}] \cup [kind : {"number"}, n : Numbers]
          \cup {[kind |-> "string", n |-> 0]}

\* Mutant of Accepts: a boolean is taken as the integers are.
AcceptsNumbers(c, json) ==
  CASE Format(c.type) \in {"bool", "uint8", "uint32"} -> json.kind \in {"bool", "number"}
    [] Format(c.type) = "float" -> json.kind = "number"
    [] Format(c.type) = "string" -> json.kind = "string"
    [] OTHER -> TRUE

\* HomeKit sends booleans for integers, too.
Accepts(c, json) ==
  CASE Format(c.type) = "bool" ->
         json.kind = "bool" \/ (json.kind = "number" /\ json.n \in {0, 1})
    [] Format(c.type) \in {"uint8", "uint32"} -> json.kind \in {"bool", "number"}
    [] Format(c.type) = "float" -> json.kind = "number"
    [] Format(c.type) = "string" -> json.kind = "string"
    [] OTHER -> TRUE

May(h, perm) == perm \in Perms(At(h))

\* The ids in an event are cut to 8 bits; in all other messages they are not.
EventIds(h) == <<At(h).aid % IdRange, At(h).iid % IdRange>>

\* The characteristics a controller takes an event of h for.
Meant(h) == {g \in Handles : <<At(g).aid, At(g).iid>> = EventIds(h)}

-----------------------------------------------------------------------------
(* The httpd task.                                                         *)

HttpdIdle == Running /\ put.pc = "idle"

\* What controller c knows when its connection begins or ends.
Forget(c) ==
  /\ mirror' = [mirror EXCEPT ![c] = [h \in Handles |-> Null]]
  /\ behind' = [h \in Handles |-> behind[h] \cup {c}]

Connect(c, f) ==
  /\ HttpdIdle
  /\ fd[c] = Null
  /\ \A d \in Ctls : fd[d] # f
  /\ fd' = [fd EXCEPT ![c] = f]
  /\ Forget(c)
  /\ UNCHANGED <<setupVars, subs, value, put, app, queue>>

\* The store is not told.
Closes(c) ==
  /\ fd' = [fd EXCEPT ![c] = Null]
  /\ Forget(c)

Close(c) ==
  /\ HttpdIdle
  /\ fd[c] # Null
  /\ Closes(c)
  /\ UNCHANGED <<setupVars, subs, value, put, app, queue>>

\* An event of h with an old value is queued, or about to be queued.
InFlight(h) ==
  \/ app.pc = "queue" /\ app.chr = h
  \/ \E i \in DOMAIN queue : queue[i].chr = h

\* GET /characteristics and GET /accessories: values are read and sent.
Get(c, hs) ==
  /\ HttpdIdle
  /\ fd[c] # Null
  /\ hs # {} /\ \A h \in hs : May(h, "pr")
  /\ mirror' = [mirror EXCEPT ![c] =
       [h \in Handles |-> IF h \in hs THEN Formatted(At(h), value[h]) ELSE @[h]]]
  /\ behind' = [h \in Handles |->
       IF h \in hs /\ ~InFlight(h) THEN behind[h] \ {c} ELSE behind[h]]
  /\ UNCHANGED <<setupVars, fd, subs, value, put, app, queue>>

Subscribe(c, h) ==
  /\ HttpdIdle
  /\ fd[c] # Null
  /\ May(h, "ev")
  /\ Store!Subscribe(h, fd[c])
  /\ UNCHANGED <<setupVars, fd, value, mirror, put, app, queue, behind>>

Unsubscribe(c, h) ==
  /\ HttpdIdle
  /\ fd[c] # Null
  /\ May(h, "ev")
  /\ Store!Unsubscribe(h, fd[c])
  /\ UNCHANGED <<setupVars, fd, value, mirror, put, app, queue, behind>>

\* The write function has stored the value; nobody else is told of it.
Write(c, h, json) ==
  /\ HttpdIdle
  /\ fd[c] # Null
  /\ May(h, "pw")
  /\ Accepts(At(h), json)
  /\ value' = [value EXCEPT ![h] = json.n]
  /\ put' = [pc |-> "written", ctl |-> c, chr |-> h, val |-> json.n]
  /\ behind' = [behind EXCEPT ![h] = IF InFlight(h) THEN Ctls ELSE Ctls \ {c}]
  /\ UNCHANGED <<setupVars, fd, subs, mirror, app, queue>>

\* A wrong kind of value, or the write function fails: httpd closes the session.
WriteFails(c, h) ==
  /\ HttpdIdle
  /\ fd[c] # Null
  /\ May(h, "pw")
  /\ Closes(c)
  /\ UNCHANGED <<setupVars, subs, value, put, app, queue>>

\* The response says that the value was taken.
WriteReturns ==
  /\ put.pc = "written"
  /\ mirror' = [mirror EXCEPT ![put.ctl][put.chr] = put.val]
  /\ put' = NoPut
  /\ UNCHANGED <<setupVars, fd, subs, value, app, queue, behind>>

\* It cannot be sent, and httpd closes the session.
WriteReplyFails ==
  /\ put.pc = "written"
  /\ Closes(put.ctl)
  /\ put' = NoPut
  /\ UNCHANGED <<setupVars, subs, value, app, queue>>

-----------------------------------------------------------------------------
(* The application's task: a value changes, then hk_notify.                *)

AppChange(h, v) ==
  /\ Running
  /\ app.pc = "idle"
  /\ IsBool(h) => v \in {0, 1}
  /\ value' = [value EXCEPT ![h] = v]
  /\ app' = [NoNotify EXCEPT !.pc = "changed", !.chr = h]
  /\ UNCHANGED <<setupVars, fd, subs, mirror, put, queue, behind>>

\* Nobody has subscribed.
NotifyNobody ==
  /\ app.pc = "changed"
  /\ subs[app.chr] = <<>>
  /\ app' = NoNotify
  /\ behind' = [behind EXCEPT ![app.chr] = Ctls]
  /\ UNCHANGED <<setupVars, fd, subs, value, mirror, put, queue>>

NotifyGetSockets ==
  /\ app.pc = "changed"
  /\ subs[app.chr] # <<>>
  /\ app' = [app EXCEPT !.pc = "value", !.socks = subs[app.chr]]
  /\ UNCHANGED <<setupVars, fd, subs, value, mirror, put, queue, behind>>

Without(socks) == {c \in Ctls : fd[c] \notin ToSet(socks)}

\* The message is made; it is the same for all sockets.
NotifyReadValue ==
  /\ app.pc = "value"
  /\ app' = [app EXCEPT !.pc = "queue", !.val = Formatted(At(app.chr), value[app.chr])]
  /\ behind' = [behind EXCEPT ![app.chr] = Without(app.socks)]
  /\ UNCHANGED <<setupVars, fd, subs, value, mirror, put, queue>>

\* The loop goes on, or hk_notify returns.
NotifyGoesOn(socks) ==
  app' = IF socks = <<>> THEN NoNotify ELSE [app EXCEPT !.socks = socks]

\* Mutant of NotifyQueue: the sockets after the first one are forgotten.
NotifyQueueFirst ==
  /\ app.pc = "queue"
  /\ Len(queue) < MaxQueue
  /\ queue' = Append(queue, [fd |-> Head(app.socks), chr |-> app.chr, val |-> app.val])
  /\ NotifyGoesOn(<<>>)
  /\ UNCHANGED <<setupVars, fd, subs, value, mirror, put, behind>>

NotifyQueue ==
  /\ app.pc = "queue"
  /\ Len(queue) < MaxQueue
  /\ queue' = Append(queue, [fd |-> Head(app.socks), chr |-> app.chr, val |-> app.val])
  /\ NotifyGoesOn(Tail(app.socks))
  /\ UNCHANGED <<setupVars, fd, subs, value, mirror, put, behind>>

\* httpd_queue_work fails; RUN_AND_CHECK skips all that remains.
NotifyQueueFails ==
  /\ app.pc = "queue"
  /\ NotifyGoesOn(<<>>)
  /\ behind' = [behind EXCEPT ![app.chr] =
       @ \cup {c \in Ctls : fd[c] \in ToSet(app.socks)}]
  /\ UNCHANGED <<setupVars, fd, subs, value, mirror, put, queue>>

-----------------------------------------------------------------------------
(* Work items, in the httpd task.                                          *)

\* Who has the socket of the next event; nobody, after it was closed.
Receivers == {c \in Ctls : fd[c] = Head(queue).fd}

\* The controller reads the event.
TakesEvent(c, event) ==
  mirror' = [mirror EXCEPT ![c] =
    [g \in Handles |-> IF g \in Meant(event.chr) THEN event.val ELSE @[g]]]

SendEvent ==
  /\ queue # <<>>
  /\ HttpdIdle
  /\ \E c \in Receivers : TakesEvent(c, Head(queue))
  /\ queue' = Tail(queue)
  /\ UNCHANGED <<setupVars, fd, subs, value, put, app, behind>>

\* A failed send is logged, and the message is gone; as it is when the socket
\* belongs to a new connection, whose controller has not verified yet.
SendEventFails ==
  /\ queue # <<>>
  /\ HttpdIdle
  /\ behind' = [behind EXCEPT ![Head(queue).chr] = @ \cup Receivers]
  /\ queue' = Tail(queue)
  /\ UNCHANGED <<setupVars, fd, subs, value, mirror, put, app>>

\* Nothing of this is in flash.
Restart ==
  /\ RestartSetup
  /\ fd' = [c \in Ctls |-> Null]
  /\ Store!Restart
  /\ value' = [h \in Handles |-> 0]
  /\ mirror' = [c \in Ctls |-> [h \in Handles |-> Null]]
  /\ put' = NoPut
  /\ app' = NoNotify
  /\ queue' = <<>>
  /\ behind' = [h \in Handles |-> Ctls]

\* A closed socket has no transport context: NULL is accessed.
SendEventPanics ==
  /\ queue # <<>>
  /\ HttpdIdle
  /\ Receivers = {}
  /\ Restart

PowerFailure ==
  /\ phase # "off"
  /\ Restart

-----------------------------------------------------------------------------

Setup == (SetupNext \/ Start) /\ UNCHANGED runVars

NotifyStep ==
  \/ NotifyNobody
  \/ NotifyGetSockets
  \/ NotifyReadValue
  \/ NotifyQueue
  \/ NotifyQueueFails

SendStep == SendEvent \/ SendEventFails \/ SendEventPanics

Next ==
  \/ Setup
  \/ \E c \in Ctls :
       \/ \E f \in Fds : Connect(c, f)
       \/ Close(c)
       \/ \E hs \in SUBSET Handles : Get(c, hs)
       \/ \E h \in Handles :
            \/ Subscribe(c, h)
            \/ Unsubscribe(c, h)
            \/ \E json \in Json : Write(c, h, json)
            \/ WriteFails(c, h)
  \/ WriteReturns
  \/ WriteReplyFails
  \/ \E h \in Handles, v \in Values : AppChange(h, v)
  \/ NotifyStep
  \/ SendStep
  \/ PowerFailure

Spec == Init /\ [][Next]_vars

-----------------------------------------------------------------------------
(* Properties.                                                             *)

Listens(c, h) == fd[c] # Null /\ fd[c] \in ToSet(subs[h])

\* Its values can be sent, and the events taken for it are its own.
HasEvents(h) == Printable(At(h)) /\ {g \in Handles : h \in Meant(g)} = {h}

(***************************************************************************)
(* When the tasks are at rest, a controller in the subscription list has   *)
(* the current value, unless the code has left it behind: the last change  *)
(* was the write of another controller, which notifies nobody, or was      *)
(* overtaken by an older event; the notification came before it subscribed *)
(* or connected; queueing or sending its event failed.  So the value that  *)
(* hk_notify reads between fetching the sockets and queueing is recent     *)
(* enough, and events come in the order of the changes.  Asked of          *)
(* characteristics whose ids an event can carry and no other has in one.   *)
(***************************************************************************)
ListenerIsCurrent ==
  Running /\ put.pc = "idle" /\ app.pc = "idle" /\ queue = <<>> =>
    \A h \in Handles, c \in Ctls :
      Listens(c, h) /\ c \notin behind[h] /\ HasEvents(h) =>
        mirror[c][h] = value[h]

=============================================================================
