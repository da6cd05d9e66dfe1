-------------------------- MODULE HkBleNotifyProofs --------------------------
(***************************************************************************)
(* Proofs about HkBleNotify, for any number of tasks, connections, keys,   *)
(* revisions and faults: the types; that the advertisement is never left   *)
(* stopped; that the configuration counter follows the revision; that a    *)
(* controller notices every restart by the global state; and that a        *)
(* notification that nothing disturbs is broadcast or indicated, with a    *)
(* state and a key that the controller can use.                            *)
(***************************************************************************)
EXTENDS HkBleNotify, HkNumbers

(***************************************************************************)
(* A request of the NimBLE task knows its connection, so that Secret is    *)
(* what the connection has.                                                *)
(***************************************************************************)
RequestPcs == {"get", "create", "key_write", "state_write", "reply"}

TypeInv ==
  /\ TypeOK
  /\ thread[Host].pc \in RequestPcs => thread[Host].conn \in Handles

(***************************************************************************)
(* Whoever stops the advertisement is still to start it, and NimBLE, which *)
(* stops it for a connection, advertises again when that ends.             *)
(***************************************************************************)
Advertises == {"regular", "stop", "set", "start"}

AdvertisingInv ==
  phase = "up" /\ conns = <<>> /\ flash.counter # Null =>
    adv.on \/ \E t \in Threads : thread[t].pc \in Advertises

(***************************************************************************)
(* What is or will be advertised has the counter of the flash; nothing is  *)
(* advertised, and no task runs, before the start is complete.             *)
(***************************************************************************)
Current(fields) == fields.kind = "regular" => fields.counter = flash.counter

PayloadInv ==
  /\ Current(adv.fields)
  /\ \A t \in Threads : Current(thread[t].fields)
  /\ phase # "up" =>
       /\ adv.fields.kind = "none"
       /\ \A t \in Threads : thread[t].pc = "idle" /\ thread[t].fields.kind = "none"

(***************************************************************************)
(* What a controller knows of counter and revision goes together: the      *)
(* counter it knows is the one in flash only while the revision is, too.   *)
(* Between the writes of the two, the counter to be written is not the one *)
(* that it knows.                                                          *)
(***************************************************************************)
CounterInv ==
  ctl.counter # Null =>
    /\ ctl.revision # Null
    /\ phase = "revision" =>
         \/ flash.counter = ctl.counter /\ flash.revision = ctl.revision
         \/ flash.counter # ctl.counter /\ flash.revision = firmware
    /\ phase = "counter" =>
         flash.revision = firmware /\ thread[Host].fields.counter # ctl.counter
    /\ phase \in {"state", "next", "up"} =>
         /\ flash.revision = firmware
         /\ flash.counter = ctl.counter => ctl.revision = firmware

Inv == TypeInv /\ AdvertisingInv /\ PayloadInv /\ CounterInv

-----------------------------------------------------------------------------
(* Types.                                                                  *)

LEMMA IdleType == Idle \in Thread /\ NoFields \in Fields /\ NoSession \in Session
BY ConstantsAssumption DEF Idle, Thread, NoFields, Fields, NoSession, Session

LEMMA StrangerType == Stranger \in Knowledge
BY ConstantsAssumption DEF Stranger, Knowledge

LEMMA FollowingType == \A n \in 0..MaxState : Following(n) \in 0..MaxState
BY ConstantsAssumption DEF Following

\* A counter that exists is not followed by itself.
LEMMA NextCounterType ==
  ASSUME flash \in Flash
  PROVE  /\ NextCounter \in 0..(Counters - 1)
         /\ flash.revision # Null /\ flash.counter # Null => NextCounter # flash.counter
<1>1. ASSUME NEW c \in 0..(Counters - 1)
      PROVE  (c + 1) % Counters \in 0..(Counters - 1) /\ (c + 1) % Counters # c
  <2>1. CASE c + 1 < Counters
    <3>1. (c + 1) % Counters = c + 1
      BY <2>1, ConstantsAssumption
    <3> QED
      BY <2>1, <3>1, ConstantsAssumption
  <2>2. CASE c + 1 = Counters
    <3>1. (c + 1) % Counters = 0
      BY <2>2, ConstantsAssumption
    <3> QED
      BY <2>2, <3>1, ConstantsAssumption
  <2> QED
    BY <2>1, <2>2, ConstantsAssumption
<1>2. flash.counter \in 0..(Counters - 1) \cup {Null}
  BY DEF Flash
<1> QED
  BY <1>1, <1>2, ConstantsAssumption DEF NextCounter

(***************************************************************************)
(* What a step of task t does to the tasks, with Goes or Disturbs: t goes  *)
(* on as l, of the others no more than alone and told changes.                      *)
(***************************************************************************)
Becomes(t, l) ==
  /\ thread' \in [Threads -> Thread]
  /\ thread'[t] = l
  /\ \A u \in Threads \ {t} :
       /\ thread'[u].pc = thread[u].pc
       /\ thread'[u].conn = thread[u].conn
       /\ thread'[u].fields = thread[u].fields

LEMMA DisturbedType ==
  \A l \in Thread :
    /\ Disturbed(l) \in Thread
    /\ Disturbed(l).pc = l.pc /\ Disturbed(l).conn = l.conn /\ Disturbed(l).fields = l.fields
    /\ Disturbed(l).value = l.value /\ Disturbed(l).again = l.again /\ ~Disturbed(l).alone
BY DEF Thread, Disturbed

LEMMA TaskBecomes ==
  ASSUME thread \in [Threads -> Thread], NEW t \in Threads, NEW l \in Thread,
         Goes(t, l) \/ Disturbs(t, l)
  PROVE  Becomes(t, l)
<1>1. CASE Goes(t, l)
  BY <1>1 DEF Goes, Becomes
<1>2. CASE Disturbs(t, l)
  <2>1. ASSUME NEW u \in Threads
        PROVE  /\ Disturbed(thread[u]) \in Thread
               /\ Disturbed(thread[u]).pc = thread[u].pc
               /\ Disturbed(thread[u]).conn = thread[u].conn
               /\ Disturbed(thread[u]).fields = thread[u].fields
    BY DisturbedType
  <2> QED
    BY <1>2, <2>1 DEF Disturbs, Becomes
<1> QED
  BY <1>1, <1>2

LEMMA HostIsThread == Host \in Threads /\ Tasks \subseteq Threads
BY DEF Threads

\* A thread that changes program counter and fields only stays one.
LEMMA ThreadType ==
  ASSUME NEW l \in Thread
  PROVE  /\ l.pc \in {"idle", "stop", "set", "start", "reset_state", "reset_pairings"}
                       \cup NotifyPcs \cup HostPcs
         /\ l.conn \in Handles \cup {Null}
         /\ l.value \in 0..MaxState
         /\ l.fields \in Fields
         /\ l.again \in BOOLEAN /\ l.failed \in BOOLEAN /\ l.alone \in BOOLEAN
         /\ l.told \in SUBSET Nat
         /\ l.fields.state \in 0..MaxState
         /\ l.fields.key \in Keys \cup {Null}
         /\ l.fields.counter \in 0..(Counters - 1) \cup {Null}
BY DEF Thread, Fields

LEMMA SilentType ==
  ASSUME TypeOK, NEW t \in Threads
  PROVE  /\ Silent(t) \in [on : BOOLEAN, fields : Fields]
         /\ Silent(t).fields \in {NoFields, adv.fields}
         /\ ~Silent(t).on
BY IdleType DEF Silent, TypeOK

-----------------------------------------------------------------------------
(* Every step keeps the types.                                             *)

LEMMA InitType == Init => TypeInv
<1> SUFFICES ASSUME Init PROVE TypeInv
  OBVIOUS
<1>1. NewFlash \in Flash
  BY ConstantsAssumption DEF NewFlash, Flash
<1>2. thread = [t \in Threads |-> Idle] /\ thread[Host].pc = "idle"
  BY HostIsThread DEF Init, Idle
<1>3. conns \in Seq(Handles) /\ faults \in Nat
  BY ConstantsAssumption DEF Init
<1> QED
  BY <1>1, <1>2, <1>3, IdleType, StrangerType DEF Init, TypeInv, TypeOK, RequestPcs

LEMMA RestartsType ==
  ASSUME TypeInv, Restarts
  PROVE  /\ flash' \in Flash /\ phase' = "revision" /\ conns' \in Seq(Handles)
         /\ session' \in [Handles -> Session]
         /\ adv' \in [on : BOOLEAN, fields : Fields]
         /\ thread' \in [Threads -> Thread] /\ thread'[Host].pc = "idle"
         /\ ctl' \in Knowledge
<1>1. Misled \in Knowledge
  BY DEF Misled, TypeInv, TypeOK, Knowledge
<1>2. ctl' \in Knowledge
  BY ZenonT(60), <1>1 DEF Restarts, TypeInv, TypeOK, Knowledge
<1>3. thread' = [t \in Threads |-> Idle] /\ thread'[Host].pc = "idle"
  BY HostIsThread DEF Restarts, Idle
<1> QED
  BY <1>2, <1>3, IdleType DEF Restarts, TypeInv, TypeOK

LEMMA BootType == TypeInv /\ (Boot \/ Crash \/ Update) => TypeInv'
<1> SUFFICES ASSUME TypeInv, Boot \/ Crash \/ Update PROVE TypeInv'
  OBVIOUS
<1> USE DEF TypeInv
<1>a. flash \in Flash /\ ctl \in Knowledge /\ faults \in Nat
  BY DEF TypeOK
<1>b. Misled \in Knowledge
  BY <1>a DEF Misled, Knowledge
<1>c. Fault => faults' \in Nat
  BY <1>a, ConstantsAssumption DEF Fault
<1>0. /\ flash \in Flash /\ ctl \in Knowledge /\ faults \in Nat
      /\ Misled \in Knowledge
      /\ Fault => faults' \in Nat
  BY <1>a, <1>b, <1>c
<1>1. CASE SameRevision
  BY <1>0, <1>1 DEF SameRevision, TypeOK
<1>2. CASE NewRevision
  <2>1. [Idle EXCEPT !.fields.counter = NextCounter] \in Thread
    BY <1>0, IdleType, NextCounterType DEF Idle, Thread, NoFields, Fields
  <2>2. ASSUME Goes(Host, [Idle EXCEPT !.fields.counter = NextCounter])
        PROVE  thread' \in [Threads -> Thread] /\ thread'[Host].pc = "idle"
    <3>1. Becomes(Host, [Idle EXCEPT !.fields.counter = NextCounter])
      BY <2>1, <2>2, TaskBecomes, HostIsThread DEF TypeOK
    <3>2. thread'[Host].pc = "idle"
      BY <3>1 DEF Becomes, Idle
    <3> QED
      BY <3>1, <3>2 DEF Becomes
  <2>3. /\ thread' \in [Threads -> Thread]
        /\ thread'[Host].pc \in RequestPcs => thread'[Host].conn \in Handles
    BY <1>2, <2>2 DEF NewRevision, TypeOK, RequestPcs
  <2>4. [flash EXCEPT !.revision = firmware] \in Flash
    BY <1>0 DEF Flash, TypeOK
  <2> QED
    BY <1>0, <1>2, <2>3, <2>4 DEF NewRevision, TypeOK
<1>3. CASE WriteCounter
  <2>1. [flash EXCEPT !.counter = thread[Host].fields.counter] \in Flash
    BY <1>0, HostIsThread, ThreadType DEF Flash, TypeOK
  <2>2. Becomes(Host, Idle)
    BY <1>3, IdleType, TaskBecomes, HostIsThread DEF WriteCounter, TypeOK
  <2>3. thread'[Host].pc = "idle"
    BY <2>2 DEF Becomes, Idle
  <2> QED
    BY <1>0, <1>3, <2>1, <2>2, <2>3 DEF WriteCounter, TypeOK, Becomes, RequestPcs
<1>4. CASE InitState
  <2>1. [flash EXCEPT !.state = IF @ = 0 THEN 1 ELSE @] \in Flash
    BY <1>0, ConstantsAssumption DEF Flash
  <2> QED
    BY <1>0, <1>4, <2>1 DEF InitState, TypeOK, RequestPcs
<1>5. CASE InitNext
  <2>1. [flash EXCEPT !.state = BootState] \in Flash
    BY <1>0, FollowingType DEF Flash, BootState
  <2>2. [ctl EXCEPT !.undone = TRUE] \in Knowledge
    BY <1>0 DEF Knowledge
  <2>3. [Idle EXCEPT !.pc = "regular"] \in Thread
    BY IdleType DEF Idle, Thread, HostPcs
  <2>4. Becomes(Host, [Idle EXCEPT !.pc = "regular"])
    BY <1>5, <2>3, TaskBecomes, HostIsThread DEF InitNext, TypeOK
  <2>5. thread'[Host].pc = "regular"
    BY <2>4 DEF Becomes, Idle
  <2> QED
    BY <1>0, <1>5, <2>1, <2>2, <2>4, <2>5 DEF InitNext, TypeOK, Becomes, RequestPcs
<1>6. CASE Crash
  BY <1>0, <1>6, RestartsType DEF Crash, TypeOK, RequestPcs
<1>7. CASE Update
  <2>1. firmware' \in Revisions
    BY <1>7, ConstantsAssumption DEF Update, TypeOK
  <2> QED
    BY <1>0, <1>7, <2>1, RestartsType DEF Update, TypeOK, RequestPcs
<1> QED
  BY <1>1, <1>2, <1>3, <1>4, <1>5, <1>6, <1>7 DEF Boot

\* A step of one task that leaves a well-typed thread keeps that part of TypeInv.
LEMMA ThreadsType ==
  ASSUME TypeInv, NEW t \in Threads, NEW l \in Thread,
         Goes(t, l) \/ Disturbs(t, l),
         t = Host /\ l.pc \in RequestPcs => l.conn \in Handles
  PROVE  /\ thread' \in [Threads -> Thread]
         /\ thread'[Host].pc \in RequestPcs => thread'[Host].conn \in Handles
BY TaskBecomes, HostIsThread DEF TypeInv, TypeOK, Becomes

LEMMA AdvertisingType ==
  TypeInv /\ (\E t \in Threads : AdvStop(t) \/ AdvSet(t) \/ AdvStart(t)) => TypeInv'
<1> SUFFICES ASSUME TypeInv, NEW t \in Threads, AdvStop(t) \/ AdvSet(t) \/ AdvStart(t)
             PROVE  TypeInv'
  OBVIOUS
<1>1. thread[t] \in Thread /\ adv \in [on : BOOLEAN, fields : Fields]
  BY DEF TypeInv, TypeOK
<1>2. CASE AdvStop(t)
  <2>1. [thread[t] EXCEPT !.pc = "set"] \in Thread
    BY <1>1 DEF Thread
  <2>2. [thread[t] EXCEPT !.pc = "set"].pc = "set"
    BY <1>1 DEF Thread
  <2> QED
    BY <1>2, <2>1, <2>2, ThreadsType, SilentType DEF AdvStop, TypeInv, TypeOK, RequestPcs
<1>3. CASE AdvSet(t)
  <2> DEFINE l == [thread[t] EXCEPT !.pc = "start", !.fields = NoFields]
  <2>1. l \in Thread /\ l.pc = "start"
    BY <1>1, IdleType DEF Thread
  <2>2. [adv EXCEPT !.fields = thread[t].fields] \in [on : BOOLEAN, fields : Fields]
    BY <1>1, ThreadType
  <2>3. Disturbs(t, l)
    BY <1>3 DEF AdvSet
  <2> HIDE DEF l
  <2> QED
    BY <1>3, <2>1, <2>2, <2>3, ThreadsType DEF AdvSet, TypeInv, TypeOK, RequestPcs
<1>4. CASE AdvStart(t)
  <2>1. Idle \in Thread /\ Idle.pc = "idle"
    BY IdleType DEF Idle
  <2>2. adv' \in [on : BOOLEAN, fields : Fields]
    BY <1>1, <1>4, SilentType DEF AdvStart, TypeInv
  <2> QED
    BY <1>4, <2>1, <2>2, ThreadsType DEF AdvStart, TypeInv, TypeOK, RequestPcs
<1> QED
  BY <1>2, <1>3, <1>4

LEMMA ConnectionType ==
  ASSUME TypeInv, NEW h \in Handles, Connect(h) \/ Disconnect(h) \/ Pair(h) \/ Verify(h)
  PROVE  TypeInv'
<1>1. /\ conns \in Seq(Handles) /\ session \in [Handles -> Session] /\ flash \in Flash
      /\ Idle \in Thread /\ Idle.pc = "idle"
  BY IdleType DEF TypeInv, TypeOK, Idle
<1>2. CASE Connect(h)
  <2>1. <<h>> \o conns \in Seq(Handles)
    BY <1>1
  <2> QED
    BY <1>1, <1>2, <2>1, ThreadsType, HostIsThread, SilentType
    DEF Connect, TypeInv, TypeOK, RequestPcs
<1>3. CASE Disconnect(h)
  <2>1. conns' \in Seq(Handles)
    <3>1. PICK n \in DOMAIN conns :
            conns' = SubSeq(conns, 1, n - 1) \o SubSeq(conns, n + 1, Len(conns))
      BY <1>3 DEF Disconnect
    <3>2. n \in 1..Len(conns) /\ Len(conns) \in Nat
      BY <1>1
    <3>3. SubSeq(conns, 1, n - 1) \in Seq(Handles)
      BY <1>1, <3>2
    <3>4. SubSeq(conns, n + 1, Len(conns)) \in Seq(Handles)
      BY <1>1, <3>2
    <3> QED
      BY <3>1, <3>3, <3>4
  <2>2. session' \in [Handles -> Session]
    BY <1>1, <1>3, IdleType DEF Disconnect
  <2>3. AfterDisconnect \in Thread /\ AfterDisconnect.pc = "regular"
    BY IdleType DEF AfterDisconnect, Idle, Thread, HostPcs
  <2> QED
    BY <1>3, <2>1, <2>2, <2>3, ThreadsType, HostIsThread
    DEF Disconnect, TypeInv, TypeOK, RequestPcs
<1>4. CASE Pair(h)
  <2>1. [flash EXCEPT !.paired = TRUE] \in Flash
    BY <1>1 DEF Flash
  <2> QED
    BY <1>4, <2>1 DEF Pair, TypeInv, TypeOK
<1>5. CASE Verify(h)
  <2>1. session' \in [Handles -> Session]
    <3>1. PICK k \in Keys : session' = [session EXCEPT ![h].secret = k]
      BY <1>5, ConstantsAssumption DEF Verify, FreshKeys
    <3>2. [session[h] EXCEPT !.secret = k] \in Session
      BY <1>1, <3>1 DEF Session
    <3> QED
      BY <1>1, <3>1, <3>2
  <2> QED
    BY <1>1, <1>5, <2>1, ThreadsType, HostIsThread DEF Verify, TypeInv, TypeOK, RequestPcs
<1> QED
  BY <1>2, <1>3, <1>4, <1>5

\* The requests of the NimBLE task and the regular advertisement.
LEMMA RequestType ==
  TypeInv /\ ( \/ AdvertiseRegular \/ GetKey \/ CreateKey \/ WriteKey \/ WriteKeyState \/ Reply
               \/ \E h \in Handles, again \in BOOLEAN : Configure(h, again)) => TypeInv'
<1> SUFFICES ASSUME TypeInv,
                    \/ AdvertiseRegular \/ GetKey \/ CreateKey \/ WriteKey \/ WriteKeyState
                    \/ Reply \/ \E h \in Handles, again \in BOOLEAN : Configure(h, again)
             PROVE  TypeInv'
  OBVIOUS
<1> DEFINE l == thread[Host]
<1>1. /\ l \in Thread /\ flash \in Flash /\ session \in [Handles -> Session] /\ ctl \in Knowledge
      /\ Idle \in Thread /\ Idle.pc = "idle"
      /\ l.pc \in RequestPcs => l.conn \in Handles
  BY IdleType, HostIsThread DEF TypeInv, TypeOK, Idle
<1>2. flash.state \in 0..MaxState /\ flash.key \in Keys \cup {Null}
      /\ flash.counter \in 0..(Counters - 1) \cup {Null}
  BY <1>1 DEF Flash
<1>3. Fault => faults' \in Nat
  BY ConstantsAssumption DEF Fault, TypeInv, TypeOK
<1>4. l.pc \in RequestPcs => Secret \in Keys
  BY <1>1 DEF Secret, Session
<1>5. /\ CreateFails \in Thread
      /\ l.pc \in RequestPcs => (CreateFails.pc \in RequestPcs => CreateFails.conn \in Handles)
  BY <1>1 DEF CreateFails, Thread, RequestPcs, HostPcs
<1>6. CASE AdvertiseRegular
  <2> DEFINE m == [Idle EXCEPT
                     !.pc = "stop",
                     !.fields = [kind |-> "regular", state |-> flash.state,
                                 counter |-> flash.counter, key |-> Null]]
  <2>1. m \in Thread /\ m.pc = "stop"
    BY <1>1, <1>2 DEF Thread, Fields
  <2>2. Goes(Host, Idle) \/ Goes(Host, m)
    BY <1>6 DEF AdvertiseRegular
  <2> HIDE DEF m
  <2> QED
    BY <1>1, <1>6, <2>1, <2>2, ThreadsType, HostIsThread
    DEF AdvertiseRegular, TypeInv, TypeOK, RequestPcs
<1>7. CASE \E h \in Handles, again \in BOOLEAN : Configure(h, again)
  <2>1. PICK h \in Handles, again \in BOOLEAN : Configure(h, again)
    BY <1>7
  <2> DEFINE n == IF Secure(h) THEN flash.state ELSE 0
             m == [Idle EXCEPT !.pc = "get", !.conn = h, !.again = again, !.fields.state = n]
  <2>3. Goes(Host, m)
    BY <2>1 DEF Configure
  <2>6. n \in 0..MaxState
    BY <1>2, ConstantsAssumption
  <2> HIDE DEF n
  <2>2. m \in Thread /\ m.conn = h
    BY ZenonT(60), <1>1, <2>6 DEF Thread, Fields, HostPcs
  <2>4. \A g \in Handles : [session[g] EXCEPT !.key = Null, !.state = 0] \in Session
    <3>1. \A g \in Handles : session[g] \in Session
      BY <1>1
    <3>2. 0 \in 0..MaxState
      BY ConstantsAssumption
    <3> QED
      BY <3>1, <3>2 DEF Session
  <2>5. session' \in [Handles -> Session]
    BY <1>1, <2>1, <2>4 DEF Configure
  <2> HIDE DEF m
  <2> QED
    BY <2>1, <2>2, <2>3, <2>5, ThreadsType, HostIsThread DEF Configure, TypeInv, TypeOK
<1>8. CASE GetKey
  <2> DEFINE m1 == [l EXCEPT !.pc = IF l.again THEN "create" ELSE "reply", !.again = FALSE,
                             !.fields.key = flash.key]
             m2 == [l EXCEPT !.pc = "create"]
  <2>1. m1 \in Thread /\ m1.conn = l.conn
    BY ZenonT(60), <1>1, <1>2 DEF Thread, Fields, HostPcs
  <2>2. m2 \in Thread /\ m2.conn = l.conn
    BY <1>1 DEF Thread, HostPcs
  <2>3. l.pc \in RequestPcs
    BY <1>8 DEF GetKey, At, RequestPcs
  <2>4. Goes(Host, m1) \/ Goes(Host, m2)
    BY <1>8 DEF GetKey
  <2> HIDE DEF m1, m2
  <2> QED
    BY <1>1, <1>8, <2>1, <2>2, <2>3, <2>4, ThreadsType, HostIsThread DEF GetKey, TypeInv, TypeOK
<1>9. CASE CreateKey
  <2> DEFINE m == [l EXCEPT !.pc = "key_write", !.value = flash.state]
  <2>1. m \in Thread /\ m.conn = l.conn
    BY <1>1, <1>2 DEF Thread, HostPcs
  <2>2. l.pc \in RequestPcs /\ Goes(Host, m)
    BY <1>9 DEF CreateKey, At, RequestPcs
  <2> HIDE DEF m
  <2> QED
    BY <1>1, <1>9, <2>1, <2>2, ThreadsType, HostIsThread DEF CreateKey, TypeInv, TypeOK
<1>10. CASE WriteKey
  <2> DEFINE m == [l EXCEPT !.pc = "state_write"]
  <2>1. m \in Thread /\ m.conn = l.conn
    BY <1>1 DEF Thread, HostPcs
  <2>2. l.pc \in RequestPcs
    BY <1>10 DEF WriteKey, At, RequestPcs
  <2>3. Disturbs(Host, m) \/ Goes(Host, CreateFails)
    BY <1>10 DEF WriteKey
  <2>4. flash' \in Flash
    BY <1>1, <1>4, <1>10, <2>2 DEF WriteKey, Flash
  <2>5. ctl' \in Knowledge
    BY <1>1, <1>10 DEF WriteKey, Knowledge
  <2>6. faults' \in Nat
    BY <1>3, <1>10 DEF WriteKey, TypeInv, TypeOK
  <2> HIDE DEF m
  <2> QED
    BY <1>1, <1>5, <1>10, <2>1, <2>2, <2>3, <2>4, <2>5, <2>6, ThreadsType, HostIsThread
    DEF WriteKey, TypeInv, TypeOK
<1>11. CASE WriteKeyState
  <2> DEFINE m == [l EXCEPT !.pc = IF l.again THEN "create" ELSE "reply", !.again = FALSE,
                            !.value = 0, !.fields.key = Created]
  <2>1. l.pc \in RequestPcs
    BY <1>11 DEF WriteKeyState, At, RequestPcs
  <2>2. m \in Thread /\ m.conn = l.conn
    <3>1. Created \in Keys \cup {Null} /\ 0 \in 0..MaxState
      BY <1>4, <2>1, ConstantsAssumption DEF Created
    <3>2. [l.fields EXCEPT !.key = Created] \in Fields
      BY <1>1, <3>1, ThreadType DEF Fields
    <3>3. (IF l.again THEN "create" ELSE "reply") \in HostPcs
      BY DEF HostPcs
    <3> QED
      BY <1>1, <3>1, <3>2, <3>3 DEF Thread
  <2>3. Disturbs(Host, m) \/ Goes(Host, CreateFails)
    BY <1>11 DEF WriteKeyState
  <2>4. [flash EXCEPT !.keyState = l.value] \in Flash
    BY <1>1, ThreadType DEF Flash
  <2>5. flash' \in Flash
    BY <1>1, <1>11, <2>4 DEF WriteKeyState
  <2>6. faults' \in Nat
    BY <1>3, <1>11 DEF WriteKeyState, TypeInv, TypeOK
  <2> HIDE DEF m
  <2> QED
    BY <1>1, <1>5, <1>11, <2>1, <2>2, <2>3, <2>5, <2>6, ThreadsType, HostIsThread
    DEF WriteKeyState, TypeInv, TypeOK
<1>12. CASE Reply
  <2>1. l.conn \in Handles
    BY <1>1, <1>12 DEF Reply, At, RequestPcs
  <2>2. [session[l.conn] EXCEPT !.key = l.fields.key, !.state = l.fields.state] \in Session
    BY ZenonT(60), <1>1, <2>1, ThreadType DEF Session
  <2>3. session' \in [Handles -> Session]
    <3>1. \/ session' = session
          \/ session' = [session EXCEPT ![l.conn].key = l.fields.key, ![l.conn].state = l.fields.state]
      BY <1>12 DEF Reply
    <3> QED
      BY <1>1, <2>1, <2>2, <3>1
  <2> QED
    BY <1>1, <1>12, <2>3, ThreadsType, HostIsThread DEF Reply, TypeInv, TypeOK, RequestPcs
<1> QED
  BY <1>6, <1>7, <1>8, <1>9, <1>10, <1>11, <1>12

\* What the look at the list leaves as it was.
LEMMA ListBecomes ==
  ASSUME TypeInv, NEW t \in Tasks, NotifyList(t)
  PROVE  \E m \in Thread :
           /\ Goes(t, m)
           /\ m.fields = thread[t].fields
           /\ \/ conns = <<>> /\ m.pc = "read" /\ m.conn = thread[t].conn
              \/ conns # <<>> /\ m.pc = "visit" /\ m.conn = Head(conns)
           /\ m.alone =>
                thread[t].alone /\ m.failed = thread[t].failed /\ m.told = thread[t].told
<1> DEFINE l == thread[t]
           m1 == [l EXCEPT !.pc = "read"]
           m2 == [l EXCEPT !.pc = "visit", !.conn = Head(conns)]
           m3 == [l EXCEPT !.pc = "visit", !.conn = Head(conns), !.failed = TRUE]
<1>1. l \in Thread /\ conns \in Seq(Handles)
  BY HostIsThread DEF TypeInv, TypeOK
<1>2. \/ conns = <<>> /\ Goes(t, m1)
      \/ conns # <<>> /\ (Goes(t, m2) \/ Goes(t, Disturbed(m3)))
  BY DEF NotifyList
<1>3. conns # <<>> => Head(conns) \in Handles
  BY <1>1
<1>4. /\ m1 \in Thread /\ m1.pc = "read" /\ m1.conn = l.conn /\ m1.fields = l.fields
      /\ m1.alone = l.alone /\ m1.failed = l.failed /\ m1.told = l.told
  BY <1>1 DEF Thread, NotifyPcs
<1>5. conns # <<>> =>
        /\ m2 \in Thread /\ m2.pc = "visit" /\ m2.conn = Head(conns) /\ m2.fields = l.fields
        /\ m2.alone = l.alone /\ m2.failed = l.failed /\ m2.told = l.told
  BY <1>1, <1>3 DEF Thread, NotifyPcs
<1>6. conns # <<>> =>
        m3 \in Thread /\ m3.pc = "visit" /\ m3.conn = Head(conns) /\ m3.fields = l.fields
  BY <1>1, <1>3 DEF Thread, NotifyPcs
<1> HIDE DEF l, m1, m2, m3
<1>7. conns # <<>> =>
        /\ Disturbed(m3) \in Thread /\ Disturbed(m3).pc = "visit"
        /\ Disturbed(m3).conn = Head(conns) /\ Disturbed(m3).fields = l.fields
        /\ ~Disturbed(m3).alone
  BY <1>6, DisturbedType
<1>8. \E m \in Thread :
        /\ Goes(t, m)
        /\ m.fields = l.fields
        /\ \/ conns = <<>> /\ m.pc = "read" /\ m.conn = l.conn
           \/ conns # <<>> /\ m.pc = "visit" /\ m.conn = Head(conns)
        /\ m.alone => l.alone /\ m.failed = l.failed /\ m.told = l.told
  BY <1>2, <1>4, <1>5, <1>7
<1> QED
  BY <1>8 DEF l

\* An indication leaves all but failed and told, and alone with them.
LEMMA IndicateBecomes ==
  ASSUME TypeInv, NEW t \in Tasks, Indicate(t)
  PROVE  \E m \in Thread :
           /\ Goes(t, m)
           /\ m.pc = "move" /\ m.conn = thread[t].conn /\ m.fields = thread[t].fields
           /\ m.alone =>
                /\ thread[t].alone
                /\ \/ /\ ~thread[t].failed /\ Connected(Cut(thread[t].conn))
                      /\ ~m.failed /\ m.told = thread[t].told \cup {Cut(thread[t].conn)}
                   \/ /\ thread[t].failed \/ ~Connected(Cut(thread[t].conn))
                      /\ m.failed /\ m.told = thread[t].told
<1> DEFINE l == thread[t]
           h == Cut(l.conn)
           m1 == [l EXCEPT !.pc = "move", !.told = @ \cup {h}]
           m2 == [l EXCEPT !.pc = "move", !.failed = TRUE]
<1>1. l \in Thread /\ h \in Nat
  BY HostIsThread DEF TypeInv, TypeOK, Cut
<1>2. \/ ~l.failed /\ Connected(h) /\ Goes(t, m1)
      \/ (l.failed \/ ~Connected(h)) /\ Goes(t, m2)
      \/ Goes(t, Disturbed(m2))
  BY DEF Indicate
<1>3. l.told \cup {h} \in SUBSET Nat /\ "move" \in NotifyPcs
  BY <1>1 DEF Thread, NotifyPcs
<1> HIDE DEF h
<1>4. /\ m1 \in Thread /\ m1.pc = "move" /\ m1.conn = l.conn /\ m1.fields = l.fields
      /\ m1.alone = l.alone /\ m1.failed = l.failed /\ m1.told = l.told \cup {h}
  BY <1>1, <1>3 DEF Thread
<1>5. /\ m2 \in Thread /\ m2.pc = "move" /\ m2.conn = l.conn /\ m2.fields = l.fields
      /\ m2.alone = l.alone /\ m2.failed = TRUE /\ m2.told = l.told
  BY <1>1, <1>3 DEF Thread
<1> HIDE DEF l, m1, m2
<1>6. /\ Disturbed(m2) \in Thread /\ Disturbed(m2).pc = "move"
      /\ Disturbed(m2).conn = l.conn /\ Disturbed(m2).fields = l.fields
      /\ ~Disturbed(m2).alone
  BY <1>5, DisturbedType
<1> DEFINE Result(m) ==
      /\ m.alone => /\ l.alone
                    /\ \/ ~l.failed /\ Connected(h) /\ ~m.failed /\ m.told = l.told \cup {h}
                       \/ (l.failed \/ ~Connected(h)) /\ m.failed /\ m.told = l.told
<1>7. /\ ~l.failed /\ Connected(h) => Result(m1)
      /\ (l.failed \/ ~Connected(h)) => Result(m2)
      /\ Result(Disturbed(m2))
  BY <1>4, <1>5, <1>6
<1>8. \E m \in Thread : /\ Goes(t, m) /\ m.pc = "move" /\ m.conn = l.conn
                        /\ m.fields = l.fields /\ Result(m)
  BY <1>2, <1>4, <1>5, <1>6, <1>7
<1> QED
  BY <1>8 DEF l, h

\* hk_notify and hk_reset.
LEMMA TaskType ==
  ASSUME TypeInv, NEW t \in Tasks, TaskStep(t)
  PROVE  TypeInv'
<1> DEFINE l == thread[t]
<1>1. /\ t \in Threads /\ t # Host
      /\ l \in Thread /\ flash \in Flash /\ ctl \in Knowledge /\ conns \in Seq(Handles)
      /\ Idle \in Thread
  BY IdleType, HostIsThread, ConstantsAssumption DEF TypeInv, TypeOK
<1>2. /\ flash.state \in 0..MaxState /\ flash.key \in Keys \cup {Null}
      /\ Following(flash.state) \in 0..MaxState
  BY <1>1, FollowingType DEF Flash
<1>3. Fault => faults' \in Nat
  BY ConstantsAssumption DEF Fault, TypeInv, TypeOK
<1>4. ASSUME NEW m \in Thread, Goes(t, m) \/ Disturbs(t, m)
      PROVE  /\ thread' \in [Threads -> Thread]
             /\ thread'[Host].pc \in RequestPcs => thread'[Host].conn \in Handles
  BY <1>1, <1>4, ThreadsType
<1>5. CASE Notify(t)
  <2>1. [Idle EXCEPT !.pc = "list", !.alone = TRUE] \in Thread
    BY <1>1 DEF Thread, NotifyPcs
  <2> QED
    BY <1>4, <1>5, <2>1 DEF Notify, TypeInv, TypeOK
<1>6. CASE NotifyList(t)
  <2>1. PICK m \in Thread : Goes(t, m)
    BY <1>6, ListBecomes
  <2>2. faults' \in Nat
    BY <1>3, <1>6 DEF NotifyList, TypeInv, TypeOK
  <2> QED
    BY <1>4, <1>6, <2>1, <2>2 DEF NotifyList, TypeInv, TypeOK
<1>7. CASE NotifyVisit(t)
  <2>1. ASSUME NEW secure \in BOOLEAN
        PROVE  [l EXCEPT !.pc = IF secure THEN "read" ELSE "move"] \in Thread
    BY <1>1 DEF Thread, NotifyPcs
  <2> QED
    BY <1>4, <1>7, <2>1 DEF NotifyVisit, TypeInv, TypeOK
<1>8. CASE StateRead(t)
  <2>1. [l EXCEPT !.pc = "write", !.value = Following(flash.state)] \in Thread
    BY <1>1, <1>2 DEF Thread, NotifyPcs
  <2> QED
    BY <1>4, <1>8, <2>1 DEF StateRead, TypeInv, TypeOK
<1>9. CASE StateWrite(t)
  <2>1. AfterWrite(t) \in Thread
    <3>1. (IF l.conn = Null THEN "age" ELSE "indicate") \in NotifyPcs /\ 0 \in 0..MaxState
      BY ConstantsAssumption DEF NotifyPcs
    <3> QED
      BY <1>1, <3>1 DEF AfterWrite, Thread
  <2>2. Disturbed(AfterWrite(t)) \in Thread
    BY <2>1, DisturbedType
  <2>3. [flash EXCEPT !.state = l.value] \in Flash
    BY <1>1, ThreadType DEF Flash
  <2>4. flash' \in Flash /\ faults' \in Nat
    BY <1>1, <1>3, <1>9, <2>3 DEF StateWrite, TypeInv, TypeOK
  <2>5. ctl' \in Knowledge
    BY <1>1, <1>9 DEF StateWrite, Knowledge
  <2>6. Disturbs(t, AfterWrite(t)) \/ Goes(t, Disturbed(AfterWrite(t)))
    BY <1>9 DEF StateWrite
  <2> QED
    BY <1>4, <1>9, <2>1, <2>2, <2>4, <2>5, <2>6 DEF StateWrite, TypeInv, TypeOK
<1>10. CASE Indicate(t)
  <2>1. PICK m \in Thread : Goes(t, m)
    BY <1>10, IndicateBecomes
  <2>2. faults' \in Nat
    BY <1>3, <1>10 DEF Indicate, TypeInv, TypeOK
  <2> QED
    BY <1>4, <1>10, <2>1, <2>2 DEF Indicate, TypeInv, TypeOK
<1>11. CASE NotifyMove(t)
  <2>1. PICK next \in Handles \cup {Null} :
          Goes(t, IF next = Null THEN Idle ELSE [l EXCEPT !.pc = "visit", !.conn = next])
    BY <1>11 DEF NotifyMove
  <2>2. [l EXCEPT !.pc = "visit", !.conn = next] \in Thread
    BY <1>1 DEF Thread, NotifyPcs
  <2> QED
    BY <1>1, <1>4, <1>11, <2>1, <2>2 DEF NotifyMove, TypeInv, TypeOK
<1>12. CASE NotifyPanics(t)
  BY <1>3, <1>12, RestartsType DEF NotifyPanics, TypeInv, TypeOK, RequestPcs
<1>13. CASE KeyAge(t)
  <2>1. [l EXCEPT !.pc = "key"] \in Thread
    BY <1>1 DEF Thread, NotifyPcs
  <2> QED
    BY <1>1, <1>4, <1>13, <2>1 DEF KeyAge, TypeInv, TypeOK
<1>14. CASE ReadKey(t)
  <2>1. [l.fields EXCEPT !.key = flash.key] \in Fields
    BY <1>1, <1>2, ThreadType DEF Fields
  <2>2. [l EXCEPT !.pc = "change", !.fields.key = flash.key] \in Thread
    BY <1>1, <2>1 DEF Thread, NotifyPcs
  <2> QED
    BY <1>4, <1>14, <2>2 DEF ReadKey, TypeInv, TypeOK
<1>15. CASE AdvertiseChange(t)
  <2>1. [l EXCEPT !.pc = "stop", !.fields.kind = "change", !.fields.state = flash.state] \in Thread
    BY <1>1, <1>2 DEF Thread, Fields
  <2> QED
    BY <1>4, <1>15, <2>1 DEF AdvertiseChange, TypeInv, TypeOK
<1>16. CASE Reset(t)
  <2>1. [Idle EXCEPT !.pc = "reset_state"] \in Thread
    BY <1>1 DEF Thread
  <2> QED
    BY <1>3, <1>4, <1>16, <2>1 DEF Reset, TypeInv, TypeOK
<1>17. CASE ResetState(t)
  <2>1. [Idle EXCEPT !.pc = "reset_pairings"] \in Thread
    BY <1>1 DEF Thread
  <2>2. [flash EXCEPT !.state = 1] \in Flash
    <3>1. 1 \in 0..MaxState
      BY ConstantsAssumption
    <3> QED
      BY <1>1, <3>1 DEF Flash
  <2>3. [ctl EXCEPT !.undone = TRUE] \in Knowledge
    BY <1>1 DEF Knowledge
  <2> QED
    BY <1>4, <1>17, <2>1, <2>2, <2>3 DEF ResetState, TypeInv, TypeOK
<1>18. CASE ResetPairings(t)
  <2>1. [flash EXCEPT !.paired = FALSE] \in Flash
    BY <1>1 DEF Flash
  <2>2. [Stranger EXCEPT !.lost = flash.key # Null, !.undone = TRUE] \in Knowledge
    BY StrangerType DEF Knowledge
  <2> QED
    BY <1>1, <1>4, <1>18, <2>1, <2>2 DEF ResetPairings, TypeInv, TypeOK
<1> QED
  BY <1>5, <1>6, <1>7, <1>8, <1>9, <1>10, <1>11, <1>12, <1>13, <1>14, <1>15, <1>16, <1>17, <1>18
  DEF TaskStep

\* The controller listens and reads.
LEMMA ControllerType ==
  TypeInv /\ (HearRegular \/ HearChange \/ \E h \in Handles : ReadReply(h)) => TypeInv'
<1> SUFFICES ASSUME TypeInv, HearRegular \/ HearChange \/ \E h \in Handles : ReadReply(h)
             PROVE  TypeInv'
  OBVIOUS
<1>1. /\ ctl \in Knowledge /\ adv.fields \in Fields /\ session \in [Handles -> Session]
      /\ firmware \in Revisions
  BY DEF TypeInv, TypeOK
<1>2. ASSUME NEW n \in 0..MaxState
      PROVE  Learns(n) \in Knowledge
  BY <1>1 DEF Learns, Knowledge
<1>3. adv.fields.state \in 0..MaxState /\ adv.fields.counter \in 0..(Counters - 1) \cup {Null}
  BY <1>1 DEF Fields
<1>4. CASE HearRegular
  <2> DEFINE k == Learns(adv.fields.state)
             c == IF flash.revision = firmware THEN adv.fields.counter ELSE Null
             r == IF flash.revision = firmware THEN firmware ELSE Null
  <2>1. /\ k \in Knowledge
        /\ c \in 0..(Counters - 1) \cup {Null}
        /\ r \in Revisions \cup {Null}
    BY <1>1, <1>2, <1>3
  <2>2. ctl' = [k EXCEPT !.counter = c, !.revision = r]
    BY <1>4 DEF HearRegular
  <2> HIDE DEF k, c, r
  <2>3. ctl' \in Knowledge
    BY <2>1, <2>2 DEF Knowledge
  <2> QED
    BY <1>4, <2>3 DEF HearRegular, TypeInv, TypeOK
<1>5. CASE HearChange
  BY <1>2, <1>3, <1>5 DEF HearChange, TypeInv, TypeOK
<1>6. CASE \E h \in Handles : ReadReply(h)
  <2>1. PICK h \in Handles : ReadReply(h)
    BY <1>6
  <2>2. session[h] \in Session /\ 0 \in 0..MaxState
    BY <1>1, ConstantsAssumption
  <2>3. [session[h] EXCEPT !.key = Null, !.state = 0] \in Session
    BY <2>2 DEF Session
  <2>4. session' \in [Handles -> Session]
    BY <1>1, <2>1, <2>3 DEF ReadReply
  <2>5. session[h].state \in 0..MaxState /\ session[h].key \in Keys \cup {Null}
    BY <2>2 DEF Session
  <2>6. ctl' \in Knowledge
    <3> DEFINE k == Learns(session[h].state)
    <3>1. k \in Knowledge
      BY <1>2, <2>5
    <3>2. ctl' = [k EXCEPT !.key = session[h].key, !.lost = FALSE] \/ ctl' = ctl
      BY <2>1 DEF ReadReply
    <3> HIDE DEF k
    <3>3. [k EXCEPT !.key = session[h].key, !.lost = FALSE] \in Knowledge
      BY <2>5, <3>1 DEF Knowledge
    <3> QED
      BY <1>1, <3>2, <3>3
  <2> QED
    BY <2>1, <2>4, <2>6 DEF ReadReply, TypeInv, TypeOK
<1> QED
  BY <1>4, <1>5, <1>6

LEMMA NextType == TypeInv /\ [Next]_vars => TypeInv'
<1> SUFFICES ASSUME TypeInv, [Next]_vars PROVE TypeInv'
  OBVIOUS
<1>1. CASE UNCHANGED vars
  BY <1>1 DEF vars, TypeInv, TypeOK
<1>2. CASE Next
  BY <1>2, BootType, TaskType, ConnectionType, RequestType, AdvertisingType, ControllerType
  DEF Next, HostStep
<1> QED
  BY <1>1, <1>2

(***************************************************************************)
(* Every variable keeps its type: the entries in flash, the connections,   *)
(* the advertisement, the locals of hk_notify and of the NimBLE task.      *)
(***************************************************************************)
THEOREM TypeCorrect == Spec => []TypeOK
<1>1. Init => TypeInv
  BY InitType
<1>2. TypeInv /\ [Next]_vars => TypeInv'
  BY NextType
<1>3. TypeInv => TypeOK
  BY DEF TypeInv
<1> QED
  BY <1>1, <1>2, <1>3, PTL DEF Spec

-----------------------------------------------------------------------------
(* Steps that neither advertise nor start or end anything: most of what    *)
(* hk_notify, hk_reset and the requests do.                                *)

Only(t) ==
  \A u \in Threads \ {t} : thread'[u].pc = thread[u].pc /\ thread'[u].fields = thread[u].fields

Quiet(t) ==
  /\ phase = "up"
  /\ thread[t].pc \notin Advertises
  /\ Only(t)
  /\ thread'[t].fields.kind = "regular" =>
       thread[t].fields.kind = "regular" /\ thread'[t].fields.counter = thread[t].fields.counter
  /\ UNCHANGED <<firmware, phase, conns, adv>>
  /\ flash'.counter = flash.counter /\ flash'.revision = flash.revision
  /\ ctl'.counter = Null \/ (ctl'.counter = ctl.counter /\ ctl'.revision = ctl.revision)

LEMMA OthersKeep ==
  ASSUME TypeInv, NEW t \in Threads, NEW l, Goes(t, l) \/ Disturbs(t, l)
  PROVE  thread'[t] = l /\ Only(t)
<1>1. thread \in [Threads -> Thread]
  BY DEF TypeInv, TypeOK
<1>2. CASE Goes(t, l)
  BY <1>1, <1>2 DEF Goes, Only
<1>3. CASE Disturbs(t, l)
  <2>1. \A u \in Threads : thread[u] \in Thread
    BY <1>1
  <2> QED
    BY <1>3, <2>1, DisturbedType DEF Disturbs, Only
<1> QED
  BY <1>2, <1>3

LEMMA QuietKeeps ==
  ASSUME Inv, NEW t \in Threads, Quiet(t)
  PROVE  AdvertisingInv' /\ PayloadInv' /\ CounterInv'
<1>1. AdvertisingInv'
  BY DEF Inv, Quiet, Only, AdvertisingInv
<1>2. PayloadInv'
  BY DEF Inv, Quiet, Only, PayloadInv, Current
<1>3. CounterInv'
  BY DEF Inv, Quiet, CounterInv
<1> QED
  BY <1>1, <1>2, <1>3

LEMMA IdleFields ==
  /\ Idle.pc = "idle" /\ Idle.fields = NoFields
  /\ NoFields.kind = "none"
BY DEF Idle, NoFields

LEMMA TaskQuiet ==
  ASSUME TypeInv, NEW t \in Tasks, TaskStep(t)
  PROVE  NotifyPanics(t) \/ Quiet(t)
<1> DEFINE l == thread[t]
<1>1. t \in Threads /\ l \in Thread /\ flash \in Flash /\ ctl \in Knowledge
  BY HostIsThread DEF TypeInv, TypeOK
<1>2. ASSUME NEW m, Goes(t, m) \/ Disturbs(t, m), phase = "up", l.pc \notin Advertises,
             m.fields.kind = "regular" =>
               l.fields.kind = "regular" /\ m.fields.counter = l.fields.counter,
             UNCHANGED <<firmware, phase, conns, adv>>,
             flash'.counter = flash.counter, flash'.revision = flash.revision,
             \/ ctl'.counter = Null
             \/ ctl'.counter = ctl.counter /\ ctl'.revision = ctl.revision
      PROVE  Quiet(t)
  BY <1>1, <1>2, OthersKeep DEF Quiet
<1>3. CASE Notify(t)
  <2>1. [Idle EXCEPT !.pc = "list", !.alone = TRUE].fields = NoFields
    BY IdleFields DEF Idle
  <2> QED
    BY <1>2, <1>3, <2>1, IdleFields DEF Notify, At, Advertises
<1>4. CASE NotifyList(t)
  <2>1. PICK m \in Thread : Goes(t, m) /\ m.fields = l.fields
    BY <1>4, ListBecomes
  <2> QED
    BY <1>2, <1>4, <2>1 DEF NotifyList, At, Advertises
<1>5. CASE NotifyVisit(t)
  <2>1. \A pc : [l EXCEPT !.pc = pc].fields = l.fields
    BY <1>1 DEF Thread
  <2> QED
    BY <1>2, <1>5, <2>1 DEF NotifyVisit, At, Advertises
<1>6. CASE StateRead(t)
  <2>1. [l EXCEPT !.pc = "write", !.value = Following(flash.state)].fields = l.fields
    BY <1>1 DEF Thread
  <2> QED
    BY <1>2, <1>6, <2>1 DEF StateRead, At, Advertises
<1>7. CASE StateWrite(t)
  <2>1. /\ AfterWrite(t).fields = l.fields
        /\ Disturbed(AfterWrite(t)).fields = l.fields
    BY <1>1 DEF AfterWrite, Disturbed, Thread
  <2>2. flash'.counter = flash.counter /\ flash'.revision = flash.revision
    BY <1>1, <1>7 DEF StateWrite, Flash
  <2>3. ctl'.counter = ctl.counter /\ ctl'.revision = ctl.revision
    BY <1>1, <1>7 DEF StateWrite, Knowledge
  <2> QED
    BY <1>2, <1>7, <2>1, <2>2, <2>3 DEF StateWrite, At, Advertises
<1>8. CASE Indicate(t)
  <2>1. PICK m \in Thread : Goes(t, m) /\ m.fields = l.fields
    BY <1>8, IndicateBecomes
  <2> QED
    BY <1>2, <1>8, <2>1 DEF Indicate, At, Advertises
<1>9. CASE NotifyMove(t)
  <2>1. \A next : [l EXCEPT !.pc = "visit", !.conn = next].fields = l.fields
    BY <1>1 DEF Thread
  <2> QED
    BY <1>2, <1>9, <2>1, IdleFields DEF NotifyMove, At, Advertises
<1>10. CASE KeyAge(t)
  <2>1. [l EXCEPT !.pc = "key"].fields = l.fields
    BY <1>1 DEF Thread
  <2> QED
    BY <1>2, <1>10, <2>1, IdleFields DEF KeyAge, At, Advertises
<1>11. CASE ReadKey(t)
  <2> DEFINE m == [l EXCEPT !.pc = "change", !.fields.key = flash.key]
  <2>1. m.fields.kind = l.fields.kind /\ m.fields.counter = l.fields.counter
    BY <1>1 DEF Thread, Fields
  <2> QED
    BY <1>2, <1>11, <2>1 DEF ReadKey, At, Advertises
<1>12. CASE AdvertiseChange(t)
  <2> DEFINE m == [l EXCEPT !.pc = "stop", !.fields.kind = "change", !.fields.state = flash.state]
  <2>1. m.fields.kind = "change"
    BY <1>1 DEF Thread, Fields
  <2> QED
    BY <1>2, <1>12, <2>1 DEF AdvertiseChange, At, Advertises
<1>13. CASE Reset(t)
  <2>1. [Idle EXCEPT !.pc = "reset_state"].fields = NoFields
    BY IdleFields DEF Idle
  <2> QED
    BY <1>2, <1>13, <2>1, IdleFields DEF Reset, At, Advertises
<1>14. CASE ResetState(t)
  <2>1. [Idle EXCEPT !.pc = "reset_pairings"].fields = NoFields
    BY IdleFields DEF Idle
  <2>2. flash'.counter = flash.counter /\ flash'.revision = flash.revision
    BY <1>1, <1>14 DEF ResetState, Flash
  <2>3. ctl'.counter = ctl.counter /\ ctl'.revision = ctl.revision
    BY <1>1, <1>14 DEF ResetState, Knowledge
  <2> QED
    BY <1>2, <1>14, <2>1, <2>2, <2>3, IdleFields DEF ResetState, At, Advertises
<1>15. CASE ResetPairings(t)
  <2>1. flash'.counter = flash.counter /\ flash'.revision = flash.revision
    BY <1>1, <1>15 DEF ResetPairings, Flash
  <2>2. ctl'.counter = Null
    BY <1>15 DEF ResetPairings, Stranger
  <2> QED
    BY <1>2, <1>15, <2>1, <2>2, IdleFields DEF ResetPairings, At, Advertises
<1> QED
  BY <1>3, <1>4, <1>5, <1>6, <1>7, <1>8, <1>9, <1>10, <1>11, <1>12, <1>13, <1>14, <1>15
  DEF TaskStep

LEMMA RequestQuiet ==
  ASSUME TypeInv,
         \/ GetKey \/ CreateKey \/ WriteKey \/ WriteKeyState \/ Reply
         \/ \E h \in Handles : Pair(h) \/ Verify(h)
         \/ \E h \in Handles, again \in BOOLEAN : Configure(h, again)
  PROVE  Quiet(Host)
<1> DEFINE l == thread[Host]
<1>1. Host \in Threads /\ l \in Thread /\ flash \in Flash /\ ctl \in Knowledge
  BY HostIsThread DEF TypeInv, TypeOK
<1>2. ASSUME NEW m, Goes(Host, m) \/ Disturbs(Host, m), phase = "up", l.pc \notin Advertises,
             m.fields.kind = "regular" =>
               l.fields.kind = "regular" /\ m.fields.counter = l.fields.counter,
             UNCHANGED <<firmware, phase, conns, adv>>,
             flash'.counter = flash.counter, flash'.revision = flash.revision,
             ctl'.counter = ctl.counter, ctl'.revision = ctl.revision
      PROVE  Quiet(Host)
  BY <1>1, <1>2, OthersKeep DEF Quiet
<1>3. CreateFails.fields = l.fields \/ CreateFails.fields = NoFields
  BY <1>1, IdleFields DEF CreateFails, Thread
<1>4. CASE GetKey
  <2> DEFINE m1 == [l EXCEPT !.pc = IF l.again THEN "create" ELSE "reply", !.again = FALSE,
                             !.fields.key = flash.key]
             m2 == [l EXCEPT !.pc = "create"]
  <2>1. m1.fields.kind = l.fields.kind /\ m1.fields.counter = l.fields.counter
    BY <1>1 DEF Thread, Fields
  <2>2. m2.fields = l.fields
    BY <1>1 DEF Thread
  <2>3. Goes(Host, m1) \/ Goes(Host, m2)
    BY <1>4 DEF GetKey
  <2> HIDE DEF m1, m2
  <2> QED
    BY <1>2, <1>4, <2>1, <2>2, <2>3 DEF GetKey, At, Advertises
<1>5. CASE CreateKey
  <2>1. [l EXCEPT !.pc = "key_write", !.value = flash.state].fields = l.fields
    BY <1>1 DEF Thread
  <2> QED
    BY <1>2, <1>5, <2>1 DEF CreateKey, At, Advertises
<1>6. CASE WriteKey
  <2>1. [l EXCEPT !.pc = "state_write"].fields = l.fields
    BY <1>1 DEF Thread
  <2>2. flash'.counter = flash.counter /\ flash'.revision = flash.revision
    BY <1>1, <1>6 DEF WriteKey, Flash
  <2>3. ctl'.counter = ctl.counter /\ ctl'.revision = ctl.revision
    BY <1>1, <1>6 DEF WriteKey, Knowledge
  <2> QED
    BY <1>2, <1>3, <1>6, <2>1, <2>2, <2>3, IdleFields DEF WriteKey, At, Advertises
<1>7. CASE WriteKeyState
  <2> DEFINE m == [l EXCEPT !.pc = IF l.again THEN "create" ELSE "reply", !.again = FALSE,
                            !.value = 0, !.fields.key = Created]
  <2>1. m.fields.kind = l.fields.kind /\ m.fields.counter = l.fields.counter
    BY <1>1 DEF Thread, Fields
  <2>2. flash'.counter = flash.counter /\ flash'.revision = flash.revision
    BY <1>1, <1>7 DEF WriteKeyState, Flash
  <2>3. Disturbs(Host, m) \/ Goes(Host, CreateFails)
    BY <1>7 DEF WriteKeyState
  <2> HIDE DEF m
  <2> QED
    BY <1>2, <1>3, <1>7, <2>1, <2>2, <2>3, IdleFields DEF WriteKeyState, At, Advertises
<1>8. CASE Reply
  BY <1>2, <1>8, IdleFields DEF Reply, At, Advertises
<1>9. CASE \E h \in Handles : Pair(h)
  <2>1. flash'.counter = flash.counter /\ flash'.revision = flash.revision
    BY <1>1, <1>9 DEF Pair, Flash
  <2> QED
    BY <1>9, <2>1 DEF Pair, At, Advertises, Quiet, Only
<1>10. CASE \E h \in Handles : Verify(h)
  BY <1>2, <1>10, IdleFields DEF Verify, At, Advertises
<1>11. CASE \E h \in Handles, again \in BOOLEAN : Configure(h, again)
  <2>1. PICK h \in Handles, again \in BOOLEAN : Configure(h, again)
    BY <1>11
  <2>2. \A n : [Idle EXCEPT !.pc = "get", !.conn = h, !.again = again,
                           !.fields.state = n].fields.kind = "none"
    BY DEF Idle, NoFields
  <2> DEFINE n == IF Secure(h) THEN flash.state ELSE 0
             m == [Idle EXCEPT !.pc = "get", !.conn = h, !.again = again, !.fields.state = n]
  <2>3. Goes(Host, m)
    BY <2>1 DEF Configure
  <2> HIDE DEF n
  <2>4. m.fields.kind = "none"
    BY <2>2
  <2> HIDE DEF m
  <2> QED
    BY <1>2, <2>1, <2>3, <2>4 DEF Configure, At, Advertises
<1> QED
  BY <1>4, <1>5, <1>6, <1>7, <1>8, <1>9, <1>10, <1>11

-----------------------------------------------------------------------------
(* The other steps.                                                        *)

\* Whatever the controller knew, a restart leaves it consistent.
LEMMA RestartKeeps ==
  ASSUME Inv, Crash \/ Update \/ \E t \in Threads : NotifyPanics(t)
  PROVE  AdvertisingInv' /\ PayloadInv' /\ CounterInv'
<1>1. Restarts /\ ctl \in Knowledge
  BY DEF Crash, Update, NotifyPanics, Inv, TypeInv, TypeOK
<1>2. AdvertisingInv'
  BY <1>1 DEF Restarts, AdvertisingInv
<1>3. PayloadInv'
  BY <1>1, IdleFields DEF Restarts, PayloadInv, Current
<1>4. phase = "counter" => ctl'.counter = Null
  BY <1>1 DEF Restarts, Misled, Knowledge
<1>5. phase # "counter" => ctl'.counter = ctl.counter /\ ctl'.revision = ctl.revision
  BY <1>1 DEF Restarts, Knowledge
<1>6. phase # "revision"
  BY DEF Crash, Update, NotifyPanics, Inv, PayloadInv
<1>7. phase \in {"revision", "counter", "state", "next", "up"}
  BY DEF Inv, TypeInv, TypeOK
<1>8. ASSUME firmware' = firmware PROVE CounterInv'
  BY <1>1, <1>4, <1>5, <1>6, <1>7, <1>8 DEF Restarts, Inv, CounterInv
<1>9. ASSUME firmware' # firmware PROVE CounterInv'
  <2>1. Update
    BY <1>9 DEF Crash, NotifyPanics
  <2> QED
    BY <1>1, <1>5, <2>1 DEF Update, Restarts, Inv, CounterInv
<1> QED
  BY <1>2, <1>3, <1>8, <1>9

LEMMA BootKeeps ==
  ASSUME Inv, Boot
  PROVE  AdvertisingInv' /\ PayloadInv' /\ CounterInv'
<1>1. /\ flash \in Flash /\ ctl \in Knowledge /\ firmware \in Revisions
      /\ Host \in Threads /\ thread \in [Threads -> Thread]
  BY HostIsThread DEF Inv, TypeInv, TypeOK
<1>2. /\ Misled.counter = Null
      /\ [ctl EXCEPT !.undone = TRUE].counter = ctl.counter
      /\ [ctl EXCEPT !.undone = TRUE].revision = ctl.revision
  BY <1>1 DEF Misled, Knowledge
<1>3. phase # "up" /\ adv' = adv
  BY DEF Boot, SameRevision, NewRevision, WriteCounter, InitState, InitNext
<1>4. adv.fields.kind = "none" /\ \A t \in Threads : thread[t].pc = "idle" /\ thread[t].fields.kind = "none"
  BY <1>3 DEF Inv, PayloadInv
<1>5. CASE SameRevision
  <2>1. phase' = "state" /\ UNCHANGED <<flash, firmware, adv, thread>>
    BY <1>5 DEF SameRevision
  <2>2. flash.revision = firmware \/ ctl' = Misled
    BY <1>5 DEF SameRevision
  <2>3. ctl' = ctl \/ ctl' = Misled
    BY <1>5 DEF SameRevision
  <2> QED
    BY <1>2, <1>4, <1>5, <2>1, <2>2, <2>3
    DEF SameRevision, Inv, AdvertisingInv, PayloadInv, Current, CounterInv
<1>6. CASE NewRevision
  <2> DEFINE m == [Idle EXCEPT !.fields.counter = NextCounter]
  <2>1. CASE /\ flash' = [flash EXCEPT !.revision = firmware]
             /\ Goes(Host, m)
             /\ phase' = "counter"
             /\ UNCHANGED ctl
    <3>1. m.pc = "idle" /\ m.fields.kind = "none" /\ m.fields.counter = NextCounter
      BY DEF Idle, NoFields
    <3>2. thread'[Host] = m /\ Only(Host)
      BY <1>1, <2>1, OthersKeep DEF Inv
    <3>3. \A t \in Threads : thread'[t].pc = "idle" /\ thread'[t].fields.kind = "none"
      BY <1>4, <3>1, <3>2 DEF Only
    <3>4. flash'.revision = firmware
      BY <1>1, <2>1 DEF Flash
    <3>5. ctl.counter # Null => NextCounter # ctl.counter
      <4>1. phase = "revision" /\ flash.revision # firmware
        BY <1>6 DEF NewRevision, Equal
      <4>2. ctl.counter # Null => /\ flash.counter = ctl.counter /\ flash.revision = ctl.revision
                                  /\ ctl.revision # Null
        BY <4>1 DEF Inv, CounterInv
      <4> QED
        BY <1>1, <4>2, NextCounterType
    <3>6. firmware' = firmware
      BY <1>6 DEF NewRevision
    <3> HIDE DEF m
    <3>7. CounterInv'
      BY <2>1, <3>1, <3>2, <3>4, <3>5, <3>6 DEF Inv, CounterInv
    <3> QED
      BY <1>3, <1>4, <2>1, <3>3, <3>7 DEF AdvertisingInv, PayloadInv, Current
  <2>2. CASE ctl' = Misled /\ phase' = "state" /\ UNCHANGED <<flash, thread>>
    BY <1>2, <1>3, <1>4, <2>2 DEF AdvertisingInv, PayloadInv, Current, CounterInv
  <2> QED
    BY <1>6, <2>1, <2>2 DEF NewRevision
<1>7. CASE WriteCounter
  <2>1. thread'[Host] = Idle /\ Only(Host)
    BY <1>1, <1>7, OthersKeep DEF WriteCounter, Inv
  <2>2. \A t \in Threads : thread'[t].pc = "idle" /\ thread'[t].fields.kind = "none"
    BY <1>4, <2>1, IdleFields DEF Only
  <2>3. phase = "counter" /\ phase' = "state" /\ firmware' = firmware
    BY <1>7 DEF WriteCounter
  <2>4. CounterInv'
    <3>1. CASE flash' = [flash EXCEPT !.counter = thread[Host].fields.counter] /\ UNCHANGED ctl
      <4>1. flash'.counter = thread[Host].fields.counter /\ flash'.revision = flash.revision
        BY <1>1, <3>1 DEF Flash
      <4> QED
        BY <2>3, <3>1, <4>1 DEF Inv, CounterInv
    <3>2. CASE ctl' = Misled
      BY <1>2, <3>2 DEF CounterInv
    <3> QED
      BY <1>7, <3>1, <3>2 DEF WriteCounter
  <2> QED
    BY <1>3, <1>4, <2>2, <2>3, <2>4 DEF AdvertisingInv, PayloadInv, Current
<1>8. CASE InitState
  <2>1. flash'.counter = flash.counter /\ flash'.revision = flash.revision
    BY <1>1, <1>8 DEF InitState, Flash
  <2> QED
    BY <1>3, <1>4, <1>8, <2>1
    DEF InitState, Inv, AdvertisingInv, PayloadInv, Current, CounterInv
<1>9. CASE InitNext
  <2> DEFINE m == [Idle EXCEPT !.pc = "regular"]
  <2>1. m.pc = "regular" /\ m.fields.kind = "none"
    BY DEF Idle, NoFields
  <2>2. thread'[Host] = m /\ Only(Host)
    BY <1>1, <1>9, OthersKeep DEF InitNext, Inv
  <2>3. \A t \in Threads : thread'[t].fields.kind = "none"
    BY <1>4, <2>1, <2>2 DEF Only
  <2>4. flash'.counter = flash.counter /\ flash'.revision = flash.revision
    BY <1>1, <1>9 DEF InitNext, Flash
  <2>5. ctl'.counter = ctl.counter /\ ctl'.revision = ctl.revision
    BY <1>2, <1>9 DEF InitNext
  <2>6. AdvertisingInv'
    BY <1>1, <2>1, <2>2 DEF AdvertisingInv, Advertises
  <2>7. CounterInv'
    BY <1>9, <2>4, <2>5 DEF InitNext, Inv, CounterInv
  <2> QED
    BY <1>3, <1>4, <1>9, <2>3, <2>6, <2>7 DEF InitNext, PayloadInv, Current
<1> QED
  BY <1>5, <1>6, <1>7, <1>8, <1>9 DEF Boot

\* The advertisement and the connections, which stop and start it.
LEMMA AdvertisementKeeps ==
  ASSUME Inv,
         \/ AdvertiseRegular
         \/ \E t \in Threads : AdvStop(t) \/ AdvSet(t) \/ AdvStart(t)
         \/ \E h \in Handles : Connect(h) \/ Disconnect(h)
  PROVE  AdvertisingInv' /\ PayloadInv' /\ CounterInv'
<1>1. /\ TypeInv /\ Host \in Threads /\ conns \in Seq(Handles)
      /\ \A t \in Threads : thread[t] \in Thread
      /\ adv \in [on : BOOLEAN, fields : Fields]
  BY HostIsThread DEF Inv, TypeInv, TypeOK
<1>2. phase = "up" /\ UNCHANGED <<phase, flash, firmware, ctl>>
  BY DEF AdvertiseRegular, AdvStop, AdvSet, AdvStart, Connect, Disconnect, At
<1>3. CounterInv'
  BY <1>2 DEF Inv, CounterInv
<1>4. ASSUME NEW t \in Threads, NEW m, Goes(t, m) \/ Disturbs(t, m),
             Current(m.fields), Current(adv'.fields)
      PROVE  PayloadInv'
  BY <1>1, <1>2, <1>4, OthersKeep DEF Inv, PayloadInv, Current, Only
<1>5. ASSUME NEW t \in Threads, NEW m, Goes(t, m) \/ Disturbs(t, m), m.pc \in Advertises
      PROVE  AdvertisingInv'
  BY <1>1, <1>5, OthersKeep DEF AdvertisingInv
<1>6. /\ Current(Idle.fields) /\ Current(NoFields) /\ Current(adv.fields)
      /\ \A t \in Threads : Current(thread[t].fields) /\ Current(Silent(t).fields)
  BY <1>1, IdleFields, SilentType DEF Inv, TypeInv, PayloadInv, Current
<1>7. CASE AdvertiseRegular
  <2> DEFINE m == [Idle EXCEPT
                     !.pc = "stop",
                     !.fields = [kind |-> "regular", state |-> flash.state,
                                 counter |-> flash.counter, key |-> Null]]
  <2>1. m.pc \in Advertises /\ Current(m.fields)
    BY DEF Idle, Advertises, Current
  <2>2. CASE flash.counter = Null
    <3>1. Goes(Host, Idle) /\ UNCHANGED adv
      BY <1>7, <2>2 DEF AdvertiseRegular
    <3> QED
      BY <1>1, <1>2, <1>3, <1>4, <1>6, <2>2, <3>1 DEF AdvertisingInv
  <2>3. CASE flash.counter # Null
    <3>1. Goes(Host, m) /\ UNCHANGED adv
      BY <1>7, <2>3 DEF AdvertiseRegular
    <3> HIDE DEF m
    <3> QED
      BY <1>1, <1>3, <1>4, <1>5, <1>6, <2>1, <3>1
  <2> QED
    BY <2>2, <2>3
<1>8. CASE \E t \in Threads : AdvStop(t)
  <2>1. PICK t \in Threads : AdvStop(t)
    BY <1>8
  <2> DEFINE m == [thread[t] EXCEPT !.pc = "set"]
  <2>2. m.pc \in Advertises /\ Current(m.fields)
    BY <1>1, <1>6 DEF Thread, Advertises
  <2>3. Disturbs(t, m) /\ adv' = Silent(t)
    BY <2>1 DEF AdvStop
  <2> HIDE DEF m
  <2> QED
    BY <1>3, <1>4, <1>5, <1>6, <2>2, <2>3
<1>9. CASE \E t \in Threads : AdvSet(t)
  <2>1. PICK t \in Threads : AdvSet(t)
    BY <1>9
  <2> DEFINE m == [thread[t] EXCEPT !.pc = "start", !.fields = NoFields]
  <2>2. m.pc \in Advertises /\ Current(m.fields)
    BY <1>1, <1>6 DEF Thread, Advertises
  <2>3. Disturbs(t, m)
    BY <2>1 DEF AdvSet
  <2>4. Current(adv'.fields)
    BY <1>1, <1>6, <2>1 DEF AdvSet
  <2> HIDE DEF m
  <2> QED
    BY <1>3, <1>4, <1>5, <2>2, <2>3, <2>4
<1>10. CASE \E t \in Threads : AdvStart(t)
  <2>1. PICK t \in Threads : AdvStart(t)
    BY <1>10
  <2>2. Disturbs(t, Idle) /\ conns' = conns
    BY <2>1 DEF AdvStart
  <2>3. adv'.on \/ conns # <<>>
    BY <1>1, <2>1 DEF AdvStart
  <2>4. Current(adv'.fields)
    BY <1>1, <1>6, <2>1 DEF AdvStart
  <2>5. AdvertisingInv'
    BY <2>2, <2>3 DEF AdvertisingInv
  <2> QED
    BY <1>3, <1>4, <1>6, <2>2, <2>4, <2>5
<1>11. CASE \E h \in Handles : Connect(h)
  <2>1. PICK h \in Handles : Connect(h)
    BY <1>11
  <2>2. conns' # <<>>
    BY <1>1, <2>1 DEF Connect
  <2>3. Disturbs(Host, Idle) /\ adv' = Silent(Host)
    BY <2>1 DEF Connect
  <2>4. AdvertisingInv'
    BY <2>2 DEF AdvertisingInv
  <2> QED
    BY <1>1, <1>3, <1>4, <1>6, <2>3, <2>4
<1>12. CASE \E h \in Handles : Disconnect(h)
  <2>1. AfterDisconnect.pc \in Advertises /\ Current(AfterDisconnect.fields)
    BY IdleFields DEF AfterDisconnect, Idle, Advertises, Current
  <2>2. Disturbs(Host, AfterDisconnect) /\ adv' = adv
    BY <1>12 DEF Disconnect
  <2> QED
    BY <1>1, <1>3, <1>4, <1>5, <1>6, <2>1, <2>2
<1> QED
  BY <1>7, <1>8, <1>9, <1>10, <1>11, <1>12

LEMMA ControllerKeeps ==
  ASSUME Inv, HearRegular \/ HearChange \/ \E h \in Handles : ReadReply(h)
  PROVE  AdvertisingInv' /\ PayloadInv' /\ CounterInv'
<1>1. UNCHANGED <<flash, firmware, phase, conns, adv, thread>>
  BY DEF HearRegular, HearChange, ReadReply
<1>2. AdvertisingInv' /\ PayloadInv'
  BY <1>1 DEF Inv, AdvertisingInv, PayloadInv, Current
<1>3. ctl \in Knowledge /\ firmware \in Revisions
  BY DEF Inv, TypeInv, TypeOK
<1>4. \A n : /\ Learns(n).counter = ctl.counter
             /\ Learns(n).revision = ctl.revision
  BY <1>3 DEF Learns, Knowledge
<1>5. CASE HearRegular
  <2>1. /\ ctl'.counter = IF flash.revision = firmware THEN adv.fields.counter ELSE Null
        /\ ctl'.revision = IF flash.revision = firmware THEN firmware ELSE Null
    BY <1>3, <1>5 DEF HearRegular, Learns, Knowledge
  <2>2. phase = "up" /\ adv.fields.counter = flash.counter
    BY <1>5 DEF HearRegular, Inv, PayloadInv, Current
  <2> QED
    BY <1>1, <1>2, <1>3, <2>1, <2>2, ConstantsAssumption DEF CounterInv
<1>6. CASE HearChange \/ \E h \in Handles : ReadReply(h)
  <2>1. ctl'.counter = ctl.counter /\ ctl'.revision = ctl.revision
    BY <1>3, <1>4, <1>6 DEF HearChange, ReadReply, Learns, Knowledge
  <2> QED
    BY <1>1, <1>2, <2>1 DEF Inv, CounterInv
<1> QED
  BY <1>5, <1>6

-----------------------------------------------------------------------------

LEMMA InitInv == Init => Inv
<1> SUFFICES ASSUME Init PROVE Inv
  OBVIOUS
<1>1. TypeInv
  BY InitType
<1>2. AdvertisingInv /\ PayloadInv
  BY IdleFields DEF Init, AdvertisingInv, PayloadInv, Current
<1>3. CounterInv
  BY DEF Init, Stranger, CounterInv
<1> QED
  BY <1>1, <1>2, <1>3 DEF Inv

LEMMA NextInv == Inv /\ [Next]_vars => Inv'
<1> SUFFICES ASSUME Inv, [Next]_vars PROVE Inv'
  OBVIOUS
<1>1. TypeInv'
  BY NextType DEF Inv
<1>2. CASE UNCHANGED vars
  BY <1>1, <1>2 DEF vars, Inv, AdvertisingInv, PayloadInv, Current, CounterInv
<1>3. CASE \E t \in Tasks : TaskStep(t)
  BY <1>1, <1>3, TaskQuiet, QuietKeeps, RestartKeeps, HostIsThread DEF Inv
<1>4. CASE HostStep
  <2>1. CASE AdvertiseRegular \/ \E h \in Handles : Connect(h) \/ Disconnect(h)
    BY <1>1, <2>1, AdvertisementKeeps DEF Inv
  <2>2. CASE \/ GetKey \/ CreateKey \/ WriteKey \/ WriteKeyState \/ Reply
             \/ \E h \in Handles : Pair(h) \/ Verify(h)
             \/ \E h \in Handles, again \in BOOLEAN : Configure(h, again)
    BY <1>1, <2>2, RequestQuiet, QuietKeeps, HostIsThread DEF Inv
  <2> QED
    BY <1>4, <2>1, <2>2 DEF HostStep
<1>5. CASE Boot
  BY <1>1, <1>5, BootKeeps DEF Inv
<1>6. CASE Crash \/ Update
  BY <1>1, <1>6, RestartKeeps DEF Inv
<1>7. CASE \E t \in Threads : AdvStop(t) \/ AdvSet(t) \/ AdvStart(t)
  BY <1>1, <1>7, AdvertisementKeeps DEF Inv
<1>8. CASE HearRegular \/ HearChange \/ \E h \in Handles : ReadReply(h)
  BY <1>1, <1>8, ControllerKeeps DEF Inv
<1> QED
  BY <1>2, <1>3, <1>4, <1>5, <1>6, <1>7, <1>8 DEF Next

(***************************************************************************)
(* An accessory without connections and without a task at work advertises, *)
(* for any number of tasks that notify while connections come and go.      *)
(***************************************************************************)
THEOREM AdvertisingCorrect == Spec => []AdvertisesWhenFree
<1>1. Init => Inv
  BY InitInv
<1>2. Inv /\ [Next]_vars => Inv'
  BY NextInv
<1>3. Inv => AdvertisesWhenFree
  BY DEF Inv, AdvertisingInv, Advertises, AdvertisesWhenFree
<1> QED
  BY <1>1, <1>2, <1>3, PTL DEF Spec

(***************************************************************************)
(* An unchanged configuration counter means an unchanged firmware, for any *)
(* number of revisions, restarts and failed writes, and any modulus of the *)
(* counter but one.                                                        *)
(***************************************************************************)
THEOREM CounterCorrect == Spec => []CounterFollowsRevision
<1>1. Init => Inv
  BY InitInv
<1>2. Inv /\ [Next]_vars => Inv'
  BY NextInv
<1>3. Inv => CounterFollowsRevision
  BY DEF Inv, CounterInv, CounterFollowsRevision
<1> QED
  BY <1>1, <1>2, <1>3, PTL DEF Spec

-----------------------------------------------------------------------------
(* The global state differs from what the controller saw.                  *)

(***************************************************************************)
(* Unless it was once set back or not written, the global state exists     *)
(* where a controller saw one, and is not so far ahead of it that the next *)
(* number meets what it saw; so it differs after a restart.                *)
(***************************************************************************)
NoticeInv ==
  ~ctl.undone =>
    /\ phase = "up" \/ ctl.seen # 0 => flash.state # 0
    /\ phase # "up" => SeenLately
    /\ phase = "up" /\ ctl.reboot => flash.state # ctl.seen

\* The next number is new if the numbers before it have not come around.
LEMMA FollowingIsNew ==
  ASSUME NEW s \in 1..MaxState, NEW n \in 0..MaxState,
         n # 0 => ((s - n) % MaxState) + 1 < MaxState
  PROVE  Following(s) # n /\ Following(s) \in 1..MaxState
<1>1. MaxState \in Nat \ {0} /\ MaxState > 1
  BY ConstantsAssumption
<1>2. Following(s) \in 1..MaxState
  BY <1>1 DEF Following
<1>3. ASSUME s = MaxState, n = 1
      PROVE  (s - n) % MaxState = MaxState - 1
  <2>1. MaxState - 1 \in 0..(MaxState - 1)
    BY <1>1
  <2>2. (MaxState - 1) % MaxState = MaxState - 1
    BY <1>1, <2>1, SmallRemainder
  <2> QED
    BY <1>3, <2>2
<1>4. ASSUME n = s + 1
      PROVE  (s - n) % MaxState = MaxState - 1
  <2>1. s - n = -1 /\ -1 \in Int /\ MaxState - 1 \in 0..(MaxState - 1)
    BY <1>1, <1>4
  <2>2. -1 = ((-1) * MaxState) + (MaxState - 1)
    BY <1>1
  <2>3. (-1) % MaxState = MaxState - 1
    BY <1>1, <2>1, <2>2, RemainderUnique
  <2> QED
    BY <2>1, <2>3
<1>5. Following(s) # n
  <2>1. CASE s = MaxState
    <3>1. SUFFICES ASSUME n = 1 PROVE FALSE
      BY <1>1, <2>1 DEF Following
    <3>2. (s - n) % MaxState = MaxState - 1 /\ ((s - n) % MaxState) + 1 < MaxState
      BY <1>3, <2>1, <3>1
    <3> QED
      BY <1>1, <3>2
  <2>2. CASE s # MaxState
    <3>1. SUFFICES ASSUME n = s + 1 PROVE FALSE
      BY <1>1, <2>2 DEF Following
    <3>2. (s - n) % MaxState = MaxState - 1 /\ ((s - n) % MaxState) + 1 < MaxState
      BY <1>4, <3>1
    <3> QED
      BY <1>1, <3>2
  <2> QED
    BY <2>1, <2>2
<1> QED
  BY <1>2, <1>5

LEMMA NumberTypes ==
  ASSUME TypeInv
  PROVE  /\ flash.state \in 0..MaxState /\ ctl.seen \in 0..MaxState
         /\ ctl.undone \in BOOLEAN /\ ctl.reboot \in BOOLEAN
         /\ \A n \in 0..MaxState : (flash.state - n) % MaxState \in 0..(MaxState - 1)
<1>1. flash.state \in 0..MaxState /\ ctl.seen \in 0..MaxState
  BY DEF TypeInv, TypeOK, Flash, Knowledge
<1>2. MaxState \in Nat \ {0}
  BY ConstantsAssumption
<1>3. ASSUME NEW n \in 0..MaxState
      PROVE  (flash.state - n) % MaxState \in 0..(MaxState - 1)
  <2>1. flash.state - n \in Int
    BY <1>1
  <2> QED
    BY <1>2, <2>1, Remainder
<1> QED
  BY <1>1, <1>3 DEF TypeInv, TypeOK, Knowledge

\* The bounds keep every number that is still known apart from the next one.
LEMMA ChangeIsNew ==
  ASSUME TypeInv, MayChange, flash.state # 0
  PROVE  \A n \in Offered \cup {ctl.seen} : n \in 0..MaxState => Following(flash.state) # n
<1> SUFFICES ASSUME NEW n \in Offered \cup {ctl.seen}, n \in 0..MaxState
             PROVE  Following(flash.state) # n
  OBVIOUS
<1>1. n # 0 => (flash.state - n) % MaxState < MaxUnseen
  BY DEF MayChange
<1>2. (flash.state - n) % MaxState \in Int /\ flash.state \in 1..MaxState
  BY NumberTypes
<1>3. n # 0 => ((flash.state - n) % MaxState) + 1 < MaxState
  BY <1>1, <1>2, ConstantsAssumption
<1> QED
  BY <1>2, <1>3, FollowingIsNew

LEMMA BootIsNew ==
  ASSUME TypeInv, SeenLately, ctl.seen # 0 => flash.state # 0
  PROVE  Following(flash.state) # ctl.seen /\ Following(flash.state) # 0
<1>1. flash.state \in 0..MaxState /\ ctl.seen \in 0..MaxState
  BY NumberTypes
<1>2. CASE flash.state = 0
  BY <1>2, ConstantsAssumption DEF Following
<1>3. CASE flash.state # 0
  <2>1. (flash.state - ctl.seen) % MaxState \in Int /\ flash.state \in 1..MaxState
    BY <1>3, NumberTypes
  <2>2. ctl.seen # 0 => ((flash.state - ctl.seen) % MaxState) + 1 < MaxState
    BY <2>1, ConstantsAssumption DEF SeenLately
  <2>3. Following(flash.state) # ctl.seen /\ Following(flash.state) \in 1..MaxState
    BY <1>1, <2>1, <2>2, FollowingIsNew
  <2> QED
    BY <2>3
<1> QED
  BY <1>2, <1>3

\* Steps that do not touch the number nor what the controller knows of it.
Unnoticed ==
  \/ ctl'.undone
  \/ /\ phase = "up" <=> phase' = "up"
     /\ flash'.state = flash.state
     /\ ctl'.seen = ctl.seen /\ ctl'.reboot = ctl.reboot /\ ctl'.undone = ctl.undone

LEMMA UnnoticedKeeps == NoticeInv /\ Unnoticed => NoticeInv'
BY DEF NoticeInv, Unnoticed, SeenLately

LEMMA RestartNotice ==
  ASSUME TypeInv, NoticeInv, Crash \/ Update \/ \E t \in Threads : NotifyPanics(t)
  PROVE  NoticeInv'
<1>1. Restarts /\ ctl \in Knowledge /\ phase' # "up" /\ flash' = flash
  BY DEF Crash, Update, NotifyPanics, Restarts, TypeInv, TypeOK
<1>2. ctl'.seen = ctl.seen /\ ctl'.undone = ctl.undone
  BY <1>1 DEF Restarts, Misled, Knowledge
<1>3. SeenLately
  <2>1. CASE Update
    <3>1. ctl.seen = flash.state
      BY <2>1 DEF Update
    <3>2. flash.state - ctl.seen = 0 /\ 0 % MaxState = 0 /\ 0 <= MaxUnseen
      <4>1. 0 \in 0..(MaxState - 1) /\ MaxState \in Nat \ {0}
        BY ConstantsAssumption
      <4> QED
        BY <3>1, <4>1, NumberTypes, SmallRemainder, ConstantsAssumption
    <3> QED
      BY <3>2 DEF SeenLately
  <2> QED
    BY <2>1 DEF Crash, MayRestart, NotifyPanics
<1> QED
  BY <1>1, <1>2, <1>3 DEF NoticeInv, SeenLately

LEMMA BootNotice ==
  ASSUME TypeInv, NoticeInv, Boot
  PROVE  NoticeInv'
<1>1. flash \in Flash /\ ctl \in Knowledge
  BY DEF TypeInv, TypeOK
<1>2. Misled.seen = ctl.seen /\ Misled.reboot = ctl.reboot /\ Misled.undone = ctl.undone
  BY <1>1 DEF Misled, Knowledge
<1>3. CASE SameRevision
  BY <1>2, <1>3, UnnoticedKeeps DEF SameRevision, Unnoticed
<1>4. CASE NewRevision
  <2>1. flash'.state = flash.state
    BY <1>1, <1>4 DEF NewRevision, Flash
  <2> QED
    BY <1>2, <1>4, <2>1, UnnoticedKeeps DEF NewRevision, Unnoticed
<1>5. CASE WriteCounter
  <2>1. flash'.state = flash.state
    BY <1>1, <1>5 DEF WriteCounter, Flash
  <2> QED
    BY <1>2, <1>5, <2>1, UnnoticedKeeps DEF WriteCounter, Unnoticed
<1>6. CASE InitState
  <2>1. ctl' = ctl /\ phase = "state" /\ phase' = "next"
    BY <1>6 DEF InitState
  <2>2. flash.state # 0 => flash'.state = flash.state
    BY <1>1, <1>6 DEF InitState, Flash
  <2> QED
    BY <2>1, <2>2 DEF NoticeInv, SeenLately
<1>7. CASE InitNext
  <2>1. phase = "next" /\ phase' = "up"
    BY <1>7 DEF InitNext
  <2>2. CASE ctl' = [ctl EXCEPT !.undone = TRUE]
    BY <1>1, <2>2 DEF NoticeInv, Knowledge
  <2>3. CASE flash' = [flash EXCEPT !.state = BootState] /\ ctl' = ctl
    <3>1. flash'.state = Following(flash.state)
      BY <1>1, <2>3 DEF Flash, BootState
    <3> QED
      BY <2>1, <2>3, <3>1, BootIsNew DEF NoticeInv
  <2> QED
    BY <1>7, <2>2, <2>3 DEF InitNext
<1> QED
  BY <1>3, <1>4, <1>5, <1>6, <1>7 DEF Boot

LEMMA TaskNotice ==
  ASSUME TypeInv, NoticeInv, NEW t \in Tasks, TaskStep(t), ~NotifyPanics(t)
  PROVE  NoticeInv'
<1>1. flash \in Flash /\ ctl \in Knowledge /\ t \in Threads
  BY HostIsThread DEF TypeInv, TypeOK
<1>2. CASE UNCHANGED <<flash, phase, ctl>>
  BY <1>2, UnnoticedKeeps DEF Unnoticed
<1>3. CASE StateWrite(t)
  <2>1. CASE ctl'.undone
    BY <2>1, UnnoticedKeeps DEF Unnoticed
  <2>2. CASE ~ctl'.undone
    <3>1. /\ MayChange
          /\ flash' = [flash EXCEPT !.state = thread[t].value]
          /\ ctl' = [ctl EXCEPT !.undone = @ \/ thread[t].value # Following(flash.state)]
      BY <1>1, <1>3, <2>2 DEF StateWrite, Knowledge
    <3>2. ~ctl.undone /\ flash'.state = Following(flash.state) /\ ctl'.seen = ctl.seen
      BY <1>1, <2>2, <3>1 DEF Flash, Knowledge
    <3>3. phase = "up" /\ phase' = "up"
      BY <1>3 DEF StateWrite, At
    <3>4. flash.state \in 1..MaxState /\ ctl.seen \in 0..MaxState
      BY <3>2, <3>3, NumberTypes DEF NoticeInv
    <3>5. Following(flash.state) # ctl.seen /\ Following(flash.state) # 0
      BY <3>1, <3>4, ChangeIsNew, ConstantsAssumption DEF Following
    <3> QED
      BY <3>2, <3>3, <3>5 DEF NoticeInv
  <2> QED
    BY <2>1, <2>2
<1>4. CASE ResetState(t)
  BY <1>1, <1>4, UnnoticedKeeps DEF ResetState, Unnoticed, Knowledge
<1>5. CASE ResetPairings(t)
  BY <1>5, UnnoticedKeeps DEF ResetPairings, Unnoticed, Stranger
<1> QED
  BY <1>2, <1>3, <1>4, <1>5
  DEF TaskStep, Notify, NotifyList, NotifyVisit, StateRead, Indicate, NotifyMove, KeyAge,
      ReadKey, AdvertiseChange, Reset

LEMMA HostNotice ==
  ASSUME TypeInv, NoticeInv,
         HostStep \/ \E t \in Threads : AdvStop(t) \/ AdvSet(t) \/ AdvStart(t)
  PROVE  NoticeInv'
<1>1. flash \in Flash /\ ctl \in Knowledge
  BY DEF TypeInv, TypeOK
<1>2. CASE UNCHANGED <<flash, phase, ctl>>
  BY <1>2, UnnoticedKeeps DEF Unnoticed
<1>3. CASE \E h \in Handles : Pair(h)
  <2>1. flash'.state = flash.state
    BY <1>1, <1>3 DEF Pair, Flash
  <2> QED
    BY <1>3, <2>1, UnnoticedKeeps DEF Pair, Unnoticed
<1>4. CASE WriteKey
  <2>1. flash'.state = flash.state
    BY <1>1, <1>4 DEF WriteKey, Flash
  <2>2. ctl'.seen = ctl.seen /\ ctl'.reboot = ctl.reboot /\ ctl'.undone = ctl.undone
    BY <1>1, <1>4 DEF WriteKey, Knowledge
  <2> QED
    BY <1>4, <2>1, <2>2, UnnoticedKeeps DEF WriteKey, Unnoticed
<1>5. CASE WriteKeyState
  <2>1. flash'.state = flash.state
    BY <1>1, <1>5 DEF WriteKeyState, Flash
  <2> QED
    BY <1>5, <2>1, UnnoticedKeeps DEF WriteKeyState, Unnoticed
<1> QED
  BY <1>2, <1>3, <1>4, <1>5
  DEF HostStep, AdvertiseRegular, Connect, Disconnect, Verify, Configure, GetKey, CreateKey,
      Reply, AdvStop, AdvSet, AdvStart

LEMMA ControllerNotice ==
  ASSUME Inv, NoticeInv, HearRegular \/ HearChange \/ \E h \in Handles : ReadReply(h)
  PROVE  NoticeInv'
<1>1. UNCHANGED <<flash, phase>> /\ ctl \in Knowledge
  BY DEF HearRegular, HearChange, ReadReply, Inv, TypeInv, TypeOK
<1>2. phase = "up"
  BY DEF HearRegular, HearChange, ReadReply, At, Inv, PayloadInv
<1>3. \A n : ~Learns(n).reboot /\ Learns(n).undone = ctl.undone
  BY <1>1 DEF Learns, Knowledge
<1>4. CASE ctl' # ctl
  <2>1. ~ctl'.reboot /\ ctl'.undone = ctl.undone
    BY <1>1, <1>3, <1>4 DEF HearRegular, HearChange, ReadReply, Learns, Knowledge
  <2> QED
    BY <1>1, <1>2, <2>1 DEF NoticeInv
<1>5. CASE ctl' = ctl
  BY <1>1, <1>5, UnnoticedKeeps DEF Unnoticed
<1> QED
  BY <1>4, <1>5

LEMMA NextNotice == Inv /\ NoticeInv /\ [Next]_vars => NoticeInv'
<1> SUFFICES ASSUME Inv, NoticeInv, [Next]_vars PROVE NoticeInv'
  OBVIOUS
<1>1. TypeInv
  BY DEF Inv
<1>2. CASE UNCHANGED vars
  BY <1>2 DEF vars, NoticeInv, SeenLately
<1>3. CASE Next
  BY <1>1, <1>3, BootNotice, RestartNotice, TaskNotice, HostNotice, ControllerNotice, HostIsThread
  DEF Next
<1> QED
  BY <1>2, <1>3

LEMMA InitNotice == Init => NoticeInv
BY DEF Init, Stranger, NoticeInv, SeenLately

(***************************************************************************)
(* A controller notices every restart: wherever the wrapping number stands *)
(* when the accessory fails, for any number of tasks, connections and      *)
(* failures, as long as the number does not run round ahead of it.         *)
(***************************************************************************)
THEOREM NoticeCorrect == Spec => []RestartIsNoticed
<1>1. Init => Inv /\ NoticeInv
  BY InitInv, InitNotice
<1>2. Inv /\ NoticeInv /\ [Next]_vars => (Inv /\ NoticeInv)'
  BY NextInv, NextNotice
<1>3. NoticeInv => RestartIsNoticed
  BY DEF NoticeInv, RestartIsNoticed
<1> QED
  BY <1>1, <1>2, <1>3, PTL DEF Spec

-----------------------------------------------------------------------------
(* The broadcast key is the one that the controller knows.                 *)

(***************************************************************************)
(* No reply waits for a handle without a connection; a request answers on  *)
(* a connection that exists.                                               *)
(***************************************************************************)
SessionsInv ==
  /\ \A h \in Handles : ~Connected(h) => session[h].key = Null
  /\ thread[Host].pc \in RequestPcs => Connected(thread[Host].conn)

(***************************************************************************)
(* The key in flash is the one the controller learned last, or it changed  *)
(* untold; a reply that waits tells it, and the request that makes a new   *)
(* one has taken back the replies that tell of the one before.             *)
(***************************************************************************)
KeyInv ==
  /\ ~ctl.lost => flash.key = ctl.key
  /\ \A h \in Handles : session[h].key # Null =>
       session[h].key = flash.key /\ thread[Host].pc \notin RequestPcs
  /\ thread[Host].pc = "state_write" => flash.key = Secret
  /\ thread[Host].pc = "reply" => thread[Host].fields.key = flash.key

TellsInv == SessionsInv /\ KeyInv

\* Nothing that concerns requests changes, but one may end.
Unasked ==
  /\ UNCHANGED <<session, conns>>
  /\ flash'.key = flash.key /\ ctl'.key = ctl.key /\ ctl'.lost = ctl.lost
  /\ thread'[Host].pc \in RequestPcs =>
       /\ thread'[Host].pc = thread[Host].pc
       /\ thread'[Host].conn = thread[Host].conn
       /\ thread'[Host].fields = thread[Host].fields

LEMMA UnaskedKeeps == TellsInv /\ Unasked => TellsInv'
<1> SUFFICES ASSUME TellsInv, Unasked PROVE TellsInv'
  OBVIOUS
<1>1. \A h : Connected(h)' <=> Connected(h)
  BY DEF Unasked, Connected
<1>2. SessionsInv'
  BY <1>1 DEF TellsInv, Unasked, SessionsInv
<1>3. KeyInv'
  <2>1. thread'[Host].pc = "state_write" => flash'.key = Secret'
    BY DEF TellsInv, Unasked, KeyInv, Secret, RequestPcs
  <2>2. thread'[Host].pc = "reply" => thread'[Host].fields.key = flash'.key
    BY DEF TellsInv, Unasked, KeyInv, RequestPcs
  <2>3. ASSUME NEW h \in Handles, session'[h].key # Null
        PROVE  session'[h].key = flash'.key /\ thread'[Host].pc \notin RequestPcs
    BY <2>3 DEF TellsInv, Unasked, KeyInv
  <2>4. ~ctl'.lost => flash'.key = ctl'.key
    BY DEF TellsInv, Unasked, KeyInv
  <2> QED
    BY <2>1, <2>2, <2>3, <2>4 DEF KeyInv
<1> QED
  BY <1>2, <1>3 DEF TellsInv

\* A step of another task leaves the NimBLE task where it is.
LEMMA HostStays ==
  ASSUME TypeInv, NEW t \in Tasks, NEW l, Goes(t, l) \/ Disturbs(t, l)
  PROVE  /\ thread'[Host].pc = thread[Host].pc
         /\ thread'[Host].conn = thread[Host].conn
         /\ thread'[Host].fields = thread[Host].fields
<1>1. /\ thread \in [Threads -> Thread] /\ Host \in Threads /\ t \in Threads /\ t # Host
      /\ thread[Host] \in Thread
  BY HostIsThread, ConstantsAssumption DEF TypeInv, TypeOK
<1>2. CASE Goes(t, l)
  BY <1>1, <1>2 DEF Goes
<1>3. CASE Disturbs(t, l)
  <2>1. thread'[Host] = Disturbed(thread[Host])
    BY <1>1, <1>3 DEF Disturbs
  <2> QED
    BY <1>1, <2>1, DisturbedType
<1> QED
  BY <1>2, <1>3

LEMMA RestartTells ==
  ASSUME TypeInv, TellsInv, Restarts
  PROVE  TellsInv'
<1>1. /\ ctl \in Knowledge /\ flash' = flash
      /\ session' = [h \in Handles |-> NoSession] /\ thread'[Host] = Idle
  BY HostIsThread DEF Restarts, TypeInv, TypeOK
<1>2. ctl'.key = ctl.key /\ ctl'.lost = ctl.lost
  BY <1>1 DEF Restarts, Misled, Knowledge
<1>3. thread'[Host].pc \notin RequestPcs
  BY <1>1 DEF Idle, RequestPcs
<1>4. thread'[Host].pc \notin {"state_write", "reply"}
  BY <1>3 DEF RequestPcs
<1> QED
  BY <1>1, <1>2, <1>3, <1>4 DEF TellsInv, SessionsInv, KeyInv, NoSession

LEMMA BootTells ==
  ASSUME TypeInv, TellsInv, Boot
  PROVE  TellsInv'
<1>1. /\ flash \in Flash /\ ctl \in Knowledge /\ Host \in Threads
      /\ thread \in [Threads -> Thread]
  BY HostIsThread DEF TypeInv, TypeOK
<1>2. UNCHANGED <<session, conns>> /\ flash'.key = flash.key
  BY <1>1 DEF Boot, SameRevision, NewRevision, WriteCounter, InitState, InitNext, Flash
<1>3. ctl'.key = ctl.key /\ ctl'.lost = ctl.lost
  BY <1>1 DEF Boot, SameRevision, NewRevision, WriteCounter, InitState, InitNext, Misled, Knowledge
<1>4. \/ thread' = thread
      \/ \E l \in {Idle, [Idle EXCEPT !.fields.counter = NextCounter],
                   [Idle EXCEPT !.pc = "regular"]} : Goes(Host, l)
  BY DEF Boot, SameRevision, NewRevision, WriteCounter, InitState, InitNext
<1>5. \/ thread' = thread
      \/ thread'[Host].pc \notin RequestPcs
  BY <1>1, <1>4 DEF Goes, Idle, RequestPcs
<1> QED
  BY <1>2, <1>3, <1>5, UnaskedKeeps DEF Unasked

LEMMA TaskTells ==
  ASSUME TypeInv, TellsInv, NEW t \in Tasks, TaskStep(t), ~NotifyPanics(t)
  PROVE  TellsInv'
<1>1. flash \in Flash /\ ctl \in Knowledge
  BY DEF TypeInv, TypeOK
<1>2. \E l : Goes(t, l) \/ Disturbs(t, l)
  BY DEF TaskStep, Notify, NotifyList, NotifyVisit, StateRead, StateWrite, Indicate, NotifyMove,
         KeyAge, ReadKey, AdvertiseChange, Reset, ResetState, ResetPairings
<1>3. UNCHANGED <<session, conns>>
  BY DEF TaskStep, Notify, NotifyList, NotifyVisit, StateRead, StateWrite, Indicate, NotifyMove,
         KeyAge, ReadKey, AdvertiseChange, Reset, ResetState, ResetPairings
<1>4. flash'.key = flash.key
  BY <1>1
  DEF TaskStep, Notify, NotifyList, NotifyVisit, StateRead, StateWrite, Indicate, NotifyMove,
      KeyAge, ReadKey, AdvertiseChange, Reset, ResetState, ResetPairings, Flash
<1>5. CASE ResetPairings(t)
  <2>1. ctl'.key = Null /\ (ctl'.lost <=> flash.key # Null)
    BY <1>5 DEF ResetPairings, Stranger
  <2>2. SessionsInv'
    BY <1>2, <1>3, HostStays DEF TellsInv, SessionsInv, Connected
  <2>3. thread'[Host].pc = "state_write" => flash'.key = Secret'
    BY <1>2, <1>3, <1>4, HostStays DEF TellsInv, KeyInv, Secret
  <2> QED
    BY <1>2, <1>3, <1>4, <2>1, <2>2, <2>3, HostStays DEF TellsInv, KeyInv
<1>6. CASE ~ResetPairings(t)
  <2>1. ctl'.key = ctl.key /\ ctl'.lost = ctl.lost
    BY <1>1, <1>6
    DEF TaskStep, Notify, NotifyList, NotifyVisit, StateRead, StateWrite, Indicate, NotifyMove,
        KeyAge, ReadKey, AdvertiseChange, Reset, ResetState, Knowledge
  <2> QED
    BY <1>2, <1>3, <1>4, <2>1, HostStays, UnaskedKeeps DEF Unasked
<1> QED
  BY <1>5, <1>6

LEMMA AdvertisementTells ==
  ASSUME TypeInv, TellsInv,
         \/ AdvertiseRegular \/ \E h \in Handles : Pair(h)
         \/ \E t \in Threads : AdvStop(t) \/ AdvSet(t) \/ AdvStart(t)
  PROVE  TellsInv'
<1>1. /\ flash \in Flash /\ Host \in Threads /\ thread \in [Threads -> Thread]
      /\ \A t \in Threads : thread[t] \in Thread
  BY HostIsThread DEF TypeInv, TypeOK
<1>2. UNCHANGED <<session, conns, ctl>> /\ flash'.key = flash.key
  BY <1>1 DEF AdvertiseRegular, Pair, AdvStop, AdvSet, AdvStart, Flash
<1>3. CASE AdvertiseRegular
  <2> DEFINE m == [Idle EXCEPT
                     !.pc = "stop",
                     !.fields = [kind |-> "regular", state |-> flash.state,
                                 counter |-> flash.counter, key |-> Null]]
  <2>1. m.pc = "stop" /\ Idle.pc = "idle"
    BY DEF Idle
  <2>2. Goes(Host, Idle) \/ Goes(Host, m)
    BY <1>3 DEF AdvertiseRegular
  <2> HIDE DEF m
  <2>3. thread'[Host].pc \notin RequestPcs
    BY <1>1, <2>1, <2>2 DEF Goes, RequestPcs
  <2> QED
    BY <1>2, <2>3, UnaskedKeeps DEF Unasked
<1>4. CASE \E h \in Handles : Pair(h)
  BY <1>2, <1>4, UnaskedKeeps DEF Pair, Unasked
<1>5. CASE \E t \in Threads : AdvStop(t) \/ AdvSet(t) \/ AdvStart(t)
  <2>1. PICK t \in Threads : AdvStop(t) \/ AdvSet(t) \/ AdvStart(t)
    BY <1>5
  <2>2. PICK l : Disturbs(t, l) /\ l.pc \notin RequestPcs
    <3>1. /\ [thread[t] EXCEPT !.pc = "set"].pc = "set"
          /\ [thread[t] EXCEPT !.pc = "start", !.fields = NoFields].pc = "start"
          /\ Idle.pc = "idle"
      BY <1>1 DEF Thread, Idle
    <3>2. {"set", "start", "idle"} \cap RequestPcs = {}
      BY DEF RequestPcs
    <3>3. \E l : Disturbs(t, l) /\ l.pc \in {"set", "start", "idle"}
      <4>1. CASE AdvStop(t)
        BY <3>1, <4>1 DEF AdvStop
      <4>2. CASE AdvSet(t)
        BY <3>1, <4>2 DEF AdvSet
      <4>3. CASE AdvStart(t)
        BY <3>1, <4>3 DEF AdvStart
      <4> QED
        BY <2>1, <4>1, <4>2, <4>3
    <3> QED
      BY <3>2, <3>3
  <2>3. CASE t = Host
    <3>1. thread'[Host].pc \notin RequestPcs
      BY <1>1, <2>2, <2>3 DEF Disturbs
    <3> QED
      BY <1>2, <3>1, UnaskedKeeps DEF Unasked
  <2>4. CASE t # Host
    BY <1>2, <2>2, <2>4, HostStays, UnaskedKeeps DEF Unasked, Threads
  <2> QED
    BY <2>3, <2>4
<1> QED
  BY <1>3, <1>4, <1>5

Has(s, x) == \E n \in DOMAIN s : s[n] = x

LEMMA JoinedHas ==
  ASSUME NEW S, NEW a \in Seq(S), NEW b \in Seq(S), NEW x, Has(a, x) \/ Has(b, x)
  PROVE  Has(a \o b, x)
<1>1. Len(a) \in Nat /\ Len(b) \in Nat /\ DOMAIN (a \o b) = 1..(Len(a) + Len(b))
  OBVIOUS
<1>2. CASE Has(a, x)
  <2>1. PICK n \in 1..Len(a) : a[n] = x
    BY <1>2 DEF Has
  <2>2. n \in DOMAIN (a \o b) /\ (a \o b)[n] = x
    BY <1>1, <2>1
  <2> QED
    BY <2>2 DEF Has
<1>3. CASE Has(b, x)
  <2>1. PICK n \in 1..Len(b) : b[n] = x
    BY <1>3 DEF Has
  <2>2. Len(a) + n \in 1..(Len(a) + Len(b)) /\ ~(Len(a) + n <= Len(a)) /\ Len(a) + n - Len(a) = n
    BY <1>1, <2>1
  <2>3. (a \o b)[Len(a) + n] = x
    BY <1>1, <2>1, <2>2
  <2> QED
    BY <1>1, <2>2, <2>3 DEF Has
<1> QED
  BY <1>2, <1>3

\* Connections come, go and become secure while no request is answered.
LEMMA ConnectionTells ==
  ASSUME TypeInv, TellsInv, NEW h \in Handles, Connect(h) \/ Disconnect(h) \/ Verify(h)
  PROVE  TellsInv'
<1>1. /\ Host \in Threads /\ thread \in [Threads -> Thread] /\ conns \in Seq(Handles)
      /\ session \in [Handles -> Session]
  BY HostIsThread DEF TypeInv, TypeOK
<1>2. UNCHANGED <<flash, ctl>>
  BY DEF Connect, Disconnect, Verify
<1>3. \E l \in {Idle, AfterDisconnect} : Disturbs(Host, l)
  BY DEF Connect, Disconnect, Verify
<1>4. thread'[Host].pc \notin RequestPcs
  BY <1>1, <1>3 DEF Disturbs, Idle, AfterDisconnect, RequestPcs
<1>5. thread'[Host].pc \notin {"state_write", "reply"}
  BY <1>4 DEF RequestPcs
<1>6. ASSUME \A g \in Handles : session'[g].key \in {Null, session[g].key}
      PROVE  KeyInv'
  <2>1. ASSUME NEW g \in Handles, session'[g].key # Null
        PROVE  session'[g].key = flash'.key
    BY <1>2, <1>6, <2>1 DEF TellsInv, KeyInv
  <2> QED
    BY <1>2, <1>4, <1>5, <2>1 DEF TellsInv, KeyInv
<1>7. CASE Connect(h)
  <2>1. \A g : Connected(g) => Connected(g)'
    <3>1. conns' = <<h>> \o conns
      BY <1>7 DEF Connect
    <3>2. ASSUME NEW n \in DOMAIN conns
          PROVE  n + 1 \in DOMAIN conns' /\ conns'[n + 1] = conns[n]
      BY <1>1, <3>1
    <3> QED
      BY <3>2 DEF Connected
  <2>2. session' = session
    BY <1>7 DEF Connect
  <2> QED
    BY <1>4, <1>6, <2>1, <2>2 DEF TellsInv, SessionsInv
<1>8. CASE Disconnect(h)
  <2>1. PICK n \in DOMAIN conns :
          /\ conns[n] = h
          /\ conns' = SubSeq(conns, 1, n - 1) \o SubSeq(conns, n + 1, Len(conns))
    BY <1>8 DEF Disconnect
  <2>2. session' = [session EXCEPT ![h] = NoSession]
    BY <1>8 DEF Disconnect
  <2>3. ASSUME NEW g \in Handles, Connected(g), g # h
        PROVE  Connected(g)'
    <3>1. PICK m \in DOMAIN conns : conns[m] = g
      BY <2>3 DEF Connected
    <3>2. m \in 1..Len(conns) /\ n \in 1..Len(conns) /\ Len(conns) \in Nat /\ m # n
      BY <1>1, <2>1, <2>3, <3>1
    <3> DEFINE a == SubSeq(conns, 1, n - 1)
               b == SubSeq(conns, n + 1, Len(conns))
    <3>3. /\ a \in Seq(Handles) /\ Len(a) = n - 1
          /\ \A i \in 1..(n - 1) : a[i] = conns[i]
      BY <1>1, <3>2
    <3>4. /\ b \in Seq(Handles) /\ Len(b) = Len(conns) - n
          /\ \A i \in 1..(Len(conns) - n) : b[i] = conns[n + i]
      BY <1>1, <3>2
    <3> HIDE DEF a, b
    <3>5. Has(a, g) \/ Has(b, g)
      <4>1. CASE m < n
        <5>1. m \in DOMAIN a /\ a[m] = g
          BY <3>1, <3>2, <3>3, <4>1
        <5> QED
          BY <5>1 DEF Has
      <4>2. CASE m > n
        <5>1. m - n \in 1..(Len(conns) - n) /\ n + (m - n) = m
          BY <3>2, <4>2
        <5>2. b[m - n] = g
          BY <3>1, <3>4, <5>1
        <5>3. m - n \in DOMAIN b
          BY <3>4, <5>1
        <5> QED
          BY <5>2, <5>3 DEF Has
      <4> QED
        BY <3>2, <4>1, <4>2
    <3>6. Has(a \o b, g)
      BY <3>3, <3>4, <3>5, JoinedHas
    <3> QED
      BY <2>1, <3>6 DEF Connected, Has, a, b
  <2>4. \A g \in Handles : session'[g] = IF g = h THEN NoSession ELSE session[g]
    BY <1>1, <2>2
  <2>5. \A g \in Handles : session'[g].key \in {Null, session[g].key}
    BY <2>4 DEF NoSession
  <2> QED
    BY <1>4, <1>6, <2>3, <2>4, <2>5 DEF TellsInv, SessionsInv, NoSession
<1>9. CASE Verify(h)
  <2>1. PICK k : session' = [session EXCEPT ![h].secret = k]
    BY <1>9 DEF Verify
  <2>2. \A g \in Handles : /\ session'[g].key = session[g].key
                           /\ g # h => session'[g] = session[g]
    BY <1>1, <2>1 DEF Session
  <2>3. conns' = conns /\ Connected(h)
    BY <1>9 DEF Verify
  <2>4. \A g : Connected(g)' <=> Connected(g)
    BY <2>3 DEF Connected
  <2> QED
    BY <1>4, <1>6, <2>2, <2>3, <2>4 DEF TellsInv, SessionsInv
<1> QED
  BY <1>7, <1>8, <1>9

\* While a request is answered no reply waits.
LEMMA AnsweringTells ==
  ASSUME TellsInv, thread[Host].pc \in RequestPcs, UNCHANGED <<session, conns>>,
         thread'[Host].pc \in RequestPcs => thread'[Host].conn = thread[Host].conn,
         ~ctl'.lost => flash'.key = ctl'.key,
         thread'[Host].pc = "state_write" => flash'.key = Secret,
         thread'[Host].pc = "reply" => thread'[Host].fields.key = flash'.key
  PROVE  TellsInv'
<1>1. \A h : Connected(h)' <=> Connected(h)
  BY DEF Connected
<1>2. \A h \in Handles : session[h].key = Null
  BY DEF TellsInv, KeyInv
<1>3. thread'[Host].pc = "state_write" => Secret' = Secret
  BY DEF Secret, RequestPcs
<1>4. SessionsInv'
  BY <1>1 DEF TellsInv, SessionsInv
<1>5. KeyInv'
  BY <1>2, <1>3 DEF KeyInv
<1> QED
  BY <1>4, <1>5 DEF TellsInv

LEMMA RequestTells ==
  ASSUME TypeInv, TellsInv,
         \/ GetKey \/ CreateKey \/ WriteKey \/ WriteKeyState \/ Reply
         \/ \E h \in Handles, again \in BOOLEAN : Configure(h, again)
  PROVE  TellsInv'
<1> DEFINE l == thread[Host]
<1>1. /\ Host \in Threads /\ l \in Thread /\ thread \in [Threads -> Thread]
      /\ flash \in Flash /\ ctl \in Knowledge /\ session \in [Handles -> Session]
  BY HostIsThread DEF TypeInv, TypeOK
<1>2. ASSUME NEW m, Goes(Host, m) \/ Disturbs(Host, m)
      PROVE  thread'[Host] = m
  BY <1>1, <1>2 DEF Goes, Disturbs
<1>3. ~ctl.lost => flash.key = ctl.key
  BY DEF TellsInv, KeyInv
<1>4. /\ CreateFails.pc \in {"create", "idle"}
      /\ CreateFails.pc = "create" => CreateFails.conn = l.conn
  BY <1>1 DEF CreateFails, Thread, Idle
<1>5. CASE GetKey
  <2> DEFINE m1 == [l EXCEPT !.pc = IF l.again THEN "create" ELSE "reply", !.again = FALSE,
                             !.fields.key = flash.key]
             m2 == [l EXCEPT !.pc = "create"]
  <2>1. m1.conn = l.conn /\ m1.pc \in {"create", "reply"} /\ m1.fields.key = flash.key
    BY <1>1 DEF Thread, Fields
  <2>2. m2.conn = l.conn /\ m2.pc = "create"
    BY <1>1 DEF Thread
  <2>3. Goes(Host, m1) \/ Goes(Host, m2)
    BY <1>5 DEF GetKey
  <2>4. thread'[Host] = m1 \/ thread'[Host] = m2
    BY <1>2, <2>3
  <2>5. l.pc \in RequestPcs /\ UNCHANGED <<session, conns, flash, ctl>>
    BY <1>5 DEF GetKey, At, RequestPcs
  <2> HIDE DEF m1, m2
  <2> QED
    BY <1>3, <2>1, <2>2, <2>4, <2>5, AnsweringTells
<1>6. CASE CreateKey
  <2> DEFINE m == [l EXCEPT !.pc = "key_write", !.value = flash.state]
  <2>1. m.conn = l.conn /\ m.pc = "key_write"
    BY <1>1 DEF Thread
  <2>2. thread'[Host] = m
    BY <1>2, <1>6 DEF CreateKey
  <2>3. l.pc \in RequestPcs /\ UNCHANGED <<session, conns, flash, ctl>>
    BY <1>6 DEF CreateKey, At, RequestPcs
  <2> HIDE DEF m
  <2> QED
    BY <1>3, <2>1, <2>2, <2>3, AnsweringTells
<1>7. CASE WriteKey
  <2>1. l.pc \in RequestPcs /\ UNCHANGED <<session, conns>>
    BY <1>7 DEF WriteKey, At, RequestPcs
  <2>2. CASE Goes(Host, CreateFails) /\ UNCHANGED <<flash, ctl>>
    BY <1>2, <1>3, <1>4, <2>1, <2>2, AnsweringTells DEF RequestPcs
  <2>3. CASE /\ flash' = [flash EXCEPT !.key = Secret]
             /\ ctl' = [ctl EXCEPT !.lost = @ \/ Secret # ctl.key \/ Secret = Unshared]
             /\ Disturbs(Host, [thread[Host] EXCEPT !.pc = "state_write"])
    <3> DEFINE m == [l EXCEPT !.pc = "state_write"]
    <3>1. m.conn = l.conn /\ m.pc = "state_write"
      BY <1>1 DEF Thread
    <3>2. thread'[Host] = m
      BY <1>2, <2>3
    <3>3. flash'.key = Secret
      BY <1>1, <2>3 DEF Flash
    <3>4. ctl'.key = ctl.key /\ (~ctl'.lost => Secret = ctl.key)
      BY <1>1, <2>3 DEF Knowledge
    <3> HIDE DEF m
    <3> QED
      BY <2>1, <3>1, <3>2, <3>3, <3>4, AnsweringTells
  <2> QED
    BY <1>7, <2>2, <2>3 DEF WriteKey
<1>8. CASE WriteKeyState
  <2>1. l.pc = "state_write" /\ l.pc \in RequestPcs /\ UNCHANGED <<session, conns, ctl>>
    BY <1>8 DEF WriteKeyState, At, RequestPcs
  <2>2. flash.key = Secret
    BY <2>1 DEF TellsInv, KeyInv
  <2>3. CASE Goes(Host, CreateFails) /\ UNCHANGED flash
    BY <1>2, <1>3, <1>4, <2>1, <2>3, AnsweringTells DEF RequestPcs
  <2> DEFINE m == [l EXCEPT !.pc = IF l.again THEN "create" ELSE "reply", !.again = FALSE,
                            !.value = 0, !.fields.key = Created]
  <2>4. CASE flash' = [flash EXCEPT !.keyState = l.value] /\ Disturbs(Host, m)
    <3>1. m.conn = l.conn /\ m.pc \in {"create", "reply"} /\ m.fields.key = Created
      BY <1>1 DEF Thread, Fields
    <3>2. thread'[Host] = m
      BY <1>2, <2>4
    <3>3. flash'.key = flash.key
      BY <1>1, <2>4 DEF Flash
    <3> HIDE DEF m
    <3> QED
      BY <1>3, <2>1, <2>2, <3>1, <3>2, <3>3, AnsweringTells DEF Created
  <2> HIDE DEF m
  <2>5. (flash' = [flash EXCEPT !.keyState = l.value] /\ Disturbs(Host, m))
          \/ (Goes(Host, CreateFails) /\ UNCHANGED flash)
    BY <1>8 DEF WriteKeyState, m
  <2> QED
    BY <2>3, <2>4, <2>5
<1>9. CASE Reply
  <2>1. l.pc = "reply" /\ UNCHANGED <<flash, conns, ctl>> /\ thread'[Host] = Idle
    BY <1>2, <1>9 DEF Reply, At
  <2>2. \/ session' = session
        \/ session' = [session EXCEPT ![l.conn].key = l.fields.key, ![l.conn].state = l.fields.state]
    BY <1>9 DEF Reply
  <2>3. Connected(l.conn) /\ l.fields.key = flash.key
    BY <2>1 DEF TellsInv, SessionsInv, KeyInv, RequestPcs
  <2>4. \A h : Connected(h)' <=> Connected(h)
    BY <2>1 DEF Connected
  <2>5. ASSUME NEW h \in Handles
        PROVE  /\ h # l.conn => session'[h] = session[h]
               /\ session'[h].key \in {session[h].key, flash.key}
    BY <1>1, <2>2, <2>3 DEF Session
  <2>6. SessionsInv'
    BY <2>1, <2>3, <2>4, <2>5 DEF TellsInv, SessionsInv, Idle, RequestPcs
  <2>7. ASSUME NEW h \in Handles, session'[h].key # Null
        PROVE  session'[h].key = flash.key
    BY <2>5, <2>7 DEF TellsInv, KeyInv
  <2>8. KeyInv'
    BY <1>3, <2>1, <2>7 DEF KeyInv, Idle, RequestPcs
  <2> QED
    BY <2>6, <2>8 DEF TellsInv
<1>10. CASE \E h \in Handles, again \in BOOLEAN : Configure(h, again)
  <2>1. PICK h \in Handles, again \in BOOLEAN : Configure(h, again)
    BY <1>10
  <2> DEFINE n == IF Secure(h) THEN flash.state ELSE 0
             m == [Idle EXCEPT !.pc = "get", !.conn = h, !.again = again, !.fields.state = n]
  <2>2. m.pc = "get" /\ m.conn = h
    BY DEF Idle
  <2>3. thread'[Host] = m /\ Connected(h) /\ UNCHANGED <<flash, conns, ctl>>
    BY <1>2, <2>1 DEF Configure
  <2> HIDE DEF m
  <2>4. session' = [g \in Handles |-> [session[g] EXCEPT !.key = Null, !.state = 0]]
    BY <2>1 DEF Configure
  <2>5. ASSUME NEW g \in Handles
        PROVE  session'[g].key = Null
    <3>1. session'[g] = [session[g] EXCEPT !.key = Null, !.state = 0] /\ session[g] \in Session
      BY <1>1, <2>4
    <3> QED
      BY <3>1 DEF Session
  <2>6. \A g : Connected(g)' <=> Connected(g)
    BY <2>3 DEF Connected
  <2>7. SessionsInv'
    BY <2>2, <2>3, <2>5, <2>6 DEF TellsInv, SessionsInv
  <2>8. KeyInv'
    BY <1>3, <2>2, <2>3, <2>5 DEF KeyInv
  <2> QED
    BY <2>7, <2>8 DEF TellsInv
<1> QED
  BY <1>5, <1>6, <1>7, <1>8, <1>9, <1>10

LEMMA ControllerTells ==
  ASSUME TypeInv, TellsInv, HearRegular \/ HearChange \/ \E h \in Handles : ReadReply(h)
  PROVE  TellsInv'
<1>1. ctl \in Knowledge /\ session \in [Handles -> Session]
  BY DEF TypeInv, TypeOK
<1>2. CASE HearRegular \/ HearChange
  <2>1. UNCHANGED <<flash, session, conns, thread>>
    BY <1>2 DEF HearRegular, HearChange
  <2>2. ctl'.key = ctl.key /\ ctl'.lost = ctl.lost
    BY <1>1, <1>2 DEF HearRegular, HearChange, Learns, Knowledge
  <2> QED
    BY <2>1, <2>2, UnaskedKeeps DEF Unasked
<1>3. CASE \E h \in Handles : ReadReply(h)
  <2>1. PICK h \in Handles : ReadReply(h)
    BY <1>3
  <2>2. UNCHANGED <<flash, conns, thread>> /\ session[h].key # Null /\ thread[Host].pc = "idle"
    BY <2>1 DEF ReadReply, At
  <2>3. ctl'.key = session[h].key \/ ctl' = ctl
    BY <1>1, <2>1 DEF ReadReply, Learns, Knowledge
  <2>4. session[h].key = flash.key
    BY <2>2 DEF TellsInv, KeyInv
  <2>5. session' = [session EXCEPT ![h].key = Null, ![h].state = 0]
    BY <2>1 DEF ReadReply
  <2>6. ASSUME NEW g \in Handles
        PROVE  /\ session'[g].key \in {Null, session[g].key}
               /\ g # h => session'[g] = session[g]
    BY <1>1, <2>5 DEF Session
  <2>7. \A g : Connected(g)' <=> Connected(g)
    BY <2>2 DEF Connected
  <2>8. SessionsInv'
    BY <2>2, <2>6, <2>7 DEF TellsInv, SessionsInv
  <2>9. ASSUME NEW g \in Handles, session'[g].key # Null
         PROVE  session'[g].key = flash.key
    BY <2>6, <2>9 DEF TellsInv, KeyInv
  <2>10. thread'[Host].pc \notin RequestPcs /\ thread'[Host].pc \notin {"state_write", "reply"}
    BY <2>2 DEF RequestPcs
  <2>11. KeyInv'
    BY <2>2, <2>3, <2>4, <2>9, <2>10 DEF TellsInv, KeyInv
  <2> QED
    BY <2>8, <2>11 DEF TellsInv
<1> QED
  BY <1>2, <1>3

LEMMA NextTells == TypeInv /\ TellsInv /\ [Next]_vars => TellsInv'
<1> SUFFICES ASSUME TypeInv, TellsInv, [Next]_vars PROVE TellsInv'
  OBVIOUS
<1>1. CASE UNCHANGED vars
  BY <1>1, UnaskedKeeps DEF vars, Unasked
<1>2. CASE Crash \/ Update \/ \E t \in Tasks : NotifyPanics(t)
  <2>1. Restarts
    BY <1>2 DEF Crash, Update, NotifyPanics
  <2> QED
    BY <2>1, RestartTells
<1>3. CASE HostStep
  BY <1>3, AdvertisementTells, ConnectionTells, RequestTells DEF HostStep
<1>4. CASE Next
  BY <1>2, <1>3, <1>4, BootTells, TaskTells, AdvertisementTells, ControllerTells DEF Next
<1> QED
  BY <1>1, <1>4

LEMMA InitTells == Init => TellsInv
<1> SUFFICES ASSUME Init PROVE TellsInv
  OBVIOUS
<1>1. thread[Host] = Idle /\ flash = NewFlash /\ ctl = Stranger
      /\ session = [h \in Handles |-> NoSession]
  BY HostIsThread DEF Init
<1> QED
  BY <1>1
  DEF TellsInv, SessionsInv, KeyInv, Idle, NewFlash, Stranger, NoSession, RequestPcs

-----------------------------------------------------------------------------
(* A notification that nothing disturbs.                                   *)

\* What is advertised for a change.
News == [kind |-> "change", state |-> flash.state, counter |-> Null, key |-> flash.key]

\* A task that is alone notifies, from the beginning of its locals.
Begun(t) ==
  /\ thread[t].pc \notin {"reset_state", "reset_pairings"}
  /\ thread[t].pc = "list" =>
       thread[t].conn = Null /\ ~thread[t].failed /\ thread[t].told = {}
  /\ thread[t].pc \in NotifyPcs \ {"change"} => thread[t].fields = NoFields

(***************************************************************************)
(* Without a connection it broadcasts: what it is about to advertise is    *)
(* the state and the key of the flash, and once the state is written the   *)
(* controller saw another one and is offered no other that is the same.    *)
(***************************************************************************)
StateIsNew == flash.state # ctl.seen /\ (adv.on => flash.state # adv.fields.state)

Broadcasting(t) ==
  thread[t].conn = Null /\ thread[t].pc \notin {"idle", "list"} =>
    /\ thread[t].pc \notin {"visit", "indicate", "move"}
    /\ conns = <<>>
    /\ thread[t].pc = "change" => thread[t].fields = [NoFields EXCEPT !.key = flash.key]
    /\ thread[t].pc \in {"stop", "set"} => thread[t].fields = News
    /\ thread[t].pc = "start" => adv.fields = News
    /\ thread[t].pc \in {"set", "start"} => ~adv.on
    /\ thread[t].pc \notin {"read", "write"} /\ ~ctl.undone => StateIsNew

(***************************************************************************)
(* With connections it is at the nth of them.  Of those it has passed, k,  *)
(* it told the secure ones before the first that cannot be told, and it    *)
(* has failed if there is such a one.                                      *)
(***************************************************************************)
Broken(m) == Secure(conns[m]) /\ ~Connected(Cut(conns[m]))

Walked(k, l) ==
  /\ l.failed <=> \E m \in 1..k : Broken(m)
  /\ \A x : x \in l.told <=> \E m \in Reached : m <= k /\ x = Cut(conns[m])

Passed(t, n) == IF thread[t].pc = "move" THEN n ELSE n - 1

Indicating(t) ==
  thread[t].conn # Null /\ thread[t].pc # "idle" =>
    /\ thread[t].pc \in {"visit", "read", "write", "indicate", "move"}
    /\ thread[t].pc \notin {"visit", "move"} => Secure(thread[t].conn)
    /\ \E n \in DOMAIN conns :
         conns[n] = thread[t].conn /\ Walked(Passed(t, n), thread[t])

AloneKeeps(t) == thread[t].alone => Begun(t) /\ Broadcasting(t) /\ Indicating(t)

AloneInv == \A t \in Tasks : AloneKeeps(t)

\* Steps of others that leave alone what the notification of t concerns.
Steady(t) ==
  /\ thread'[t] = thread[t]
  /\ UNCHANGED <<conns, adv>>
  /\ flash'.state = flash.state /\ flash'.key = flash.key
  /\ \A h \in Handles : session'[h].secret = session[h].secret
  /\ ctl.undone => ctl'.undone
  /\ \/ ctl'.undone
     \/ ctl'.seen = ctl.seen
     \/ adv.on /\ ctl'.seen = adv.fields.state
     \/ conns # <<>>

\* What a task has walked stays so while connections and sessions do.
LEMMA WalkedStays ==
  ASSUME NEW t, NEW k \in Nat, k \in 0..Len(conns), Len(conns) \in Nat,
         DOMAIN conns = 1..Len(conns), conns' = conns,
         \A n \in DOMAIN conns : Secure(conns[n])' <=> Secure(conns[n]),
         Walked(k, thread'[t])
  PROVE  Walked(k, thread[t])'
<1>1. \A h : Connected(h)' <=> Connected(h)
  BY DEF Connected
<1>2. \A m \in 1..k : m \in DOMAIN conns
  OBVIOUS
<1>3. \A m \in 1..k : Broken(m)' <=> Broken(m)
  BY <1>1, <1>2 DEF Broken
<1>4. Reached' = Reached
  <2>1. \A n \in DOMAIN conns : \A m \in 1..n : m \in DOMAIN conns
    OBVIOUS
  <2> QED
    BY <1>1, <2>1 DEF Reached
<1> QED
  BY <1>3, <1>4 DEF Walked

LEMMA WalkedNothing ==
  ASSUME NEW l, ~l.failed, l.told = {}, DOMAIN conns = 1..Len(conns), Len(conns) \in Nat
  PROVE  Walked(0, l)
BY DEF Walked, Reached

\* What passing the connection of l makes of failed and told.
Passes(l, m) ==
  \/ ~Secure(l.conn) /\ m.failed = l.failed /\ m.told = l.told
  \/ /\ Secure(l.conn) /\ ~l.failed /\ Connected(Cut(l.conn))
     /\ ~m.failed /\ m.told = l.told \cup {Cut(l.conn)}
  \/ /\ Secure(l.conn) /\ (l.failed \/ ~Connected(Cut(l.conn)))
     /\ m.failed /\ m.told = l.told

LEMMA WalkedNext ==
  ASSUME NEW l, NEW m, NEW n \in DOMAIN conns, DOMAIN conns = 1..Len(conns), Len(conns) \in Nat,
         l.failed \in BOOLEAN, m.failed \in BOOLEAN,
         conns[n] = l.conn, Walked(n - 1, l), Passes(l, m)
  PROVE  Walked(n, m)
<1>1. n \in 1..Len(conns) /\ n \in Nat
  OBVIOUS
<1>2. \A i : i \in 1..n <=> i \in 1..(n - 1) \/ i = n
  BY <1>1
<1>3. l.failed <=> \E i \in 1..(n - 1) : Broken(i)
  BY DEF Walked
<1>4. n \in Reached <=> Secure(l.conn) /\ ~l.failed /\ Connected(Cut(l.conn))
  BY <1>2, <1>3 DEF Reached, Broken
<1>5. Broken(n) <=> Secure(l.conn) /\ ~Connected(Cut(l.conn))
  BY DEF Broken
<1>6. m.failed <=> \E i \in 1..n : Broken(i)
  BY <1>2, <1>3, <1>5 DEF Passes
<1>7. ASSUME NEW x
      PROVE  x \in m.told <=> x \in l.told \/ (n \in Reached /\ x = Cut(conns[n]))
  BY <1>4 DEF Passes
<1>8. \A i \in Reached : i <= n <=> i <= n - 1 \/ i = n
  BY <1>1 DEF Reached
<1>9. ASSUME NEW x
      PROVE  x \in m.told <=> \E i \in Reached : i <= n /\ x = Cut(conns[i])
  <2>1. x \in l.told <=> \E i \in Reached : i <= n - 1 /\ x = Cut(conns[i])
    BY DEF Walked
  <2> QED
    BY <1>7, <1>8, <2>1
<1> QED
  BY <1>6, <1>9 DEF Walked

LEMMA SteadyKeeps ==
  ASSUME TypeInv, NEW t \in Tasks, AloneKeeps(t), Steady(t)
  PROVE  AloneKeeps(t)'
<1>1. SUFFICES ASSUME thread[t].alone PROVE Begun(t)' /\ Broadcasting(t)' /\ Indicating(t)'
  BY DEF AloneKeeps, Steady
<1>2. Begun(t) /\ Broadcasting(t) /\ Indicating(t)
  BY <1>1 DEF AloneKeeps
<1>3. Begun(t)'
  BY <1>2 DEF Steady, Begun
<1>4. Broadcasting(t)'
  <2>1. SUFFICES ASSUME thread[t].conn = Null, thread[t].pc \notin {"idle", "list"}
                 PROVE  Broadcasting(t)'
    BY DEF Steady, Broadcasting
  <2>2. News' = News
    BY DEF Steady, News
  <2>3. conns = <<>> /\ (thread[t].pc \notin {"read", "write"} /\ ~ctl.undone => StateIsNew)
    BY <1>2, <2>1 DEF Broadcasting
  <2>4. thread'[t].pc \notin {"read", "write"} /\ ~ctl'.undone => StateIsNew'
    BY <2>3 DEF Steady, StateIsNew
  <2> QED
    BY <1>2, <2>1, <2>2, <2>4 DEF Steady, Broadcasting
<1>5. Indicating(t)'
  <2>1. /\ \A n \in DOMAIN conns : conns[n] \in Handles
        /\ Len(conns) \in Nat /\ DOMAIN conns = 1..Len(conns)
    BY DEF TypeInv, TypeOK
  <2>2. SUFFICES ASSUME thread[t].conn # Null, thread[t].pc # "idle"
                 PROVE  Indicating(t)'
    BY DEF Steady, Indicating
  <2>3. PICK n \in DOMAIN conns :
          conns[n] = thread[t].conn /\ Walked(Passed(t, n), thread[t])
    BY <1>2, <2>2 DEF Indicating
  <2>4. PICK k : k = Passed(t, n)
    OBVIOUS
  <2>5. k \in 0..Len(conns)
    BY <2>1, <2>3, <2>4 DEF Passed
  <2>6. \A h \in Handles : Secure(h)' <=> Secure(h)
    BY DEF Secure, Steady
  <2>7. Walked(k, thread[t])'
    BY <2>1, <2>3, <2>4, <2>5, <2>6, WalkedStays DEF Steady
  <2>8. Passed(t, n)' = k
    BY <2>4 DEF Passed, Steady
  <2>9. thread[t].conn \in Handles
    BY <2>1, <2>3
  <2>10. \E i \in DOMAIN conns : conns[i] = thread'[t].conn /\ Walked(Passed(t, i), thread[t])'
    BY <2>3, <2>7, <2>8 DEF Steady
  <2> QED
    BY <1>2, <2>2, <2>6, <2>9, <2>10 DEF Indicating, Steady
<1> QED
  BY <1>3, <1>4, <1>5

\* A step of task u, while t notifies: t is not alone any more, or does not mind.
LEMMA OtherTask ==
  ASSUME TypeInv, NEW t \in Tasks, NEW u \in Threads, u # t, NEW l
  PROVE  /\ Goes(u, l) => thread'[t] = thread[t]
         /\ Disturbs(u, l) => ~thread'[t].alone
<1>1. t \in Threads /\ thread \in [Threads -> Thread] /\ thread[t] \in Thread
  BY HostIsThread DEF TypeInv, TypeOK
<1>2. ASSUME Disturbs(u, l)
      PROVE  ~thread'[t].alone
  <2>1. thread'[t] = Disturbed(thread[t])
    BY <1>1, <1>2 DEF Disturbs
  <2> QED
    BY <1>1, <2>1, DisturbedType
<1> QED
  BY <1>1, <1>2 DEF Goes

LEMMA OtherTaskKeeps ==
  ASSUME TypeInv, NEW t \in Tasks, NEW u \in Tasks, u # t, AloneKeeps(t), TaskStep(u),
         ~NotifyPanics(u)
  PROVE  AloneKeeps(t)'
<1>1. u \in Threads /\ flash \in Flash /\ ctl \in Knowledge
  BY HostIsThread DEF TypeInv, TypeOK
<1>2. ASSUME NEW l, Disturbs(u, l)
      PROVE  AloneKeeps(t)'
  BY <1>1, <1>2, OtherTask DEF AloneKeeps
<1>3. ASSUME NEW l, Goes(u, l), UNCHANGED <<flash, conns, session, adv>>,
             ctl' = ctl \/ ctl'.undone
      PROVE  AloneKeeps(t)'
  BY <1>1, <1>3, OtherTask, SteadyKeeps DEF Steady
<1>4. [ctl EXCEPT !.undone = TRUE].undone
  BY <1>1 DEF Knowledge
<1>5. CASE StateWrite(u)
  BY <1>2, <1>3, <1>4, <1>5 DEF StateWrite
<1>6. CASE ResetState(u) \/ ResetPairings(u)
  BY <1>2, <1>6 DEF ResetState, ResetPairings
<1> QED
  BY <1>3, <1>5, <1>6
  DEF TaskStep, Notify, NotifyList, NotifyVisit, StateRead, Indicate, NotifyMove, KeyAge,
      ReadKey, AdvertiseChange, Reset

LEMMA HostKeeps ==
  ASSUME TypeInv, NEW t \in Tasks, AloneKeeps(t), HostStep
  PROVE  AloneKeeps(t)'
<1>1. /\ Host \in Threads /\ Host # t /\ flash \in Flash /\ ctl \in Knowledge
      /\ session \in [Handles -> Session]
  BY HostIsThread, ConstantsAssumption DEF TypeInv, TypeOK
<1>2. ASSUME NEW l, Disturbs(Host, l)
      PROVE  AloneKeeps(t)'
  BY <1>1, <1>2, OtherTask DEF AloneKeeps
<1>3. ASSUME NEW l, Goes(Host, l), UNCHANGED <<flash, conns, adv, ctl>>,
             \A h \in Handles : session'[h].secret = session[h].secret
      PROVE  AloneKeeps(t)'
  BY <1>1, <1>3, OtherTask, SteadyKeeps DEF Steady
<1>4. CASE AdvertiseRegular \/ GetKey \/ CreateKey
  BY <1>3, <1>4 DEF AdvertiseRegular, GetKey, CreateKey
<1>5. CASE WriteKey \/ WriteKeyState
  BY <1>2, <1>3, <1>5 DEF WriteKey, WriteKeyState
<1>6. CASE Reply
  <2>1. \A h \in Handles : session'[h].secret = session[h].secret
    BY <1>1, <1>6 DEF Reply, Session
  <2> QED
    BY <1>3, <1>6, <2>1 DEF Reply
<1>7. CASE \E h \in Handles, again \in BOOLEAN : Configure(h, again)
  <2>1. \A h \in Handles : session'[h].secret = session[h].secret
    BY <1>1, <1>7 DEF Configure, Session
  <2> QED
    BY <1>3, <1>7, <2>1 DEF Configure
<1>8. CASE \E h \in Handles : Connect(h) \/ Disconnect(h) \/ Verify(h)
  BY <1>2, <1>8 DEF Connect, Disconnect, Verify
<1>9. CASE \E h \in Handles : Pair(h)
  <2>1. flash'.state = flash.state /\ flash'.key = flash.key
    BY <1>1, <1>9 DEF Pair, Flash
  <2> QED
    BY <1>9, <2>1, SteadyKeeps DEF Pair, Steady
<1> QED
  BY <1>4, <1>5, <1>6, <1>7, <1>8, <1>9 DEF HostStep

LEMMA ControllerKeepsAlone ==
  ASSUME TypeInv, TellsInv, NEW t \in Tasks, AloneKeeps(t),
         HearRegular \/ HearChange \/ \E h \in Handles : ReadReply(h)
  PROVE  AloneKeeps(t)'
<1>1. ctl \in Knowledge /\ session \in [Handles -> Session]
  BY DEF TypeInv, TypeOK
<1>2. UNCHANGED <<flash, conns, adv, thread>>
  BY DEF HearRegular, HearChange, ReadReply
<1>3. \A n : Learns(n).seen = n /\ Learns(n).undone = ctl.undone
  BY <1>1 DEF Learns, Knowledge
<1>4. ctl'.undone = ctl.undone
  BY <1>1, <1>3 DEF HearRegular, HearChange, ReadReply, Learns, Knowledge
<1>5. CASE HearRegular \/ HearChange
  <2>1. adv.on /\ ctl'.seen = adv.fields.state /\ session' = session
    BY <1>1, <1>5 DEF HearRegular, HearChange, Learns, Knowledge
  <2> QED
    BY <1>2, <1>4, <2>1, SteadyKeeps DEF Steady
<1>6. CASE \E h \in Handles : ReadReply(h)
  <2>1. PICK h \in Handles : ReadReply(h)
    BY <1>6
  <2>2. Connected(h)
    BY <2>1 DEF ReadReply, TellsInv, SessionsInv
  <2>3. conns # <<>>
    BY <2>2 DEF Connected
  <2>4. \A g \in Handles : session'[g].secret = session[g].secret
    <3>1. session' = [session EXCEPT ![h].key = Null, ![h].state = 0]
      BY <2>1 DEF ReadReply
    <3> QED
      BY <1>1, <3>1 DEF Session
  <2> QED
    BY <1>2, <1>4, <2>3, <2>4, SteadyKeeps DEF Steady
<1> QED
  BY <1>5, <1>6

\* Before the accessory is up no task notifies, and none does after a restart.
LEMMA StartKeepsAlone ==
  ASSUME Inv, NEW t \in Tasks, Boot \/ Restarts
  PROVE  AloneKeeps(t)'
<1>1. t \in Threads /\ TypeInv
  BY HostIsThread DEF Inv
<1>2. thread'[t].pc = "idle"
  <2>1. CASE Restarts
    BY <1>1, <2>1 DEF Restarts, Idle
  <2>2. CASE Boot
    <3>1. phase # "up" /\ (thread' = thread \/ \E l : Goes(Host, l))
      BY <2>2 DEF Boot, SameRevision, NewRevision, WriteCounter, InitState, InitNext
    <3>2. thread'[t] = thread[t]
      BY <1>1, <3>1, OtherTask, HostIsThread, ConstantsAssumption
    <3> QED
      BY <1>1, <3>1, <3>2 DEF Inv, PayloadInv
  <2> QED
    BY <2>1, <2>2
<1> QED
  BY <1>2 DEF AloneKeeps, Begun, Broadcasting, Indicating, NotifyPcs

LEMMA AdvertiserKeeps ==
  ASSUME TypeInv, NEW t \in Tasks, AloneKeeps(t),
         NEW u \in Threads, AdvStop(u) \/ AdvSet(u) \/ AdvStart(u)
  PROVE  AloneKeeps(t)'
<1>1. /\ t \in Threads /\ thread \in [Threads -> Thread] /\ thread[t] \in Thread
      /\ adv \in [on : BOOLEAN, fields : Fields]
  BY HostIsThread DEF TypeInv, TypeOK
<1>2. \E l : Disturbs(u, l)
  BY DEF AdvStop, AdvSet, AdvStart
<1>3. CASE u # t
  BY <1>2, <1>3, OtherTask DEF AloneKeeps
<1>4. CASE u = t
  <2>1. UNCHANGED <<flash, conns, session, ctl>>
    BY DEF AdvStop, AdvSet, AdvStart
  <2>2. \A l : Disturbs(t, l) => thread'[t] = l
    BY <1>1 DEF Disturbs
  <2>3. CASE AdvStart(u)
    <3>1. ~thread'[t].alone
      BY <1>4, <2>2, <2>3 DEF AdvStart, Idle
    <3> QED
      BY <3>1 DEF AloneKeeps
  <2>4. CASE AdvStop(u) \/ AdvSet(u)
    <3>1. SUFFICES ASSUME thread[t].alone
                   PROVE  Begun(t)' /\ Broadcasting(t)' /\ Indicating(t)'
      <4>1. thread'[t].alone => thread[t].alone
        BY <1>1, <1>4, <2>2, <2>4 DEF AdvStop, AdvSet, Thread
      <4> QED
        BY <4>1 DEF AloneKeeps
    <3>2. Begun(t) /\ Broadcasting(t) /\ Indicating(t)
      BY <3>1 DEF AloneKeeps
    <3>3. thread[t].pc \in {"stop", "set"}
      BY <1>4, <2>4 DEF AdvStop, AdvSet, At
    <3>4. thread[t].conn = Null
      BY <3>2, <3>3 DEF Indicating
    <3>5. /\ conns = <<>> /\ thread[t].fields = News
          /\ thread[t].pc = "set" => ~adv.on
          /\ ~ctl.undone => StateIsNew
      BY <3>2, <3>3, <3>4 DEF Broadcasting
    <3>6. thread'[t].pc \in {"set", "start"} /\ thread'[t].conn = Null
      BY <1>1, <1>4, <2>2, <2>4, <3>4 DEF AdvStop, AdvSet, Thread
    <3>7. Begun(t)' /\ Indicating(t)'
      BY <3>6 DEF Begun, Indicating, NotifyPcs
    <3>8. ~adv'.on
      <4>1. CASE AdvStop(u)
        BY <4>1 DEF AdvStop, Silent
      <4>2. CASE AdvSet(u)
        <5>1. thread[t].pc = "set" /\ adv'.on = adv.on
          BY <1>1, <1>4, <4>2 DEF AdvSet, At
        <5> QED
          BY <3>5, <5>1
      <4> QED
        BY <2>4, <4>1, <4>2
    <3>9. /\ thread'[t].pc = "set" => thread'[t].fields = News
          /\ thread'[t].pc = "start" => adv'.fields = News
      <4>1. CASE AdvStop(u)
        <5>1. thread'[t] = [thread[t] EXCEPT !.pc = "set"]
          BY <1>4, <2>2, <4>1 DEF AdvStop
        <5> QED
          BY <1>1, <3>5, <5>1 DEF Thread
      <4>2. CASE AdvSet(u)
        <5>1. thread'[t] = [thread[t] EXCEPT !.pc = "start", !.fields = NoFields]
          BY <1>4, <2>2, <4>2 DEF AdvSet
        <5>2. adv'.fields = thread[t].fields
          BY <1>1, <1>4, <4>2 DEF AdvSet
        <5> QED
          BY <1>1, <3>5, <5>1, <5>2 DEF Thread
      <4> QED
        BY <2>4, <4>1, <4>2
    <3>10. News' = News
      BY <2>1 DEF News
    <3>11. ~ctl'.undone => StateIsNew'
      BY <2>1, <3>5, <3>8 DEF StateIsNew
    <3>12. Broadcasting(t)'
      BY <2>1, <3>5, <3>6, <3>8, <3>9, <3>10, <3>11 DEF Broadcasting
    <3> QED
      BY <3>7, <3>12
  <2> QED
    BY <2>3, <2>4
<1> QED
  BY <1>3, <1>4

\* At the same connection, one step further with it.
LEMMA AtConnection ==
  ASSUME TypeInv, NEW t \in Tasks, AloneKeeps(t), UNCHANGED <<conns, session>>,
         thread' \in [Threads -> Thread],
         thread[t].conn # Null, thread[t].pc \notin {"idle", "move"},
         thread'[t].alone => thread[t].alone,
         thread'[t].conn = thread[t].conn, thread'[t].fields = thread[t].fields,
         thread'[t].pc \in {"read", "write", "indicate", "move"},
         thread'[t].pc # "move" =>
           /\ thread'[t].alone => Secure(thread[t].conn)
           /\ thread'[t].failed = thread[t].failed /\ thread'[t].told = thread[t].told,
         thread'[t].pc = "move" /\ thread'[t].alone => Passes(thread[t], thread'[t])
  PROVE  AloneKeeps(t)'
<1>1. SUFFICES ASSUME thread[t].alone, thread'[t].alone
               PROVE  Begun(t)' /\ Broadcasting(t)' /\ Indicating(t)'
  BY DEF AloneKeeps
<1>2. Begun(t) /\ Indicating(t)
  BY <1>1 DEF AloneKeeps
<1>3. PICK n \in DOMAIN conns : conns[n] = thread[t].conn /\ Walked(n - 1, thread[t])
  BY <1>2 DEF Indicating, Passed
<1>4. /\ n \in 1..Len(conns) /\ Len(conns) \in Nat /\ DOMAIN conns = 1..Len(conns)
      /\ thread[t].failed \in BOOLEAN /\ thread'[t].failed \in BOOLEAN
  BY HostIsThread, ThreadType DEF TypeInv, TypeOK
<1>5. thread'[t].pc # "move" => Walked(n - 1, thread'[t])
  BY <1>3 DEF Walked
<1>6. thread'[t].pc = "move" => Walked(n, thread'[t])
  BY <1>1, <1>3, <1>4, WalkedNext
<1>7. PICK k : k = Passed(t, n)'
  OBVIOUS
<1>8. k \in 0..Len(conns) /\ k \in Nat /\ Walked(k, thread'[t])
  BY <1>4, <1>5, <1>6, <1>7 DEF Passed
<1>9. \A h : Secure(h)' <=> Secure(h)
  BY DEF Secure
<1>10. Walked(k, thread[t])'
  BY <1>4, <1>8, <1>9, WalkedStays
<1>11. Indicating(t)'
  <2>1. \E i \in DOMAIN conns : conns[i] = thread'[t].conn /\ Walked(Passed(t, i), thread[t])'
    BY <1>3, <1>7, <1>10
  <2>2. thread'[t].pc \notin {"visit", "move"} => Secure(thread[t].conn)
    BY <1>1
  <2> QED
    BY <1>9, <2>1, <2>2 DEF Indicating
<1>12. Begun(t)' /\ Broadcasting(t)'
  <2>1. thread[t].pc \in NotifyPcs \ {"change"}
    BY <1>2 DEF Indicating, NotifyPcs
  <2> QED
    BY <1>2, <2>1 DEF Begun, Broadcasting
<1> QED
  BY <1>11, <1>12

\* The task's own steps up to the advertisement.
LEMMA OwnStepKeeps ==
  ASSUME Inv, NoticeInv, NEW t \in Tasks, AloneKeeps(t), TaskStep(t), ~NotifyPanics(t)
  PROVE  AloneKeeps(t)'
<1> DEFINE l == thread[t]
<1>1. /\ t \in Threads /\ thread \in [Threads -> Thread] /\ l \in Thread
      /\ conns \in Seq(Handles) /\ flash \in Flash /\ ctl \in Knowledge /\ TypeInv
  BY HostIsThread DEF Inv, TypeInv, TypeOK
<1>2. \A m : (Goes(t, m) => thread'[t] = m) /\ (Disturbs(t, m) => thread'[t] = m)
  BY <1>1 DEF Goes, Disturbs
<1>3. /\ Idle.pc = "idle" /\ ~Idle.alone /\ Idle.conn = Null /\ Idle.fields = NoFields
      /\ Null \notin Handles
  BY ConstantsAssumption DEF Idle
<1>4. CASE Notify(t)
  <2>1. thread'[t] = [Idle EXCEPT !.pc = "list", !.alone = TRUE]
    BY <1>2, <1>4 DEF Notify
  <2>2. /\ thread'[t].pc = "list" /\ thread'[t].conn = Null /\ thread'[t].fields = NoFields
        /\ ~thread'[t].failed /\ thread'[t].told = {}
    BY <2>1 DEF Idle
  <2> QED
    BY <2>2 DEF AloneKeeps, Begun, Broadcasting, Indicating
<1>5. CASE Reset(t) \/ ResetState(t) \/ ResetPairings(t)
  <2>1. ~thread'[t].alone
    BY <1>2, <1>5 DEF Reset, ResetState, ResetPairings, Idle
  <2> QED
    BY <2>1 DEF AloneKeeps
<1>6. CASE thread'[t] = Idle
  BY <1>3, <1>6 DEF AloneKeeps
<1>7. ASSUME l.alone
      PROVE  Begun(t) /\ Broadcasting(t) /\ Indicating(t)
  BY <1>7 DEF AloneKeeps
<1>a. thread' \in [Threads -> Thread]
  BY <1>1, TaskType DEF TypeInv, TypeOK
<1>8. CASE NotifyList(t)
  <2>1. l.pc = "list" /\ UNCHANGED <<flash, conns, session, adv, ctl>>
    BY <1>8 DEF NotifyList, At
  <2>2. PICK m \in Thread :
          /\ Goes(t, m)
          /\ m.fields = l.fields
          /\ \/ conns = <<>> /\ m.pc = "read" /\ m.conn = l.conn
             \/ conns # <<>> /\ m.pc = "visit" /\ m.conn = Head(conns)
          /\ m.alone => l.alone /\ m.failed = l.failed /\ m.told = l.told
    BY <1>1, <1>8, ListBecomes
  <2>3. thread'[t] = m
    BY <1>2, <2>2
  <2>4. SUFFICES ASSUME m.alone
                 PROVE  Begun(t)' /\ Broadcasting(t)' /\ Indicating(t)'
    BY <2>3 DEF AloneKeeps
  <2>5. l.conn = Null /\ l.fields = NoFields /\ ~l.failed /\ l.told = {}
    BY <1>7, <2>1, <2>2, <2>4 DEF Begun, NotifyPcs
  <2>6. CASE conns = <<>>
    <3>1. thread'[t].pc = "read" /\ thread'[t].conn = Null /\ thread'[t].fields = NoFields
      BY <2>2, <2>3, <2>5, <2>6
    <3> QED
      BY <2>1, <2>6, <3>1 DEF Begun, Broadcasting, Indicating
  <2>7. CASE conns # <<>>
    <3>1. /\ thread'[t].pc = "visit" /\ thread'[t].conn = Head(conns)
          /\ thread'[t].fields = NoFields /\ ~thread'[t].failed /\ thread'[t].told = {}
      BY <2>2, <2>3, <2>4, <2>5, <2>7
    <3>2. /\ 1 \in DOMAIN conns /\ conns[1] = Head(conns) /\ Head(conns) \in Handles
          /\ DOMAIN conns = 1..Len(conns) /\ Len(conns) \in Nat
      BY <1>1, <2>7
    <3>3. Walked(0, thread'[t])
      BY <3>1, <3>2, WalkedNothing
    <3>4. Walked(0, thread[t])'
      BY <2>1, <3>2, <3>3, WalkedStays DEF Secure
    <3>5. Passed(t, 1)' = 0
      BY <3>1 DEF Passed
    <3> QED
      BY <1>3, <2>1, <3>1, <3>2, <3>4, <3>5 DEF Begun, Broadcasting, Indicating
  <2> QED
    BY <2>6, <2>7
<1>9. CASE NotifyVisit(t)
  <2>1. l.pc = "visit" /\ UNCHANGED <<flash, conns, session, adv, ctl>>
    BY <1>9 DEF NotifyVisit, At
  <2>2. PICK secure \in BOOLEAN :
          /\ Connected(l.conn) => (secure <=> Secure(l.conn))
          /\ Goes(t, [l EXCEPT !.pc = IF secure THEN "read" ELSE "move"])
    BY <1>9 DEF NotifyVisit
  <2>3. /\ thread'[t].alone = l.alone /\ thread'[t].conn = l.conn
        /\ thread'[t].fields = l.fields
        /\ thread'[t].failed = l.failed /\ thread'[t].told = l.told
        /\ thread'[t].pc = IF secure THEN "read" ELSE "move"
    BY <1>1, <1>2, <2>2 DEF Thread
  <2>4. SUFFICES ASSUME l.alone PROVE AloneKeeps(t)'
    BY <2>3 DEF AloneKeeps
  <2>5. l.conn # Null
    BY <1>7, <2>1, <2>4 DEF Broadcasting
  <2>6. Connected(l.conn)
    BY <1>7, <2>1, <2>4, <2>5 DEF Indicating, Connected
  <2>7. secure <=> Secure(l.conn)
    BY <2>2, <2>6
  <2>8. thread'[t].pc = "move" => Passes(l, thread'[t])
    BY <2>3, <2>7 DEF Passes
  <2> QED
    BY <1>1, <1>a, <2>1, <2>3, <2>5, <2>7, <2>8, AtConnection
<1>10. CASE StateRead(t)
  <2>1. l.pc = "read" /\ UNCHANGED <<flash, conns, session, adv, ctl>>
    BY <1>10 DEF StateRead, At
  <2>2. /\ thread'[t].alone = l.alone /\ thread'[t].conn = l.conn
        /\ thread'[t].fields = l.fields
        /\ thread'[t].failed = l.failed /\ thread'[t].told = l.told
        /\ thread'[t].pc = "write"
    BY <1>1, <1>2, <1>10 DEF StateRead, Thread
  <2>3. CASE l.conn # Null
    <3>1. l.alone => Secure(l.conn)
      BY <1>7, <2>1, <2>3 DEF Indicating
    <3> QED
      BY <1>1, <1>a, <2>1, <2>2, <2>3, <3>1, AtConnection
  <2>4. CASE l.conn = Null
    <3>1. SUFFICES ASSUME l.alone PROVE AloneKeeps(t)'
      BY <2>2 DEF AloneKeeps
    <3>2. conns = <<>> /\ l.fields = NoFields
      BY <1>7, <2>1, <2>4, <3>1 DEF Broadcasting, Begun, NotifyPcs
    <3> QED
      BY <2>1, <2>2, <2>4, <3>2 DEF AloneKeeps, Begun, Broadcasting, Indicating
  <2> QED
    BY <2>3, <2>4
<1>11. CASE StateWrite(t)
  <2> DEFINE m == AfterWrite(t)
  <2>1. /\ m.alone = l.alone /\ m.conn = l.conn /\ m.fields = l.fields
        /\ m.failed = l.failed /\ m.told = l.told
        /\ m.pc = IF l.conn = Null THEN "age" ELSE "indicate"
        /\ ~Disturbed(m).alone
    BY <1>1 DEF AfterWrite, Disturbed, Thread
  <2>2. l.pc = "write" /\ phase = "up" /\ UNCHANGED <<conns, session, adv>>
    BY <1>11 DEF StateWrite, At
  <2>3. CASE Goes(t, Disturbed(m))
    BY <1>2, <2>1, <2>3 DEF AloneKeeps
  <2>4. CASE /\ MayChange
             /\ flash' = [flash EXCEPT !.state = l.value]
             /\ ctl' = [ctl EXCEPT !.undone = @ \/ l.value # Following(flash.state)]
             /\ Disturbs(t, m)
    <3>1. thread'[t] = m
      BY <1>2, <2>4
    <3>2. CASE l.conn # Null
      <4>1. l.alone => Secure(l.conn)
        BY <1>7, <2>2, <3>2 DEF Indicating
      <4> HIDE DEF m
      <4> QED
        BY <1>1, <1>a, <2>1, <2>2, <3>1, <3>2, <4>1, AtConnection
    <3>3. CASE l.conn = Null
      <4>1. SUFFICES ASSUME l.alone PROVE AloneKeeps(t)'
        BY <2>1, <3>1 DEF AloneKeeps
      <4>2. conns = <<>> /\ l.fields = NoFields
        BY <1>7, <2>2, <3>3, <4>1 DEF Broadcasting, Begun, NotifyPcs
      <4>3. ~ctl'.undone => StateIsNew'
        <5>1. SUFFICES ASSUME ~ctl'.undone PROVE StateIsNew'
          OBVIOUS
        <5>2. ~ctl.undone /\ ctl'.seen = ctl.seen /\ flash'.state = Following(flash.state)
          BY <1>1, <2>4, <5>1 DEF Knowledge, Flash
        <5>3. flash.state # 0
          BY <2>2, <5>2 DEF NoticeInv
        <5>4. ctl.seen \in 0..MaxState /\ adv.fields.state \in 0..MaxState
          BY <1>1 DEF TypeInv, TypeOK, Knowledge, Fields
        <5>5. adv.on => adv.fields.state \in Offered
          BY DEF Offered
        <5> QED
          BY <1>1, <2>2, <2>4, <5>2, <5>3, <5>4, <5>5, ChangeIsNew DEF StateIsNew
      <4>4. thread'[t].pc = "age" /\ thread'[t].conn = Null /\ thread'[t].fields = NoFields
        BY <2>1, <3>1, <3>3, <4>2
      <4> QED
        BY <2>2, <4>2, <4>3, <4>4 DEF AloneKeeps, Begun, Broadcasting, Indicating
    <3> QED
      BY <3>2, <3>3
  <2> QED
    BY <1>11, <2>3, <2>4 DEF StateWrite
<1>12. CASE Indicate(t)
  <2>1. l.pc = "indicate" /\ UNCHANGED <<conns, session>>
    BY <1>12 DEF Indicate, At
  <2>2. PICK m \in Thread :
          /\ Goes(t, m)
          /\ m.pc = "move" /\ m.conn = l.conn /\ m.fields = l.fields
          /\ m.alone =>
               /\ l.alone
               /\ \/ /\ ~l.failed /\ Connected(Cut(l.conn))
                     /\ ~m.failed /\ m.told = l.told \cup {Cut(l.conn)}
                  \/ /\ l.failed \/ ~Connected(Cut(l.conn))
                     /\ m.failed /\ m.told = l.told
    BY <1>1, <1>12, IndicateBecomes
  <2>3. thread'[t] = m
    BY <1>2, <2>2
  <2>4. SUFFICES ASSUME m.alone PROVE AloneKeeps(t)'
    BY <2>3 DEF AloneKeeps
  <2>5. l.alone
    BY <2>2, <2>4
  <2>6. l.conn # Null
    BY <1>7, <2>1, <2>5 DEF Broadcasting
  <2>7. Secure(l.conn)
    BY <1>7, <2>1, <2>5, <2>6 DEF Indicating
  <2>8. Passes(l, m)
    BY <2>2, <2>4, <2>7 DEF Passes
  <2> QED
    BY <1>1, <1>a, <2>1, <2>2, <2>3, <2>5, <2>6, <2>8, AtConnection
<1>13. CASE NotifyMove(t)
  <2>1. l.pc = "move" /\ UNCHANGED <<conns, session>>
    BY <1>13 DEF NotifyMove, At
  <2>2. PICK next \in Handles \cup {Null} :
          /\ \A n \in DOMAIN conns : conns[n] = l.conn =>
               next = IF n = Len(conns) THEN Null ELSE conns[n + 1]
          /\ Goes(t, IF next = Null THEN Idle ELSE [l EXCEPT !.pc = "visit", !.conn = next])
    BY <1>13 DEF NotifyMove
  <2>3. CASE next = Null
    BY <1>2, <1>6, <2>2, <2>3
  <2>4. CASE next # Null
    <3>1. /\ thread'[t].alone = l.alone /\ thread'[t].conn = next
          /\ thread'[t].fields = l.fields
          /\ thread'[t].failed = l.failed /\ thread'[t].told = l.told
          /\ thread'[t].pc = "visit"
      BY <1>1, <1>2, <2>2, <2>4 DEF Thread
    <3>2. SUFFICES ASSUME l.alone PROVE AloneKeeps(t)'
      BY <3>1 DEF AloneKeeps
    <3>3. l.conn # Null /\ l.fields = NoFields
      BY <1>7, <2>1, <3>2 DEF Broadcasting, Begun, NotifyPcs
    <3>4. PICK n \in DOMAIN conns : conns[n] = l.conn /\ Walked(n, l)
      BY <1>7, <2>1, <3>2, <3>3 DEF Indicating, Passed
    <3>5. n # Len(conns) /\ next = conns[n + 1]
      BY <2>2, <2>4, <3>4
    <3>6. /\ n + 1 \in DOMAIN conns /\ (n + 1) - 1 = n /\ n \in Nat /\ n \in 0..Len(conns)
          /\ Len(conns) \in Nat /\ DOMAIN conns = 1..Len(conns)
      BY <1>1, <3>4, <3>5
    <3>7. Walked(n, thread'[t])
      BY <3>1, <3>4 DEF Walked
    <3>8. Walked(n, thread[t])'
      BY <2>1, <3>6, <3>7, WalkedStays DEF Secure
    <3>9. PICK k : k = n + 1
      OBVIOUS
    <3>10. Passed(t, k)' = n
      BY <3>1, <3>6, <3>9 DEF Passed
    <3>11. Indicating(t)'
      BY <2>1, <3>1, <3>5, <3>6, <3>8, <3>9, <3>10 DEF Indicating
    <3>12. Begun(t)' /\ Broadcasting(t)'
      BY <2>4, <3>1, <3>3 DEF Begun, Broadcasting
    <3> QED
      BY <3>11, <3>12 DEF AloneKeeps
  <2> QED
    BY <2>3, <2>4
<1>14. CASE KeyAge(t) \/ ReadKey(t) \/ AdvertiseChange(t)
  <2>1. l.pc \in {"age", "key", "change"} /\ UNCHANGED <<flash, conns, session, adv, ctl>>
    BY <1>14 DEF KeyAge, ReadKey, AdvertiseChange, At
  <2>2. SUFFICES ASSUME thread'[t] # Idle PROVE AloneKeeps(t)'
    BY <1>6
  <2>3. /\ thread'[t].alone = l.alone /\ thread'[t].conn = l.conn
        /\ l.pc = "age" => thread'[t].pc = "key" /\ thread'[t].fields = l.fields
        /\ l.pc = "key" =>
             thread'[t].pc = "change" /\ thread'[t].fields = [l.fields EXCEPT !.key = flash.key]
        /\ l.pc = "change" =>
             /\ thread'[t].pc = "stop"
             /\ thread'[t].fields = [l.fields EXCEPT !.kind = "change", !.state = flash.state]
    <3>1. CASE KeyAge(t)
      <4>1. thread'[t] = [l EXCEPT !.pc = "key"]
        BY <1>2, <2>2, <3>1 DEF KeyAge
      <4> QED
        BY <1>1, <3>1, <4>1 DEF KeyAge, At, Thread
    <3>2. CASE ReadKey(t)
      <4>1. thread'[t] = [l EXCEPT !.pc = "change", !.fields.key = flash.key]
        BY <1>2, <3>2 DEF ReadKey
      <4> QED
        BY <1>1, <3>2, <4>1 DEF ReadKey, At, Thread
    <3>3. CASE AdvertiseChange(t)
      <4>1. thread'[t] = [l EXCEPT !.pc = "stop", !.fields.kind = "change",
                                   !.fields.state = flash.state]
        BY <1>2, <3>3 DEF AdvertiseChange
      <4> QED
        BY <1>1, <3>3, <4>1 DEF AdvertiseChange, At, Thread
    <3> QED
      BY <1>14, <3>1, <3>2, <3>3
  <2>4. SUFFICES ASSUME l.alone PROVE AloneKeeps(t)'
    BY <2>3 DEF AloneKeeps
  <2>5. l.conn = Null
    BY <1>7, <2>1, <2>4 DEF Indicating
  <2>6. /\ conns = <<>>
        /\ l.pc = "change" => l.fields = [NoFields EXCEPT !.key = flash.key]
        /\ ~ctl.undone => StateIsNew
    BY <1>7, <2>1, <2>4, <2>5 DEF Broadcasting
  <2>7. l.pc \in {"age", "key"} => l.fields = NoFields
    BY <1>7, <2>4 DEF Begun, NotifyPcs
  <2>8. thread'[t].pc = "stop" => thread'[t].fields = News'
    BY <2>1, <2>3, <2>6 DEF News, NoFields
  <2>9. ~ctl'.undone => StateIsNew'
    BY <2>1, <2>6 DEF StateIsNew
  <2>10. thread'[t].pc = "change" => thread'[t].fields = [NoFields EXCEPT !.key = flash'.key]
    BY <2>1, <2>3, <2>7
  <2>11. thread'[t].pc \in {"key", "change", "stop"} /\ thread'[t].conn = Null
    BY <2>1, <2>3, <2>5
  <2>12. Begun(t)' /\ Indicating(t)'
    BY <2>1, <2>3, <2>7, <2>11 DEF Begun, Indicating, NotifyPcs
  <2>13. Broadcasting(t)'
    BY <2>1, <2>6, <2>8, <2>9, <2>10, <2>11 DEF Broadcasting
  <2> QED
    BY <2>12, <2>13 DEF AloneKeeps
<1> QED
  BY <1>4, <1>5, <1>8, <1>9, <1>10, <1>11, <1>12, <1>13, <1>14 DEF TaskStep

LEMMA NextAlone ==
  Inv /\ NoticeInv /\ TellsInv /\ AloneInv /\ [Next]_vars => AloneInv'
<1> SUFFICES ASSUME Inv, NoticeInv, TellsInv, AloneInv, [Next]_vars, NEW t \in Tasks
             PROVE  AloneKeeps(t)'
  BY DEF AloneInv
<1>1. TypeInv /\ AloneKeeps(t) /\ Tasks \subseteq Threads
  BY HostIsThread DEF Inv, AloneInv
<1>2. CASE UNCHANGED vars
  BY <1>1, <1>2, SteadyKeeps DEF vars, Steady
<1>3. CASE Crash \/ Update \/ \E u \in Tasks : NotifyPanics(u)
  <2>1. Restarts
    BY <1>3 DEF Crash, Update, NotifyPanics
  <2> QED
    BY <2>1, StartKeepsAlone
<1>4. CASE \E u \in Tasks : TaskStep(u) /\ ~NotifyPanics(u)
  BY <1>1, <1>4, OwnStepKeeps, OtherTaskKeeps
<1>5. CASE Next
  BY <1>1, <1>3, <1>4, <1>5, StartKeepsAlone, HostKeeps, AdvertiserKeeps, ControllerKeepsAlone
  DEF Next
<1> QED
  BY <1>2, <1>5

LEMMA InitAlone == Init => AloneInv
<1> SUFFICES ASSUME Init, NEW t \in Tasks PROVE AloneKeeps(t)
  BY DEF AloneInv
<1>1. ~thread[t].alone
  BY HostIsThread DEF Init, Idle
<1> QED
  BY <1>1 DEF AloneKeeps

\* Only these steps end what a task does; a restart ends all.
LEMMA NotifyEnds ==
  ASSUME Inv, NEW t \in Tasks, Next, thread[t].pc # "idle", thread'[t].pc = "idle",
         phase' = "up"
  PROVE  NotifyMove(t) \/ KeyAge(t) \/ ResetPairings(t) \/ AdvStart(t)
<1>1. /\ t \in Threads /\ thread \in [Threads -> Thread] /\ thread[t] \in Thread
      /\ TypeInv /\ Host \in Threads /\ Host # t /\ Tasks \subseteq Threads
  BY HostIsThread, ConstantsAssumption DEF Inv, TypeInv, TypeOK
<1>2. ASSUME NEW u \in Threads, NEW l, u # t, Goes(u, l) \/ Disturbs(u, l)
      PROVE  FALSE
  BY <1>1, <1>2, OthersKeep DEF Only
<1>3. phase = "up" /\ ~Restarts /\ thread' # thread
  <2>1. ~Restarts /\ thread' # thread
    BY DEF Restarts
  <2>2. phase = "up"
    BY <1>1 DEF Inv, PayloadInv
  <2> QED
    BY <2>1, <2>2
<1>4. ~Boot
  BY <1>3 DEF Boot, SameRevision, NewRevision, WriteCounter, InitState, InitNext
<1>5. ~Crash /\ ~Update /\ \A u \in Tasks : ~NotifyPanics(u)
  BY <1>3 DEF Crash, Update, NotifyPanics
<1>6. ~HearRegular /\ ~HearChange /\ \A h \in Handles : ~ReadReply(h)
  BY <1>3 DEF HearRegular, HearChange, ReadReply
<1>7. ~HostStep
  <2>1. \A h \in Handles : ~Pair(h)
    BY <1>3 DEF Pair
  <2>2. HostStep => \E l : Goes(Host, l) \/ Disturbs(Host, l)
    BY <2>1
    DEF HostStep, AdvertiseRegular, Connect, Disconnect, Verify, Configure, GetKey, CreateKey,
        WriteKey, WriteKeyState, Reply
  <2> QED
    BY <1>1, <1>2, <2>2
<1>8. ASSUME NEW u \in Threads, AdvStop(u) \/ AdvSet(u) \/ AdvStart(u)
      PROVE  AdvStart(t)
  <2>1. u = t
    BY <1>2, <1>8 DEF AdvStop, AdvSet, AdvStart
  <2>2. ~AdvStop(t) /\ ~AdvSet(t)
    <3>1. [thread[t] EXCEPT !.pc = "set"].pc = "set"
      BY <1>1 DEF Thread
    <3>2. [thread[t] EXCEPT !.pc = "start", !.fields = NoFields].pc = "start"
      BY <1>1 DEF Thread
    <3> QED
      BY <1>1, <3>1, <3>2 DEF AdvStop, AdvSet, Disturbs
  <2> QED
    BY <1>8, <2>1, <2>2
<1>9. ASSUME NEW u \in Tasks, TaskStep(u)
      PROVE  NotifyMove(t) \/ KeyAge(t) \/ ResetPairings(t)
  <2>1. \E l : Goes(u, l) \/ Disturbs(u, l)
    BY <1>5, <1>9
    DEF TaskStep, Notify, NotifyList, NotifyVisit, StateRead, StateWrite, Indicate, NotifyMove,
        KeyAge, ReadKey, AdvertiseChange, Reset, ResetState, ResetPairings
  <2>2. u = t
    BY <1>1, <1>2, <2>1
  <2>3. \A l : Goes(t, l) \/ Disturbs(t, l) => l.pc = "idle"
    BY <1>1 DEF Goes, Disturbs
  <2>4. ~Notify(t) /\ ~Reset(t) /\ ~ResetState(t)
    <3>1. /\ [Idle EXCEPT !.pc = "list", !.alone = TRUE].pc = "list"
          /\ [Idle EXCEPT !.pc = "reset_state"].pc = "reset_state"
          /\ [Idle EXCEPT !.pc = "reset_pairings"].pc = "reset_pairings"
      BY DEF Idle
    <3> QED
      BY <2>3, <3>1 DEF Notify, Reset, ResetState
  <2>5. ~NotifyList(t) /\ ~NotifyVisit(t) /\ ~StateRead(t)
    <3>1. /\ \A pc : [thread[t] EXCEPT !.pc = pc].pc = pc
          /\ \A n : [thread[t] EXCEPT !.pc = "write", !.value = n].pc = "write"
      BY <1>1 DEF Thread
    <3>2. ~NotifyList(t)
      BY <1>1, <2>3, ListBecomes
    <3>3. ~NotifyVisit(t)
      BY <2>3, <3>1 DEF NotifyVisit
    <3>4. ~StateRead(t)
      BY <2>3, <3>1 DEF StateRead
    <3> QED
      BY <3>2, <3>3, <3>4
  <2>6. ~StateWrite(t)
    <3>1. /\ AfterWrite(t).pc \in {"age", "indicate"}
          /\ Disturbed(AfterWrite(t)).pc \in {"age", "indicate"}
      BY <1>1 DEF AfterWrite, Disturbed, Thread
    <3> QED
      BY <2>3, <3>1 DEF StateWrite
  <2>7. ~Indicate(t)
    BY <1>1, <2>3, IndicateBecomes
  <2>8. ~ReadKey(t) /\ ~AdvertiseChange(t)
    <3>1. [thread[t] EXCEPT !.pc = "change", !.fields.key = flash.key].pc = "change"
      BY <1>1 DEF Thread
    <3>2. [thread[t] EXCEPT !.pc = "stop", !.fields.kind = "change",
                            !.fields.state = flash.state].pc = "stop"
      BY <1>1 DEF Thread
    <3> QED
      BY <2>3, <3>1, <3>2 DEF ReadKey, AdvertiseChange
  <2> QED
    BY <1>5, <1>9, <2>2, <2>4, <2>5, <2>6, <2>7, <2>8 DEF TaskStep
<1> QED
  BY <1>4, <1>5, <1>6, <1>7, <1>8, <1>9 DEF Next

LEMMA EndAnnounces ==
  ASSUME Inv, TellsInv, AloneInv, NEW t \in Tasks, Next,
         thread[t].alone, thread[t].pc # "idle", thread'[t].pc = "idle", phase' = "up"
  PROVE  IF thread[t].conn = Null
         THEN KeyUsable =>
                /\ adv'.on
                /\ adv'.fields = [kind |-> "change", state |-> flash.state,
                                  counter |-> Null, key |-> flash.key]
                /\ ~ctl.lost => flash.key = ctl.key
                /\ ~ctl.undone => flash.state # ctl.seen
         ELSE thread[t].told = {Cut(conns[n]) : n \in Reached}
<1>1. /\ t \in Threads /\ thread \in [Threads -> Thread] /\ thread[t] \in Thread
      /\ TypeInv /\ conns \in Seq(Handles) /\ adv \in [on : BOOLEAN, fields : Fields]
  BY HostIsThread DEF Inv, TypeInv, TypeOK
<1>2. Begun(t) /\ Broadcasting(t) /\ Indicating(t)
  BY DEF AloneInv, AloneKeeps
<1>3. NotifyMove(t) \/ KeyAge(t) \/ AdvStart(t)
  <2>1. ~ResetPairings(t)
    BY <1>2 DEF Begun, ResetPairings, At
  <2> QED
    BY <2>1, NotifyEnds
<1>4. CASE thread[t].conn = Null
  <2>1. SUFFICES ASSUME KeyUsable
                 PROVE  /\ adv'.on
                        /\ adv'.fields = News
                        /\ ~ctl.lost => flash.key = ctl.key
                        /\ ~ctl.undone => flash.state # ctl.seen
    BY <1>4 DEF News
  <2>2. ~NotifyMove(t)
    BY <1>2, <1>4 DEF Broadcasting, NotifyMove, At
  <2>3. ~KeyAge(t)
    <3>1. [thread[t] EXCEPT !.pc = "key"].pc = "key"
      BY <1>1 DEF Thread
    <3> QED
      BY <1>1, <2>1, <3>1 DEF KeyAge, Goes
  <2>4. AdvStart(t) /\ thread[t].pc = "start"
    BY <1>3, <2>2, <2>3 DEF AdvStart, At
  <2>5. conns = <<>> /\ adv.fields = News /\ (~ctl.undone => flash.state # ctl.seen)
    BY <1>2, <1>4, <2>4 DEF Broadcasting, StateIsNew
  <2>6. adv'.on /\ adv'.fields = News
    BY <1>1, <2>4, <2>5 DEF AdvStart
  <2> QED
    BY <2>5, <2>6 DEF TellsInv, KeyInv
<1>5. CASE thread[t].conn # Null
  <2>1. PICK n \in DOMAIN conns :
          conns[n] = thread[t].conn /\ Walked(Passed(t, n), thread[t])
    BY <1>2, <1>5 DEF Indicating
  <2>2. NotifyMove(t)
    BY <1>2, <1>3, <1>5 DEF Indicating, KeyAge, AdvStart, At
  <2>3. PICK next \in Handles \cup {Null} :
          /\ \A m \in DOMAIN conns : conns[m] = thread[t].conn =>
               next = IF m = Len(conns) THEN Null ELSE conns[m + 1]
          /\ Goes(t, IF next = Null THEN Idle ELSE [thread[t] EXCEPT !.pc = "visit", !.conn = next])
    BY <2>2 DEF NotifyMove
  <2>4. next = Null
    <3>1. [thread[t] EXCEPT !.pc = "visit", !.conn = next].pc = "visit"
      BY <1>1 DEF Thread
    <3> QED
      BY <1>1, <2>3, <3>1 DEF Goes
  <2>5. n = Len(conns)
    <3>1. n # Len(conns) => n + 1 \in DOMAIN conns
      BY <1>1, <2>1
    <3>2. n # Len(conns) => conns[n + 1] \in Handles
      BY <1>1, <3>1
    <3> QED
      BY <2>1, <2>3, <2>4, <3>2, ConstantsAssumption
  <2>6. thread[t].pc = "move"
    BY <2>2 DEF NotifyMove, At
  <2>7. Walked(Len(conns), thread[t]) /\ DOMAIN conns = 1..Len(conns) /\ Len(conns) \in Nat
    BY <1>1, <2>1, <2>5, <2>6 DEF Passed
  <2>8. \A i \in Reached : i <= Len(conns)
    BY <2>7 DEF Reached
  <2>9. \A x : x \in thread[t].told <=> \E i \in Reached : x = Cut(conns[i])
    BY <2>7, <2>8 DEF Walked
  <2>10. thread[t].told = {Cut(conns[i]) : i \in Reached}
    BY <2>9
  <2> QED
    BY <1>5, <2>10
<1> QED
  BY <1>4, <1>5

(***************************************************************************)
(* What hk_notify promises it keeps when nothing comes in between, for any *)
(* number of tasks and connections and whatever happened before: the       *)
(* broadcast has a state that the controller has not seen and the key that *)
(* it knows; of the connections the secure ones are indicated up to the    *)
(* first that a bool cannot name, and none after it.                       *)
(***************************************************************************)
THEOREM NotifyCorrect == Spec => UndisturbedNotifyIsAnnounced
<1> DEFINE All == Inv /\ NoticeInv /\ TellsInv /\ AloneInv
<1>1. Init => All
  BY InitInv, InitNotice, InitTells, InitAlone
<1>2. All /\ [Next]_vars => All'
  BY NextInv, NextNotice, NextTells, NextAlone DEF Inv
<1>3. All /\ [Next]_vars =>
        [\A t \in Tasks :
           thread[t].alone /\ thread[t].pc # "idle" /\ thread'[t].pc = "idle" /\ phase' = "up" =>
             IF thread[t].conn = Null
             THEN KeyUsable =>
                    /\ adv'.on
                    /\ adv'.fields = [kind |-> "change", state |-> flash.state,
                                      counter |-> Null, key |-> flash.key]
                    /\ ~ctl.lost => flash.key = ctl.key
                    /\ ~ctl.undone => flash.state # ctl.seen
             ELSE thread[t].told = {Cut(conns[n]) : n \in Reached}]_vars
  BY EndAnnounces
<1> HIDE DEF All
<1> QED
  BY <1>1, <1>2, <1>3, PTL DEF Spec, UndisturbedNotifyIsAnnounced

=============================================================================
