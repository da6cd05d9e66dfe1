----------------------------- MODULE HkBleNotify -----------------------------
(***************************************************************************)
(* How a BLE accessory tells of changes: the global state number, the      *)
(* configuration counter and the broadcast key in flash, the advertisement *)
(* that carries them, and hk_notify, which indicates a change to the       *)
(* connections or broadcasts it (stacks/ble/hk.c, hk_gatt_indicate,        *)
(* hk_gap.c, hk_broadcast_key.c, hk_protocol_configuration.c,              *)
(* hk_global_state.c).                                                     *)
(*                                                                         *)
(* The application's tasks call hk_notify and hk_reset, the NimBLE task    *)
(* (Host) runs GAP events and access callbacks; no lock keeps them apart.  *)
(* Accesses to flash, to the list of connections and to the advertisement  *)
(* are steps of their own, unless one task alone writes what they read.    *)
(* A restart runs the setup of the accessory and hk_init.                  *)
(*                                                                         *)
(* One controller may be paired.  It listens to the advertisement now and  *)
(* then; what it learned is in ctl, with the history the properties need.  *)
(* Anybody may connect and send requests.                                  *)
(***************************************************************************)
EXTENDS Integers, Sequences, FiniteSets

CONSTANTS
  Tasks,      \* tasks of the application
  Host,       \* the NimBLE task
  Handles,    \* connection handles that NimBLE gives out
  Keys,       \* broadcast keys, one for each shared secret
  Unshared,   \* stands for those of connections that are not secure
  Revisions,  \* firmware revisions
  Prefixes,   \* pairs of them, the first a proper prefix of the second: 1.0, 1.0.1
  Counters,   \* the configuration counter is kept modulo this number
  MaxAge,     \* 32767
  MaxState,   \* 65535, the largest global state
  MaxUnseen,  \* bound: changes an advertisement may lag behind
  MaxConns,   \* connections that NimBLE has room for
  Scope,      \* bounds: what happens with the firmware of a revision
  Null        \* no key, counter, revision or handle

ASSUME ConstantsAssumption ==
  /\ Host \notin Tasks
  /\ Handles \subseteq Nat
  /\ Unshared \in Keys
  /\ Prefixes \subseteq {p \in Revisions \X Revisions : p[1] # p[2]}
  /\ Counters \in Nat \ {0, 1}
  /\ MaxAge \in Nat \ {0}
  /\ MaxState = 2 * MaxAge + 1
  /\ MaxUnseen \in Nat /\ MaxUnseen + 1 < MaxState
  /\ MaxConns \in Nat
  /\ Scope \in [Revisions -> [handles : SUBSET Handles, requests : SUBSET (Handles \X BOOLEAN),
                             updates : SUBSET Revisions, faults : Nat]]
  /\ Null \notin Keys \cup Revisions \cup Handles \cup Int

VARIABLES
  flash,     \* the entries in flash
  firmware,  \* the revision the firmware was built as
  phase,     \* where the setup and hk_init are
  conns,     \* handles of the connections, newest first
  session,   \* keys of a connection, and the reply that waits to be read
  adv,       \* the advertisement
  thread,    \* program counter and locals of each task
  ctl,       \* what the paired controller knows
  faults     \* restarts, failed calls and resets that may still come

vars == <<flash, firmware, phase, conns, session, adv, thread, ctl, faults>>

Threads == Tasks \cup {Host}

-----------------------------------------------------------------------------
(* Data.                                                                   *)

\* A state of zero and a Null elsewhere stand for entries that do not exist.
Flash ==
  [state : 0..MaxState, key : Keys \cup {Null}, keyState : 0..MaxState \cup {Null},
   revision : Revisions \cup {Null}, counter : 0..(Counters - 1) \cup {Null}, paired : BOOLEAN]

NewFlash ==
  [state |-> 0, key |-> Null, keyState |-> Null, revision |-> Null, counter |-> Null,
   paired |-> FALSE]

\* The key that the shared secret gives, which says whether the connection is
\* secure, and key and global state of a reply.
NoSession == [secret |-> Unshared, key |-> Null, state |-> 0]

Session == [secret : Keys, key : Keys \cup {Null}, state : 0..MaxState]

\* What is advertised: "regular" is hk_gap_start_advertising.
Fields ==
  [kind : {"none", "regular", "change"}, state : 0..MaxState,
   counter : 0..(Counters - 1) \cup {Null}, key : Keys \cup {Null}]

NoFields == [kind |-> "none", state |-> 0, counter |-> Null, key |-> Null]

(***************************************************************************)
(* conn is the connection hk_gatt_indicate or a request works on, value a  *)
(* global state, again says that a new key was asked for, failed that      *)
(* ble_ret is not zero, told collects indicated handles.  alone is a       *)
(* history variable: since the notification began nothing that concerns it *)
(* was changed by others, no flash write failed and NimBLE found the       *)
(* characteristic and the memory.                                          *)
(***************************************************************************)
Idle ==
  [pc |-> "idle", conn |-> Null, value |-> 0, fields |-> NoFields, again |-> FALSE,
   failed |-> FALSE, told |-> {}, alone |-> FALSE]

NotifyPcs == {"list", "visit", "read", "write", "indicate", "move", "age", "key", "change"}
HostPcs == {"regular", "get", "create", "key_write", "state_write", "reply"}

Thread ==
  [pc : {"idle", "stop", "set", "start", "reset_state", "reset_pairings"}
          \cup NotifyPcs \cup HostPcs,
   conn : Handles \cup {Null}, value : 0..MaxState, fields : Fields, again : BOOLEAN,
   failed : BOOLEAN, told : SUBSET Nat, alone : BOOLEAN]

(***************************************************************************)
(* seen, counter, revision and key are what the controller learned last.   *)
(* reboot: the accessory restarted since; undone: the global state was     *)
(* once set back, or not written; lost: the broadcast key changed untold.  *)
(* counter and revision are Null again (Misled) when a failure or an       *)
(* unnoticed update left the counter behind the firmware.                  *)
(***************************************************************************)
Stranger ==
  [seen |-> 0, counter |-> Null, revision |-> Null, key |-> Null,
   reboot |-> FALSE, undone |-> FALSE, lost |-> FALSE]

Knowledge ==
  [seen : 0..MaxState, counter : 0..(Counters - 1) \cup {Null}, revision : Revisions \cup {Null},
   key : Keys \cup {Null}, reboot : BOOLEAN, undone : BOOLEAN, lost : BOOLEAN]

TypeOK ==
  /\ flash \in Flash
  /\ firmware \in Revisions
  /\ phase \in {"revision", "counter", "state", "next", "up"}
  /\ conns \in Seq(Handles)
  /\ session \in [Handles -> Session]
  /\ adv \in [on : BOOLEAN, fields : Fields]
  /\ thread \in [Threads -> Thread]
  /\ ctl \in Knowledge
  /\ faults \in Nat

Init ==
  /\ flash = NewFlash
  /\ firmware \in Revisions
  /\ phase = "revision"
  /\ conns = <<>>
  /\ session = [h \in Handles |-> NoSession]
  /\ adv = [on |-> FALSE, fields |-> NoFields]
  /\ thread = [t \in Threads |-> Idle]
  /\ ctl = Stranger
  /\ faults = Scope[firmware].faults

-----------------------------------------------------------------------------
(* Helpers.                                                                *)

Connected(h) == \E n \in DOMAIN conns : conns[n] = h

\* is_secure of a connection.
Secure(h) == session[h].secret # Unshared

\* Mutant of Following: the number has more than 16 bits.
FollowingUnbounded(n) == n + 1

\* hk_global_state_next: the number after n; it wraps and skips zero.
Following(n) == IF n = MaxState THEN 1 ELSE n + 1

\* The states that the controller may still see.
Offered ==
  {thread[t].fields.state : t \in Threads} \cup {session[h].state : h \in Handles}
    \cup (IF adv.on \/ \E t \in Threads : thread[t].pc = "start" THEN {adv.fields.state} ELSE {})

\* The bound: neither what the controller saw nor what it may see is old.
MayChange ==
  \A n \in (Offered \cup {ctl.seen}) \ {0} : (flash.state - n) % MaxState < MaxUnseen

\* hk_broadcast_key_get: both entries exist and the key is not too old.
KeyUsable == flash.keyState # Null /\ flash.keyState - flash.state <= MaxAge

Fault == faults > 0 /\ faults' = faults - 1

\* Task t goes on as l.
Goes(t, l) == thread' = [thread EXCEPT ![t] = l]

\* Whom a task told is kept as long as it is alone.
Disturbed(l) == [l EXCEPT !.alone = FALSE, !.told = {}]

\* Likewise, and others that notify are no longer alone.
Disturbs(t, l) == thread' = [u \in Threads |-> IF u = t THEN l ELSE Disturbed(thread[u])]

At(t, pc) == phase = "up" /\ thread[t].pc = pc

-----------------------------------------------------------------------------
(* Start: hk_setup_update_configuration_counter, hk_global_state_init.     *)

\* The counter was left behind: that a controller knows it says nothing.
Misled == [ctl EXCEPT !.counter = Null, !.revision = Null]

\* Mutant of NextCounter: the counter stays.
NextCounterSame == IF flash.revision = Null THEN 1 ELSE IF flash.counter = Null THEN 0 ELSE flash.counter

\* The counter for a new revision; 1 for the first, 0 if it is missing.
NextCounter ==
  IF flash.revision = Null THEN 1
  ELSE IF flash.counter = Null THEN 0
  ELSE (flash.counter + 1) % Counters

\* hk_mem_equal_str compares as many characters as are stored.
Equal == flash.revision = firmware \/ <<flash.revision, firmware>> \in Prefixes

SameRevision ==
  /\ phase = "revision"
  /\ Equal
  /\ phase' = "state"
  /\ ctl' = IF flash.revision = firmware THEN ctl ELSE Misled
  /\ UNCHANGED <<flash, firmware, conns, session, adv, thread, faults>>

\* thread[Host] keeps the new counter; NimBLE does not run yet.
NewRevision ==
  /\ phase = "revision"
  /\ ~Equal
  /\ \/ /\ flash' = [flash EXCEPT !.revision = firmware]
        /\ Goes(Host, [Idle EXCEPT !.fields.counter = NextCounter])
        /\ phase' = "counter"
        /\ UNCHANGED <<ctl, faults>>
     \/ /\ Fault
        /\ ctl' = Misled
        /\ phase' = "state"
        /\ UNCHANGED <<flash, thread>>
  /\ UNCHANGED <<firmware, conns, session, adv>>

WriteCounter ==
  /\ phase = "counter"
  /\ \/ /\ flash' = [flash EXCEPT !.counter = thread[Host].fields.counter]
        /\ UNCHANGED <<ctl, faults>>
     \/ Fault /\ ctl' = Misled /\ UNCHANGED flash
  /\ Goes(Host, Idle)
  /\ phase' = "state"
  /\ UNCHANGED <<firmware, conns, session, adv>>

\* hk_global_state_init: a missing state is reset first.
InitState ==
  /\ phase = "state"
  /\ \/ flash' = [flash EXCEPT !.state = IF @ = 0 THEN 1 ELSE @] /\ UNCHANGED faults
     \/ flash.state = 0 /\ Fault /\ UNCHANGED flash
  /\ phase' = "next"
  /\ UNCHANGED <<firmware, conns, session, adv, thread, ctl>>

\* Mutant of BootState: the state is not advanced.
BootStateKept == flash.state

BootState == Following(flash.state)

\* hk_init ends, the NimBLE task starts, synchronises and advertises.
InitNext ==
  /\ phase = "next"
  /\ \/ flash' = [flash EXCEPT !.state = BootState] /\ UNCHANGED <<ctl, faults>>
     \/ Fault /\ ctl' = [ctl EXCEPT !.undone = TRUE] /\ UNCHANGED flash
  /\ phase' = "up"
  /\ Goes(Host, [Idle EXCEPT !.pc = "regular"])
  /\ UNCHANGED <<firmware, conns, session, adv>>

Restarts ==
  /\ phase' = "revision"
  /\ conns' = <<>>
  /\ session' = [h \in Handles |-> NoSession]
  /\ adv' = [on |-> FALSE, fields |-> NoFields]
  /\ thread' = [t \in Threads |-> Idle]
  /\ ctl' = [IF phase = "counter" THEN Misled ELSE ctl EXCEPT !.reboot = ~ctl.undone]
  /\ UNCHANGED flash

\* The bounds: what the controller saw, and what it knows, is not old.
SeenLately == ctl.seen # 0 => (flash.state - ctl.seen) % MaxState <= MaxUnseen

MayRestart ==
  /\ SeenLately
  /\ ctl.counter # Null => flash.counter = ctl.counter

\* A restart at any time: a power failure.
Crash ==
  /\ phase # "revision"
  /\ MayRestart
  /\ Fault
  /\ Restarts
  /\ UNCHANGED firmware

\* The user updates the firmware; the bound: the controller knows all of the old one.
Update ==
  /\ phase = "up" /\ conns = <<>> /\ \A t \in Threads : thread[t].pc = "idle"
  /\ ctl.seen = flash.state /\ ctl.counter \in {Null, flash.counter}
  /\ ctl.key = flash.key /\ ~ctl.undone
  /\ Restarts
  /\ firmware' \in Scope[firmware].updates \ {firmware}
  /\ UNCHANGED faults

-----------------------------------------------------------------------------
(* Advertising: hk_gap_start_advertising and its three calls of NimBLE.    *)

\* Without a configuration counter nothing is advertised.
AdvertiseRegular ==
  /\ At(Host, "regular")
  /\ IF flash.counter = Null
     THEN Goes(Host, Idle)
     ELSE Goes(Host, [Idle EXCEPT
            !.pc = "stop",
            !.fields = [kind |-> "regular", state |-> flash.state,
                        counter |-> flash.counter, key |-> Null]])
  /\ UNCHANGED <<flash, firmware, phase, conns, session, adv, ctl, faults>>

\* Off; the payload is forgotten unless a task but t is about to start it.
Silent(t) ==
  [on |-> FALSE,
   fields |-> IF \E u \in Threads \ {t} : thread[u].pc = "start" THEN adv.fields ELSE NoFields]

AdvStop(t) ==
  /\ At(t, "stop")
  /\ adv' = Silent(t)
  /\ Disturbs(t, [thread[t] EXCEPT !.pc = "set"])
  /\ UNCHANGED <<flash, firmware, phase, conns, session, ctl, faults>>

AdvSet(t) ==
  /\ At(t, "set")
  /\ adv' = [adv EXCEPT !.fields = thread[t].fields]
  /\ Disturbs(t, [thread[t] EXCEPT !.pc = "start", !.fields = NoFields])
  /\ UNCHANGED <<flash, firmware, phase, conns, session, ctl, faults>>

\* Fails when another task started it; while connected, for lack of room.
AdvStart(t) ==
  /\ At(t, "start")
  /\ \/ adv' = [adv EXCEPT !.on = TRUE]
     \/ conns # <<>> /\ ~adv.on /\ adv' = Silent(t)
  /\ Disturbs(t, Idle)
  /\ UNCHANGED <<flash, firmware, phase, conns, session, ctl, faults>>

-----------------------------------------------------------------------------
(* Connections: hk_gap_gap_event.                                          *)

\* NimBLE ends the advertisement when a connection is made.
Connect(h) ==
  /\ At(Host, "idle")
  /\ adv.on
  /\ h \in Scope[firmware].handles
  /\ ~Connected(h)
  /\ Len(conns) < MaxConns
  /\ adv' = Silent(Host)
  /\ conns' = <<h>> \o conns
  /\ Disturbs(Host, Idle)
  /\ UNCHANGED <<flash, firmware, phase, session, ctl, faults>>

\* Mutant of AfterDisconnect: advertising is left to others.
AfterDisconnectSilent == Idle

AfterDisconnect == [Idle EXCEPT !.pc = "regular"]

Disconnect(h) ==
  /\ At(Host, "idle")
  /\ \E n \in DOMAIN conns :
       /\ conns[n] = h
       /\ conns' = SubSeq(conns, 1, n - 1) \o SubSeq(conns, n + 1, Len(conns))
  /\ session' = [session EXCEPT ![h] = NoSession]
  /\ Disturbs(Host, AfterDisconnect)
  /\ UNCHANGED <<flash, firmware, phase, adv, ctl, faults>>

Pair(h) ==
  /\ At(Host, "idle")
  /\ Connected(h)
  /\ ~flash.paired
  /\ flash' = [flash EXCEPT !.paired = TRUE]
  /\ UNCHANGED <<firmware, phase, conns, session, adv, thread, ctl, faults>>

FreshKeys ==
  Keys \ ({Unshared, flash.key, ctl.key, adv.fields.key}
            \cup {thread[t].fields.key : t \in Threads}
            \cup {session[h].secret : h \in Handles} \cup {session[h].key : h \in Handles})

\* A request of pair verify sets is_secure, TRUE only for a paired controller
\* and then with a shared secret of its own; FALSE while pair verify is under
\* way or when it failed, also on a connection that was secure.
Verify(h) ==
  /\ At(Host, "idle")
  /\ Connected(h)
  /\ \/ flash.paired /\ \E k \in FreshKeys : session' = [session EXCEPT ![h].secret = k]
     \/ session' = [session EXCEPT ![h].secret = Unshared]
  /\ Disturbs(Host, Idle)
  /\ UNCHANGED <<flash, firmware, phase, conns, adv, ctl, faults>>

-----------------------------------------------------------------------------
(* hk_protocol_configuration; only this request writes the broadcast key.  *)

Secret == session[thread[Host].conn].secret

\* again: the peer asks for a new key, not only for the values.  Nothing asks
\* whether its connection is secure.  An older reply that was not read is none
\* that will be read any more, on whatever connection.
Configure(h, again) ==
  /\ At(Host, "idle")
  /\ Connected(h)
  /\ <<h, again>> \in Scope[firmware].requests
  /\ Goes(Host, [Idle EXCEPT
       !.pc = "get", !.conn = h, !.again = again,
       !.fields.state = IF Secure(h) THEN flash.state ELSE 0])
  /\ session' = [g \in Handles |-> [session[g] EXCEPT !.key = Null, !.state = 0]]
  /\ UNCHANGED <<flash, firmware, phase, conns, adv, ctl, faults>>

\* hk_broadcast_key_get with a shared secret.
GetKey ==
  /\ At(Host, "get")
  /\ IF KeyUsable
     THEN Goes(Host, [thread[Host] EXCEPT
            !.pc = IF thread[Host].again THEN "create" ELSE "reply", !.again = FALSE,
            !.fields.key = flash.key])
     ELSE Goes(Host, [thread[Host] EXCEPT !.pc = "create"])
  /\ UNCHANGED <<flash, firmware, phase, conns, session, adv, ctl, faults>>

\* hk_broadcast_key_create notes the global state first.
CreateKey ==
  /\ At(Host, "create")
  /\ Goes(Host, [thread[Host] EXCEPT !.pc = "key_write", !.value = flash.state])
  /\ UNCHANGED <<flash, firmware, phase, conns, session, adv, ctl, faults>>

\* After an error a request for a new key tries again; another one ends.
CreateFails ==
  IF thread[Host].again THEN [thread[Host] EXCEPT !.pc = "create", !.again = FALSE] ELSE Idle

WriteKey ==
  /\ At(Host, "key_write")
  /\ \/ /\ flash' = [flash EXCEPT !.key = Secret]
        /\ ctl' = [ctl EXCEPT !.lost = @ \/ Secret # ctl.key \/ Secret = Unshared]
        /\ Disturbs(Host, [thread[Host] EXCEPT !.pc = "state_write"])
        /\ UNCHANGED faults
     \/ Fault /\ Goes(Host, CreateFails) /\ UNCHANGED <<flash, ctl>>
  /\ UNCHANGED <<firmware, phase, conns, session, adv>>

\* The key the reply will have.
Created == Secret

WriteKeyState ==
  /\ At(Host, "state_write")
  /\ \/ /\ flash' = [flash EXCEPT !.keyState = thread[Host].value]
        /\ Disturbs(Host, [thread[Host] EXCEPT
             !.pc = IF thread[Host].again THEN "create" ELSE "reply", !.again = FALSE,
             !.value = 0, !.fields.key = Created])
        /\ UNCHANGED faults
     \/ Fault /\ Goes(Host, CreateFails) /\ UNCHANGED flash
  /\ UNCHANGED <<firmware, phase, conns, session, adv, ctl>>

\* Only what the controller may be told is kept.
Reply ==
  /\ At(Host, "reply")
  /\ session' =
       IF Secure(thread[Host].conn)
       THEN [session EXCEPT
              ![thread[Host].conn].key = thread[Host].fields.key,
              ![thread[Host].conn].state = thread[Host].fields.state]
       ELSE session
  /\ Goes(Host, Idle)
  /\ UNCHANGED <<flash, firmware, phase, conns, adv, ctl, faults>>

-----------------------------------------------------------------------------
(* hk_notify: hk_gatt_indicate.                                            *)

\* Without a pairing it returns; MayChange is a bound.
Notify(t) ==
  /\ At(t, "idle")
  /\ flash.paired
  /\ MayChange
  /\ Goes(t, [Idle EXCEPT !.pc = "list", !.alone = TRUE])
  /\ UNCHANGED <<flash, firmware, phase, conns, session, adv, ctl, faults>>

\* ble_gatts_find_chr is called before the walk, and sets ble_ret.
NotifyList(t) ==
  /\ At(t, "list")
  /\ \/ /\ conns = <<>>
        /\ Goes(t, [thread[t] EXCEPT !.pc = "read"])
        /\ UNCHANGED faults
     \/ /\ conns # <<>>
        /\ Goes(t, [thread[t] EXCEPT !.pc = "visit", !.conn = Head(conns)])
        /\ UNCHANGED faults
     \/ /\ conns # <<>>
        /\ Fault
        /\ Goes(t, Disturbed([thread[t] EXCEPT
             !.pc = "visit", !.conn = Head(conns), !.failed = TRUE]))
  /\ UNCHANGED <<flash, firmware, phase, conns, session, adv, ctl>>

\* A connection that was freed meanwhile reads as any.
NotifyVisit(t) ==
  /\ At(t, "visit")
  /\ \E secure \in BOOLEAN :
       /\ Connected(thread[t].conn) => (secure <=> Secure(thread[t].conn))
       /\ Goes(t, [thread[t] EXCEPT !.pc = IF secure THEN "read" ELSE "move"])
  /\ UNCHANGED <<flash, firmware, phase, conns, session, adv, ctl, faults>>

\* global_state_was_changed_once is never set: each connection advances.
StateRead(t) ==
  /\ At(t, "read")
  /\ Goes(t, [thread[t] EXCEPT !.pc = "write", !.value = Following(flash.state)])
  /\ UNCHANGED <<flash, firmware, phase, conns, session, adv, ctl, faults>>

AfterWrite(t) ==
  [thread[t] EXCEPT !.pc = IF thread[t].conn = Null THEN "age" ELSE "indicate", !.value = 0]

\* The bound again: with several connections it is not the first change.
StateWrite(t) ==
  /\ At(t, "write")
  /\ \/ /\ MayChange
        /\ flash' = [flash EXCEPT !.state = thread[t].value]
        /\ ctl' = [ctl EXCEPT !.undone = @ \/ thread[t].value # Following(flash.state)]
        /\ Disturbs(t, AfterWrite(t))
        /\ UNCHANGED faults
     \/ /\ Fault
        /\ ctl' = [ctl EXCEPT !.undone = TRUE]
        /\ Goes(t, Disturbed(AfterWrite(t)))
        /\ UNCHANGED flash
  /\ UNCHANGED <<firmware, phase, conns, session, adv>>

\* The handle was copied to a bool.
Cut(h) == IF h = 0 THEN 0 ELSE 1

\* Mutant of Indicate: the next connection is tried after a failure, too.
IndicateAll(t) ==
  /\ At(t, "indicate")
  /\ Goes(t, [thread[t] EXCEPT
       !.pc = "move",
       !.told = IF Connected(Cut(thread[t].conn)) THEN @ \cup {Cut(thread[t].conn)} ELSE @])
  /\ UNCHANGED <<flash, firmware, phase, conns, session, adv, ctl, faults>>

\* ble_ret is kept: after one failure nothing more is indicated.
Indicate(t) ==
  /\ At(t, "indicate")
  /\ LET h == Cut(thread[t].conn)
     IN  \/ /\ ~thread[t].failed /\ Connected(h)
            /\ Goes(t, [thread[t] EXCEPT !.pc = "move", !.told = @ \cup {h}])
            /\ UNCHANGED faults
         \/ /\ thread[t].failed \/ ~Connected(h)
            /\ Goes(t, [thread[t] EXCEPT !.pc = "move", !.failed = TRUE])
            /\ UNCHANGED faults
         \/ /\ ~thread[t].failed
            /\ Fault
            /\ Goes(t, Disturbed([thread[t] EXCEPT !.pc = "move", !.failed = TRUE]))
  /\ UNCHANGED <<flash, firmware, phase, conns, session, adv, ctl>>

\* To the next connection; behind a freed one there is any, or none.
NotifyMove(t) ==
  /\ At(t, "move")
  /\ \E next \in Handles \cup {Null} :
       /\ \A n \in DOMAIN conns : conns[n] = thread[t].conn =>
            next = IF n = Len(conns) THEN Null ELSE conns[n + 1]
       /\ next # Null => Connected(next)
       /\ Goes(t, IF next = Null THEN Idle ELSE [thread[t] EXCEPT !.pc = "visit", !.conn = next])
  /\ UNCHANGED <<flash, firmware, phase, conns, session, adv, ctl, faults>>

NotifyPanics(t) ==
  /\ thread[t].pc \in {"visit", "move"}
  /\ ~Connected(thread[t].conn)
  /\ SeenLately
  /\ Fault
  /\ Restarts
  /\ UNCHANGED firmware

\* hk_broadcast_key_get without a shared secret; then no broadcast.
KeyAge(t) ==
  /\ At(t, "age")
  /\ Goes(t, IF KeyUsable THEN [thread[t] EXCEPT !.pc = "key"] ELSE Idle)
  /\ UNCHANGED <<flash, firmware, phase, conns, session, adv, ctl, faults>>

ReadKey(t) ==
  /\ At(t, "key")
  /\ Goes(t, [thread[t] EXCEPT !.pc = "change", !.fields.key = flash.key])
  /\ UNCHANGED <<flash, firmware, phase, conns, session, adv, ctl, faults>>

\* hk_gap_start_advertising_change.
AdvertiseChange(t) ==
  /\ At(t, "change")
  /\ Goes(t, [thread[t] EXCEPT
       !.pc = "stop", !.fields.kind = "change", !.fields.state = flash.state])
  /\ UNCHANGED <<flash, firmware, phase, conns, session, adv, ctl, faults>>

-----------------------------------------------------------------------------
(* hk_reset; the accessory id, which it changes first, is not needed here. *)

Reset(t) ==
  /\ At(t, "idle")
  /\ flash.paired
  /\ Fault
  /\ Goes(t, [Idle EXCEPT !.pc = "reset_state"])
  /\ UNCHANGED <<flash, firmware, phase, conns, session, adv, ctl>>

ResetState(t) ==
  /\ At(t, "reset_state")
  /\ flash' = [flash EXCEPT !.state = 1]
  /\ ctl' = [ctl EXCEPT !.undone = TRUE]
  /\ Disturbs(t, [Idle EXCEPT !.pc = "reset_pairings"])
  /\ UNCHANGED <<firmware, phase, conns, session, adv, faults>>

\* The broadcast key stays, which the next controller does not know.
ResetPairings(t) ==
  /\ At(t, "reset_pairings")
  /\ flash' = [flash EXCEPT !.paired = FALSE]
  /\ ctl' = [Stranger EXCEPT !.lost = flash.key # Null, !.undone = TRUE]
  /\ Disturbs(t, Idle)
  /\ UNCHANGED <<firmware, phase, conns, session, adv, faults>>

-----------------------------------------------------------------------------
(* The controller.                                                         *)

Learns(state) == [ctl EXCEPT !.seen = state, !.reboot = FALSE]

HearRegular ==
  /\ flash.paired
  /\ adv.on
  /\ adv.fields.kind = "regular"
  /\ ctl' = [Learns(adv.fields.state) EXCEPT
       !.counter = IF flash.revision = firmware THEN adv.fields.counter ELSE Null,
       !.revision = IF flash.revision = firmware THEN firmware ELSE Null]
  /\ UNCHANGED <<flash, firmware, phase, conns, session, adv, thread, faults>>

\* It reads a change only with the key it has.
HearChange ==
  /\ flash.paired
  /\ adv.on
  /\ adv.fields.kind = "change"
  /\ adv.fields.key = ctl.key
  /\ ctl' = Learns(adv.fields.state)
  /\ UNCHANGED <<flash, firmware, phase, conns, session, adv, thread, faults>>

\* It reads the reply of its protocol configuration; if the connection is of
\* one that was paired before hk_reset, the controller learns nothing.
ReadReply(h) ==
  /\ At(Host, "idle")
  /\ session[h].key # Null
  /\ session' = [session EXCEPT ![h].key = Null, ![h].state = 0]
  /\ \/ ctl' = [Learns(session[h].state) EXCEPT !.key = session[h].key, !.lost = FALSE]
     \/ UNCHANGED ctl
  /\ UNCHANGED <<flash, firmware, phase, conns, adv, thread, faults>>

-----------------------------------------------------------------------------

Boot == SameRevision \/ NewRevision \/ WriteCounter \/ InitState \/ InitNext

TaskStep(t) ==
  \/ Notify(t) \/ NotifyList(t) \/ NotifyVisit(t) \/ StateRead(t) \/ StateWrite(t)
  \/ Indicate(t) \/ NotifyMove(t) \/ NotifyPanics(t)
  \/ KeyAge(t) \/ ReadKey(t) \/ AdvertiseChange(t)
  \/ Reset(t) \/ ResetState(t) \/ ResetPairings(t)

HostStep ==
  \/ AdvertiseRegular
  \/ \E h \in Handles : Connect(h) \/ Disconnect(h) \/ Pair(h) \/ Verify(h)
  \/ \E h \in Handles, again \in BOOLEAN : Configure(h, again)
  \/ GetKey \/ CreateKey \/ WriteKey \/ WriteKeyState \/ Reply

Next ==
  \/ Boot
  \/ Crash
  \/ Update
  \/ \E t \in Tasks : TaskStep(t)
  \/ HostStep
  \/ \E t \in Threads : AdvStop(t) \/ AdvSet(t) \/ AdvStart(t)
  \/ HearRegular
  \/ HearChange
  \/ \E h \in Handles : ReadReply(h)

Spec == Init /\ [][Next]_vars

-----------------------------------------------------------------------------
(* Properties.                                                             *)

(***************************************************************************)
(* An accessory that is up, has no connection and no task at work          *)
(* advertises: no order of notifications, connections and disconnections   *)
(* leaves the advertisement stopped.  It needs the configuration counter,  *)
(* which a power failure of the first start can prevent for good.          *)
(***************************************************************************)
AdvertisesWhenFree ==
  phase = "up" /\ conns = <<>> /\ flash.counter # Null
    /\ (\A t \in Threads : thread[t].pc \in {"idle", "reset_state", "reset_pairings"})
  => adv.on

\* The secure connections at and before which no handle was cut to one that
\* is not connected.
Reached ==
  {n \in DOMAIN conns :
     Secure(conns[n]) /\ \A m \in 1..n : Secure(conns[m]) => Connected(Cut(conns[m]))}

(***************************************************************************)
(* hk_notify does what it can when nothing comes in between and no call    *)
(* fails for other reasons: without a connection and with a usable key the *)
(* change is advertised, with the global state and key of the flash, which *)
(* the paired controller knows (the key) and has not seen (the state).     *)
(* With connections, the secure ones are indicated up to the first whose   *)
(* handle, as a bool, is that of no connection, and nobody else: all of    *)
(* them while NimBLE gives out the handles 0 and 1 only.                   *)
(***************************************************************************)
UndisturbedNotifyIsAnnounced ==
  [][\A t \in Tasks :
       thread[t].alone /\ thread[t].pc # "idle" /\ thread'[t].pc = "idle" /\ phase' = "up" =>
         IF thread[t].conn = Null
         THEN KeyUsable =>
                /\ adv'.on
                /\ adv'.fields = [kind |-> "change", state |-> flash.state,
                                  counter |-> Null, key |-> flash.key]
                /\ ~ctl.lost => flash.key = ctl.key
                /\ ~ctl.undone => flash.state # ctl.seen
         ELSE thread[t].told = {Cut(conns[n]) : n \in Reached}]_vars

(***************************************************************************)
(* After a restart the global state differs from the one the controller    *)
(* saw last, so that it reads all values anew, unless the number was once  *)
(* set back (hk_reset, two tasks at once) or a write of it failed.         *)
(***************************************************************************)
RestartIsNoticed ==
  phase = "up" /\ flash.paired /\ ctl.reboot /\ ~ctl.undone => flash.state # ctl.seen

(***************************************************************************)
(* A controller that finds the configuration counter unchanged may keep    *)
(* the accessory database it read: the firmware is the one it read.  Not   *)
(* after a failed write of revision or counter, a power failure between    *)
(* the two, or an update that only appended to the revision (Misled).      *)
(***************************************************************************)
CounterFollowsRevision ==
  phase \in {"state", "next", "up"} /\ ctl.counter # Null /\ flash.counter = ctl.counter
  => firmware = ctl.revision

=============================================================================
