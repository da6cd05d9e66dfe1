------------------------------ MODULE HkPairing ------------------------------
(***************************************************************************)
(* The pairing registry of an accessory on the IP stack: who is paired,    *)
(* what the flash remembers of it, and what mDNS tells the network.        *)
(*                                                                         *)
(* Two tasks work on it.  The httpd task runs one request handler at a     *)
(* time: the last message of a pair setup (hk_pair_setup.c, M5) and the    *)
(* /pairings request that removes a pairing (hk_pairings.c).  The          *)
(* application task calls hk_reset and hk_init (stacks/ip/hk.c).  Every    *)
(* access to flash (NVS) or to the mDNS records is a step of its own, so   *)
(* the tasks interleave between any two of them and power may fail there.  *)
(*                                                                         *)
(* Cryptography is abstract: a key is a value, a fresh key differs from    *)
(* every key in use, and a request reaches its handler only as the         *)
(* controller composed it.  A write to flash is durable once it returned   *)
(* and may fail; a read of flash does not fail for another reason than a   *)
(* missing entry, and creating the accessory id does not fail.             *)
(***************************************************************************)
EXTENDS Naturals, Sequences

CONSTANTS
  Devices,     \* pairing identifiers of the controllers
  DeviceKeys,  \* long term public keys a controller can present
  ZeroKeys,    \* those of DeviceKeys whose first byte is zero
  AccKeys,     \* long term key pairs the accessory can generate
  AccIds,      \* accessory ids that esp_random can yield
  Sockets,     \* sockets of the http server
  MaxEntries,  \* bound: no setup starts on a store of this many entries
  None         \* no device, key, id or socket

ASSUME ConstantsAssumption ==
  /\ ZeroKeys \subseteq DeviceKeys
  /\ MaxEntries \in Nat
  /\ None \notin Devices \cup DeviceKeys \cup AccKeys \cup AccIds \cup Sockets

VARIABLES
  store,    \* flash: the pairings, oldest first
  pubKey,   \* flash: public half of the accessory's long term key
  privKey,  \* flash: private half of it
  accId,    \* flash: the accessory id, None when it has to be created
  running,  \* hk_advertising_is_running: hk_init has been called
  sf,       \* the mDNS record carries "sf", the flag of an unpaired accessory
  advId,    \* the accessory id in the mDNS record
  conn,     \* state of each connection
  req,      \* the httpd task: program counter and locals of the handler
  app,      \* the application task: where it is in hk_reset or hk_init
  known     \* the accessory key each controller got with its last pairing

flash == <<store, pubKey, privKey, accId>>
mdns == <<running, sf, advId>>
vars == <<flash, mdns, conn, req, app, known>>

Entry == [id : Devices, key : DeviceKeys, admin : BOOLEAN]

(***************************************************************************)
(* Locals of a handler: data is the copy of the store it read, kept what   *)
(* it will write back, i the entry hk_pairings_store_remove looks at, ok   *)
(* is ret = ESP_OK and paired is the out parameter is_paired.              *)
(***************************************************************************)
NoRequest ==
  [pc |-> "idle", sock |-> None, dev |-> None, key |-> None, acc |-> None,
   data |-> <<>>, kept |-> <<>>, i |-> 1, ok |-> TRUE, paired |-> TRUE]

SetupPcs == {"add_read", "add_write", "pub", "priv", "setup_reply"}
RemovePcs == {"is_admin", "rem_read", "rem_loop", "rem_write", "has_admin",
              "erase", "rem_reply"}
PublishPcs == {"unpublish", "publish", "announce"}

HandlerState ==
  [pc : {"idle"} \cup SetupPcs \cup RemovePcs \cup PublishPcs,
   sock : Sockets \cup {None}, dev : Devices \cup {None},
   key : DeviceKeys \cup {None}, acc : AccKeys \cup {None},
   data : Seq(Entry), kept : Seq(Entry), i : Nat \ {0},
   ok : BOOLEAN, paired : BOOLEAN]

TypeOK ==
  /\ store \in Seq(Entry)
  /\ pubKey \in AccKeys \cup {None}
  /\ privKey \in AccKeys \cup {None}
  /\ accId \in AccIds \cup {None}
  /\ running \in BOOLEAN
  /\ sf \in BOOLEAN
  /\ advId \in AccIds \cup {None}
  /\ conn \in [Sockets -> {"closed", "open", "closing"}]
  /\ req \in HandlerState
  /\ app \in {"idle", "reset_id", "reset_store"} \cup PublishPcs
  /\ known \in [Devices -> AccKeys \cup {None}]

Init ==
  /\ store = <<>>
  /\ pubKey = None
  /\ privKey = None
  /\ accId = None
  /\ running = FALSE
  /\ sf = FALSE
  /\ advId = None
  /\ conn = [s \in Sockets |-> "closed"]
  /\ req = NoRequest
  /\ app = "idle"
  /\ known = [d \in Devices |-> None]

-----------------------------------------------------------------------------
(* The pairing store.                                                      *)

\* hk_pairings_store_entry_get: some entry of s is for device d.
HasEntry(s, d) == \E n \in DOMAIN s : s[n].id = d

\* hk_pairings_store_is_admin: the first entry for d carries the admin flag.
IsAdmin(s, d) ==
  \E n \in DOMAIN s :
    s[n].id = d /\ s[n].admin /\ \A m \in 1..(n - 1) : s[m].id # d

\* hk_pairings_store_has_admin_pairing.
HasAdmin(s) == \E n \in DOMAIN s : s[n].admin

(***************************************************************************)
(* The test of hk_pairings_store_remove: the entry is dropped when strcmp  *)
(* finds the stored id different.  The stored id is not terminated, its    *)
(* key follows, so the two are equal only when the key begins with zero.   *)
(***************************************************************************)
StrcmpEqual(e, d) == e.id = d /\ e.key \in ZeroKeys

\* Mutant of NewEntry: the wrong key is stored.
NewEntryWrongKey == [id |-> req.dev, key |-> req.acc, admin |-> TRUE]

NewEntry == [id |-> req.dev, key |-> req.key, admin |-> TRUE]

\* hk_accessory_id_get: the stored id, or a new random one that is stored.
AccIdGet == accId' \in IF accId = None THEN AccIds ELSE {accId}

-----------------------------------------------------------------------------
(* Connections of the http server.                                         *)

Connect(s) ==
  /\ running
  /\ conn[s] = "closed"
  /\ conn' = [conn EXCEPT ![s] = "open"]
  /\ UNCHANGED <<flash, mdns, req, app, known>>

\* The peer drops the connection; httpd notices between two requests.
Disconnect(s) ==
  /\ req.pc = "idle"
  /\ conn[s] = "open"
  /\ conn' = [conn EXCEPT ![s] = "closed"]
  /\ UNCHANGED <<flash, mdns, req, app, known>>

\* The work item that httpd_sess_trigger_close queued.
CloseTriggered(s) ==
  /\ req.pc = "idle"
  /\ conn[s] = "closing"
  /\ conn' = [conn EXCEPT ![s] = "closed"]
  /\ UNCHANGED <<flash, mdns, req, app, known>>

\* The handler returns: httpd closes the connection of one that failed.
Return(ok) ==
  /\ req' = NoRequest
  /\ conn' = IF ok THEN conn ELSE [conn EXCEPT ![req.sock] = "closed"]

Goto(pc) == req' = [req EXCEPT !.pc = pc]

-----------------------------------------------------------------------------
(* Pair setup, third exchange, in the httpd task.                          *)

KeysInUse == {pubKey, privKey} \cup {known[d] : d \in Devices}

\* hk_ed25519_init_from_random: no key that anybody still holds.
FreshKey == CHOOSE a \in AccKeys : a \notin KeysInUse

\* M5 arrives and its signature holds (hk_pair_setup.c:108-130).
SetupRequest(s, d, k) ==
  /\ req.pc = "idle"
  /\ conn[s] = "open"
  /\ Len(store) < MaxEntries
  /\ AccKeys \ KeysInUse # {}
  /\ req' = [NoRequest EXCEPT !.pc = "add_read", !.sock = s, !.dev = d, !.key = k]
  /\ UNCHANGED <<flash, mdns, conn, app, known>>

AddRead ==
  /\ req.pc = "add_read"
  /\ req' = [req EXCEPT !.pc = "add_write", !.data = store]
  /\ UNCHANGED <<flash, mdns, conn, app, known>>

\* The caller ignores whether the write succeeded (hk_pair_setup.c:134).
AddWrite ==
  /\ req.pc = "add_write"
  /\ \/ store' = Append(req.data, NewEntry)
     \/ store' = store
  /\ Goto("pub")
  /\ UNCHANGED <<pubKey, privKey, accId, mdns, conn, app, known>>

\* A new key pair; its public half is stored first.
StorePub ==
  /\ req.pc = "pub"
  /\ \/ /\ pubKey' = FreshKey
        /\ req' = [req EXCEPT !.pc = "priv", !.acc = FreshKey]
     \/ /\ pubKey' = pubKey
        /\ req' = [req EXCEPT !.pc = "setup_reply", !.ok = FALSE]
  /\ UNCHANGED <<store, privKey, accId, mdns, conn, app, known>>

\* Mutant of StorePriv: a failed write is ignored.
StorePrivUnchecked ==
  /\ req.pc = "priv"
  /\ privKey' \in {req.acc, privKey}
  /\ Goto("setup_reply")
  /\ UNCHANGED <<store, pubKey, accId, mdns, conn, app, known>>

StorePriv ==
  /\ req.pc = "priv"
  /\ \/ /\ privKey' = req.acc
        /\ Goto("setup_reply")
     \/ /\ privKey' = privKey
        /\ req' = [req EXCEPT !.pc = "setup_reply", !.ok = FALSE]
  /\ UNCHANGED <<store, pubKey, accId, mdns, conn, app, known>>

\* M6 carries the accessory key and id; without it the controller learns nothing.
SetupReply ==
  /\ req.pc = "setup_reply"
  /\ \/ /\ req.ok
        /\ AccIdGet
        /\ \/ /\ known' = [known EXCEPT ![req.dev] = req.acc]
              /\ Return(TRUE)
           \/ /\ known' = known
              /\ Return(FALSE)
     \/ /\ ~req.ok
        /\ Return(FALSE)
        /\ UNCHANGED <<accId, known>>
  /\ UNCHANGED <<store, pubKey, privKey, mdns, app>>

-----------------------------------------------------------------------------
(* Pairings request, in the httpd task.                                    *)

\* Method 4, remove, for the pairing of device d.
RemoveRequest(s, d) ==
  /\ req.pc = "idle"
  /\ conn[s] = "open"
  /\ req' = [NoRequest EXCEPT !.pc = "is_admin", !.sock = s, !.dev = d]
  /\ UNCHANGED <<flash, mdns, conn, app, known>>

(***************************************************************************)
(* A malformed request (an error) and methods 3 and 5 (logged, no error)   *)
(* leave is_paired as the handler initialised it, FALSE.                   *)
(***************************************************************************)
OtherPairingsRequest(s, ok) ==
  /\ req.pc = "idle"
  /\ conn[s] = "open"
  /\ req' = [NoRequest EXCEPT !.pc = "unpublish", !.sock = s, !.ok = ok,
                              !.paired = FALSE]
  /\ UNCHANGED <<flash, mdns, conn, app, known>>

\* Mutant of CheckAdmin: the result is not looked at.
CheckAdminIgnored ==
  /\ req.pc = "is_admin"
  /\ Goto("rem_read")
  /\ UNCHANGED <<flash, mdns, conn, app, known>>

CheckAdmin ==
  /\ req.pc = "is_admin"
  /\ req' = [req EXCEPT !.pc = IF IsAdmin(store, req.dev) THEN "rem_read" ELSE "rem_reply",
                        !.ok = HasEntry(store, req.dev)]
  /\ UNCHANGED <<flash, mdns, conn, app, known>>

RemoveRead ==
  /\ req.pc = "rem_read"
  /\ req' = [req EXCEPT !.pc = "rem_loop", !.data = store]
  /\ UNCHANGED <<flash, mdns, conn, app, known>>

RemoveLoop ==
  /\ req.pc = "rem_loop"
  /\ IF req.i > Len(req.data)
     THEN Goto("rem_write")
     ELSE req' = [req EXCEPT !.i = @ + 1,
                    !.kept = IF StrcmpEqual(req.data[req.i], req.dev)
                             THEN Append(@, req.data[req.i]) ELSE @]
  /\ UNCHANGED <<flash, mdns, conn, app, known>>

\* An entry was dropped: write the rest back.  None was: ESP_ERR_NOT_FOUND.
RemoveWrite ==
  /\ req.pc = "rem_write"
  /\ \/ /\ Len(req.kept) < Len(req.data)
        /\ store' = req.kept
        /\ Goto("has_admin")
     \/ /\ store' = store
        /\ req' = [req EXCEPT !.pc = "rem_reply", !.ok = FALSE, !.paired = FALSE]
  /\ UNCHANGED <<pubKey, privKey, accId, mdns, conn, app, known>>

CheckOtherAdmin ==
  /\ req.pc = "has_admin"
  /\ Goto(IF HasAdmin(store) THEN "rem_reply" ELSE "erase")
  /\ UNCHANGED <<flash, mdns, conn, app, known>>

EraseAll ==
  /\ req.pc = "erase"
  /\ \/ /\ store' = <<>>
        /\ req' = [req EXCEPT !.pc = "rem_reply", !.paired = FALSE]
     \/ /\ store' = store
        /\ req' = [req EXCEPT !.pc = "rem_reply", !.ok = FALSE, !.paired = FALSE]
  /\ UNCHANGED <<pubKey, privKey, accId, mdns, conn, app, known>>

\* Mutant of RemoveReply: kill_session is not honoured.
RemoveReplyKeepsSession ==
  /\ req.pc = "rem_reply"
  /\ IF req.paired THEN Return(req.ok) ELSE Goto("unpublish") /\ UNCHANGED conn
  /\ UNCHANGED <<flash, mdns, app, known>>

(***************************************************************************)
(* The response is sent and, unless the removal failed, the connection is  *)
(* asked to close; whether that succeeds is what the handler returns, even *)
(* when the response could not be sent.                                    *)
(***************************************************************************)
RemoveReply ==
  /\ req.pc = "rem_reply"
  /\ \E ok \in {req.ok, FALSE} :
       LET closing == IF ok THEN [conn EXCEPT ![req.sock] = "closing"] ELSE conn
       IN  IF req.paired
           THEN /\ req' = NoRequest
                /\ conn' = IF ok THEN closing ELSE [conn EXCEPT ![req.sock] = "closed"]
           ELSE /\ req' = [req EXCEPT !.pc = "unpublish", !.ok = ok]
                /\ conn' = closing
  /\ UNCHANGED <<flash, mdns, app, known>>

-----------------------------------------------------------------------------
(* hk_advertising_update_paired, run by either task.                       *)

Unpublish == sf' = (IF running THEN FALSE ELSE sf)

HttpUnpublish ==
  /\ req.pc = "unpublish"
  /\ Unpublish
  /\ Goto("publish")
  /\ UNCHANGED <<flash, running, advId, conn, app, known>>

HttpPublish ==
  /\ req.pc = "publish"
  /\ IF store = <<>>
     THEN Goto("announce") /\ UNCHANGED conn
     ELSE Return(req.ok)
  /\ UNCHANGED <<flash, mdns, app, known>>

HttpAnnounce ==
  /\ req.pc = "announce"
  /\ sf' = TRUE
  /\ Return(req.ok)
  /\ UNCHANGED <<flash, running, advId, app, known>>

AppUnpublish ==
  /\ app = "unpublish"
  /\ Unpublish
  /\ app' = "publish"
  /\ UNCHANGED <<flash, running, advId, conn, req, known>>

AppPublish ==
  /\ app = "publish"
  /\ app' = IF store = <<>> THEN "announce" ELSE "idle"
  /\ UNCHANGED <<flash, mdns, conn, req, known>>

AppAnnounce ==
  /\ app = "announce"
  /\ sf' = TRUE
  /\ app' = "idle"
  /\ UNCHANGED <<flash, running, advId, conn, req, known>>

-----------------------------------------------------------------------------
(* The application task.                                                   *)

(***************************************************************************)
(* hk_init on a started system: nothing else runs yet.  The mDNS records   *)
(* are made from flash, then the http server starts.                       *)
(***************************************************************************)
Boot ==
  /\ ~running
  /\ app = "idle"
  /\ AccIdGet
  /\ advId' = accId'
  /\ sf' = (store = <<>>)
  /\ running' = TRUE
  /\ UNCHANGED <<store, pubKey, privKey, conn, req, app, known>>

(***************************************************************************)
(* hk_init again, after a reconnect of the network: mdns_free drops every  *)
(* record, the server goes on running.                                     *)
(***************************************************************************)
InitAgain ==
  /\ running
  /\ app = "idle"
  /\ AccIdGet
  /\ advId' = accId'
  /\ sf' = FALSE
  /\ app' = "unpublish"
  /\ UNCHANGED <<store, pubKey, privKey, running, conn, req, known>>

Reset ==
  /\ app = "idle"
  /\ app' = "reset_id"
  /\ UNCHANGED <<flash, mdns, conn, req, known>>

ResetId ==
  /\ app = "reset_id"
  /\ accId' \in {None, accId}
  /\ app' = "reset_store"
  /\ UNCHANGED <<store, pubKey, privKey, mdns, conn, req, known>>

\* Mutant of ResetStore: hk_advertising_reset is not called.
ResetStoreQuietly ==
  /\ app = "reset_store"
  /\ store' \in {<<>>, store}
  /\ app' = "idle"
  /\ UNCHANGED <<pubKey, privKey, accId, mdns, conn, req, known>>

ResetStore ==
  /\ app = "reset_store"
  /\ store' \in {<<>>, store}
  /\ app' = IF running THEN "unpublish" ELSE "idle"
  /\ UNCHANGED <<pubKey, privKey, accId, mdns, conn, req, known>>

\* Power fails, or the application restarts: only the flash remains.
Crash ==
  /\ running' = FALSE
  /\ sf' = FALSE
  /\ advId' = None
  /\ conn' = [s \in Sockets |-> "closed"]
  /\ req' = NoRequest
  /\ app' = "idle"
  /\ UNCHANGED <<flash, known>>

-----------------------------------------------------------------------------

SetupStep ==
  \/ AddRead
  \/ AddWrite
  \/ StorePub
  \/ StorePriv
  \/ SetupReply

RemoveStep ==
  \/ CheckAdmin
  \/ RemoveRead
  \/ RemoveLoop
  \/ RemoveWrite
  \/ CheckOtherAdmin
  \/ EraseAll
  \/ RemoveReply

HttpPublishStep ==
  \/ HttpUnpublish
  \/ HttpPublish
  \/ HttpAnnounce

HandlerStep == SetupStep \/ RemoveStep \/ HttpPublishStep

Request(s) ==
  \/ \E d \in Devices, k \in DeviceKeys : SetupRequest(s, d, k)
  \/ \E d \in Devices : RemoveRequest(s, d)
  \/ \E ok \in BOOLEAN : OtherPairingsRequest(s, ok)

ConnectionStep(s) ==
  \/ Connect(s)
  \/ Disconnect(s)
  \/ CloseTriggered(s)

AppStep ==
  \/ Boot
  \/ InitAgain
  \/ Reset
  \/ ResetId
  \/ ResetStore
  \/ AppUnpublish
  \/ AppPublish
  \/ AppAnnounce

Next ==
  \/ HandlerStep
  \/ \E s \in Sockets : Request(s) \/ ConnectionStep(s)
  \/ AppStep
  \/ Crash

(***************************************************************************)
(* The httpd task never blocks inside a handler, and runs the close that   *)
(* it was asked for when it is back in its loop: it prefers the control    *)
(* socket to the connections, so a new request of the same connection      *)
(* cannot keep it waiting.  Nothing is assumed of peers, the application   *)
(* or power.                                                               *)
(***************************************************************************)
Fairness ==
  /\ WF_vars(HandlerStep)
  /\ \A s \in Sockets : SF_vars(CloseTriggered(s))

Spec == Init /\ [][Next]_vars
FairSpec == Spec /\ Fairness

-----------------------------------------------------------------------------
(* Properties.                                                             *)

HttpPending ==
  \/ req.pc \in PublishPcs \cup {"has_admin", "erase"}
  \/ req.pc = "rem_reply" /\ ~req.paired

PublishPending == app \in PublishPcs \/ HttpPending

(***************************************************************************)
(* An accessory without pairings can be found for pairing: whichever task  *)
(* emptied the store, and whatever failed on the way, the mDNS record has  *)
(* the flag "sf" or some task is still about to put it there.  Without it  *)
(* the accessory could not be paired again until it restarts.              *)
(***************************************************************************)
UnpairedIsDiscoverable ==
  running /\ store = <<>> => sf \/ PublishPending

(***************************************************************************)
(* A controller that received an accessory key finds both halves of it in  *)
(* flash, whatever power failure or failed write came later, as long as    *)
(* no later setup replaced the public half: the key pair a controller      *)
(* relies on is never torn between the two entries that hold it.           *)
(***************************************************************************)
ConfirmedKeyIsDurable ==
  \A d \in Devices : known[d] # None /\ pubKey = known[d] => privKey = known[d]

(***************************************************************************)
(* hk_pairings_remove looks the device up and removes it in two reads of   *)
(* flash, hk_reset may run between them: the copy the removal works on     *)
(* still has a pairing of the device, or nothing at all.                   *)
(***************************************************************************)
RemovalStillAuthorised ==
  req.pc \in {"rem_loop", "rem_write"} /\ req.data # <<>> => HasEntry(req.data, req.dev)

(***************************************************************************)
(* A connection that asked for a removal ends, however the removal goes:   *)
(* the success closes it by kill_session, every failure by the error the   *)
(* handler returns.                                                        *)
(***************************************************************************)
RequesterIsDisconnected ==
  \A s \in Sockets : (req.pc \in RemovePcs /\ req.sock = s) ~> conn[s] = "closed"

(***************************************************************************)
(* What hk_pairings_store.h:30 promises: a removal takes away the pairings *)
(* of the given device, those of other devices stay.                       *)
(***************************************************************************)
RemovalSparesOthers ==
  [][req.pc = "rem_write" /\ req'.pc = "has_admin" =>
       \A n \in DOMAIN req.data :
         req.data[n].id # req.dev => \E m \in DOMAIN store' : store'[m] = req.data[n]]_vars

(***************************************************************************)
(* What the comment at hk_advertising.c:79 promises of a system at rest: a *)
(* paired accessory does not advertise itself as unpaired.                 *)
(***************************************************************************)
PairedIsNotDiscoverable ==
  running /\ store # <<>> /\ req.pc = "idle" /\ app = "idle" => ~sf

(***************************************************************************)
(* What hk.h:84 promises: a reset erases the pairings.  So a pairing that  *)
(* is not in the store enters it only as the one that is being set up.     *)
(***************************************************************************)
ErasedStaysErased ==
  [][\A n \in DOMAIN store' :
       store'[n] = NewEntry \/ \E m \in DOMAIN store : store[m] = store'[n]]_store

=============================================================================
