--------------------------- MODULE HkPairingProofs ---------------------------
(***************************************************************************)
(* Proofs about HkPairing: for any number of controllers, keys, sockets    *)
(* and pairings, the type invariant and the three safety invariants that   *)
(* TLC checks on a small instance.                                         *)
(***************************************************************************)
EXTENDS HkPairing, TLAPS, SequenceTheorems

\* A setup that did not reach its first key write still has a key to generate.
FreshKeyLeft ==
  req.pc \in {"add_read", "add_write", "pub"} => AccKeys \ KeysInUse # {}

\* Between the two key writes nobody holds the new key.
NewKeyUnknown ==
  req.pc = "priv" => /\ pubKey = req.acc
                     /\ req.acc \in AccKeys
                     /\ \A d \in Devices : known[d] # req.acc

\* The key that the response carries is complete in flash.
ReplyKeyComplete ==
  req.pc = "setup_reply" /\ req.ok => pubKey = req.acc /\ privKey = req.acc

KeyInv ==
  /\ FreshKeyLeft
  /\ NewKeyUnknown
  /\ ReplyKeyComplete
  /\ ConfirmedKeyIsDurable

\* hk_reset may empty the store after the check, nothing else changes it there.
CheckedIsPaired ==
  req.pc = "rem_read" /\ store # <<>> => HasEntry(store, req.dev)

AuthInv == CheckedIsPaired /\ RemovalStillAuthorised

-----------------------------------------------------------------------------

LEMMA FreshKeyIsFresh ==
  ASSUME AccKeys \ KeysInUse # {}
  PROVE  FreshKey \in AccKeys /\ FreshKey \notin KeysInUse
BY DEF FreshKey

LEMMA NoEntries == <<>> \in Seq(Entry)
OBVIOUS

LEMMA NoRequestType == NoRequest \in HandlerState
BY DEF NoRequest, HandlerState, SetupPcs, RemovePcs, PublishPcs

LEMMA TypeInit == Init => TypeOK
<1> SUFFICES ASSUME Init PROVE TypeOK
  OBVIOUS
<1>1. store \in Seq(Entry)
  BY DEF Init
<1>2. /\ conn \in [Sockets -> {"closed", "open", "closing"}]
      /\ known \in [Devices -> AccKeys \cup {None}]
  BY DEF Init
<1>3. req \in HandlerState
  BY NoRequestType DEF Init
<1> QED
  BY <1>1, <1>2, <1>3 DEF Init, TypeOK

(***************************************************************************)
(* A handler that adds a pairing knows the device and its key.             *)
(***************************************************************************)
SetupKnowsDevice ==
  req.pc \in {"add_read", "add_write"} => req.dev \in Devices /\ req.key \in DeviceKeys

TypeInv == TypeOK /\ SetupKnowsDevice

Pcs == {"idle"} \cup SetupPcs \cup RemovePcs \cup PublishPcs

\* Setting the fields that the handlers set keeps the handler's state well typed.
LEMMA HandlerUpdate ==
  ASSUME req \in HandlerState
  PROVE  /\ \A pc \in Pcs : [req EXCEPT !.pc = pc] \in HandlerState
         /\ \A pc \in Pcs, ok \in BOOLEAN :
              [req EXCEPT !.pc = pc, !.ok = ok] \in HandlerState
         /\ \A pc \in Pcs, paired \in BOOLEAN :
              [req EXCEPT !.pc = pc, !.paired = paired] \in HandlerState
         /\ \A pc \in Pcs, ok \in BOOLEAN, paired \in BOOLEAN :
              [req EXCEPT !.pc = pc, !.ok = ok, !.paired = paired] \in HandlerState
         /\ \A pc \in Pcs, acc \in AccKeys :
              [req EXCEPT !.pc = pc, !.acc = acc] \in HandlerState
<1>1. \A pc \in Pcs : [req EXCEPT !.pc = pc] \in HandlerState
  BY DEF HandlerState, Pcs
<1>2. \A pc \in Pcs, ok \in BOOLEAN : [req EXCEPT !.pc = pc, !.ok = ok] \in HandlerState
  BY DEF HandlerState, Pcs
<1>3. \A pc \in Pcs, paired \in BOOLEAN :
        [req EXCEPT !.pc = pc, !.paired = paired] \in HandlerState
  BY DEF HandlerState, Pcs
<1>4. \A pc \in Pcs, ok \in BOOLEAN, paired \in BOOLEAN :
        [req EXCEPT !.pc = pc, !.ok = ok, !.paired = paired] \in HandlerState
  BY DEF HandlerState, Pcs
<1>5. \A pc \in Pcs, acc \in AccKeys :
        [req EXCEPT !.pc = pc, !.acc = acc] \in HandlerState
  BY DEF HandlerState, Pcs
<1> QED BY <1>1, <1>2, <1>3, <1>4, <1>5

LEMMA SetupTypes ==
  ASSUME TypeInv, FreshKeyLeft, SetupStep
  PROVE  TypeOK'
<1> USE NoRequestType
<1>1. CASE AddRead
  <2>1. req' \in HandlerState
    BY <1>1 DEF AddRead, TypeInv, TypeOK, HandlerState, SetupPcs
  <2> QED BY <1>1, <2>1 DEF AddRead, TypeInv, TypeOK, flash, mdns
<1>2. CASE AddWrite
  <2>1. req' \in HandlerState
    BY <1>2, HandlerUpdate DEF AddWrite, Goto, TypeInv, TypeOK, Pcs, SetupPcs
  <2>2. req.data \in Seq(Entry) /\ NewEntry \in Entry
    BY <1>2 DEF AddWrite, TypeInv, TypeOK, SetupKnowsDevice, HandlerState, NewEntry, Entry
  <2>3. Append(req.data, NewEntry) \in Seq(Entry)
    BY <2>2, AppendProperties
  <2>4. store' \in Seq(Entry)
    BY <1>2, <2>3 DEF AddWrite, TypeInv, TypeOK
  <2> QED BY <1>2, <2>1, <2>4 DEF AddWrite, TypeInv, TypeOK, mdns
<1>3. CASE StorePub
  <2>1. FreshKey \in AccKeys
    BY <1>3, FreshKeyIsFresh DEF StorePub, FreshKeyLeft
  <2>2. req' \in HandlerState
    <3>1. req' \in {[req EXCEPT !.pc = "priv", !.acc = FreshKey],
                  [req EXCEPT !.pc = "setup_reply", !.ok = FALSE]}
      BY <1>3 DEF StorePub
    <3>2. [req EXCEPT !.pc = "priv", !.acc = FreshKey] \in HandlerState
      BY <2>1, HandlerUpdate DEF TypeInv, TypeOK, Pcs, SetupPcs
    <3>3. [req EXCEPT !.pc = "setup_reply", !.ok = FALSE] \in HandlerState
      BY HandlerUpdate DEF TypeInv, TypeOK, Pcs, SetupPcs
    <3> QED BY <3>1, <3>2, <3>3
  <2> QED BY <1>3, <2>1, <2>2 DEF StorePub, TypeInv, TypeOK, mdns
<1>4. CASE StorePriv
  <2>1. req' \in HandlerState
    <3>1. req' \in {[req EXCEPT !.pc = "setup_reply"],
                  [req EXCEPT !.pc = "setup_reply", !.ok = FALSE]}
      BY <1>4 DEF StorePriv, Goto
    <3>2. [req EXCEPT !.pc = "setup_reply"] \in HandlerState
      BY HandlerUpdate DEF TypeInv, TypeOK, Pcs, SetupPcs
    <3>3. [req EXCEPT !.pc = "setup_reply", !.ok = FALSE] \in HandlerState
      BY HandlerUpdate DEF TypeInv, TypeOK, Pcs, SetupPcs
    <3> QED BY <3>1, <3>2, <3>3
  <2>2. privKey' \in AccKeys \cup {None}
    BY <1>4 DEF StorePriv, TypeInv, TypeOK, HandlerState
  <2> QED BY <1>4, <2>1, <2>2 DEF StorePriv, TypeInv, TypeOK, mdns
<1>5. CASE SetupReply
  <2>1. req' \in HandlerState
    BY <1>5 DEF SetupReply, Return
  <2>2. conn' \in [Sockets -> {"closed", "open", "closing"}]
    BY <1>5 DEF SetupReply, Return, TypeInv, TypeOK
  <2>3. known' \in [Devices -> AccKeys \cup {None}]
    BY <1>5 DEF SetupReply, TypeInv, TypeOK, HandlerState
  <2>4. accId' \in AccIds \cup {None}
    BY <1>5 DEF SetupReply, AccIdGet, TypeInv, TypeOK
  <2> QED BY <1>5, <2>1, <2>2, <2>3, <2>4 DEF SetupReply, TypeInv, TypeOK, mdns
<1> QED BY <1>1, <1>2, <1>3, <1>4, <1>5 DEF SetupStep

LEMMA RemoveTypes ==
  ASSUME TypeInv, RemoveStep
  PROVE  TypeOK'
<1> USE NoRequestType
<1>1. CASE CheckAdmin
  <2>1. HasEntry(store, req.dev) \in BOOLEAN
    BY DEF HasEntry
  <2>2. req' \in HandlerState
    BY <1>1, <2>1, HandlerUpdate DEF CheckAdmin, TypeInv, TypeOK, Pcs, RemovePcs
  <2> QED BY <1>1, <2>2 DEF CheckAdmin, TypeInv, TypeOK, flash, mdns
<1>2. CASE RemoveRead
  <2>1. req' \in HandlerState
    BY <1>2 DEF RemoveRead, TypeInv, TypeOK, HandlerState, RemovePcs
  <2> QED BY <1>2, <2>1 DEF RemoveRead, TypeInv, TypeOK, flash, mdns
<1>3. CASE RemoveLoop
  <2>1. req' \in HandlerState
    <3>1. CASE req.i > Len(req.data)
      BY ZenonT(60), <1>3, <3>1, HandlerUpdate DEF RemoveLoop, Goto, TypeInv, TypeOK, Pcs, RemovePcs
    <3>2. CASE ~(req.i > Len(req.data))
      <4>1. req.data[req.i] \in Entry /\ req.kept \in Seq(Entry)
        <5>1. req.data \in Seq(Entry) /\ req.kept \in Seq(Entry) /\ req.i \in Nat \ {0}
          BY DEF TypeInv, TypeOK, HandlerState
        <5>2. req.i \in 1..Len(req.data)
          BY <3>2, <5>1, LenProperties
        <5> QED BY <5>1, <5>2, ElementOfSeq
      <4>2. Append(req.kept, req.data[req.i]) \in Seq(Entry)
        BY <4>1, AppendProperties
      <4>3. req.i + 1 \in Nat \ {0}
        BY DEF TypeInv, TypeOK, HandlerState
      <4>4. PICK kept \in Seq(Entry) : req' = [req EXCEPT !.i = req.i + 1, !.kept = kept]
        BY <1>3, <3>2, <4>1, <4>2 DEF RemoveLoop
      <4> QED BY <4>3, <4>4 DEF TypeInv, TypeOK, HandlerState
    <3> QED BY <3>1, <3>2
  <2> QED BY <1>3, <2>1 DEF RemoveLoop, TypeInv, TypeOK, flash, mdns
<1>4. CASE RemoveWrite
  <2>1. req' \in HandlerState
    <3>1. req' \in {[req EXCEPT !.pc = "has_admin"],
                  [req EXCEPT !.pc = "rem_reply", !.ok = FALSE, !.paired = FALSE]}
      BY <1>4 DEF RemoveWrite, Goto
    <3>2. [req EXCEPT !.pc = "has_admin"] \in HandlerState
      BY HandlerUpdate DEF TypeInv, TypeOK, Pcs, RemovePcs
    <3>3. [req EXCEPT !.pc = "rem_reply", !.ok = FALSE, !.paired = FALSE] \in HandlerState
      BY HandlerUpdate DEF TypeInv, TypeOK, Pcs, RemovePcs
    <3> QED BY <3>1, <3>2, <3>3
  <2>2. store' \in Seq(Entry)
    BY <1>4 DEF RemoveWrite, TypeInv, TypeOK, HandlerState
  <2> QED BY <1>4, <2>1, <2>2 DEF RemoveWrite, TypeInv, TypeOK, mdns
<1>5. CASE CheckOtherAdmin
  <2>1. req' \in HandlerState
    BY <1>5 DEF CheckOtherAdmin, Goto, TypeInv, TypeOK, HandlerState, RemovePcs
  <2> QED BY <1>5, <2>1 DEF CheckOtherAdmin, TypeInv, TypeOK, flash, mdns
<1>6. CASE EraseAll
  <2>1. req' \in HandlerState
    <3>1. req' \in {[req EXCEPT !.pc = "rem_reply", !.paired = FALSE],
                  [req EXCEPT !.pc = "rem_reply", !.ok = FALSE, !.paired = FALSE]}
      BY <1>6 DEF EraseAll
    <3>2. [req EXCEPT !.pc = "rem_reply", !.paired = FALSE] \in HandlerState
      BY HandlerUpdate DEF TypeInv, TypeOK, Pcs, RemovePcs
    <3>3. [req EXCEPT !.pc = "rem_reply", !.ok = FALSE, !.paired = FALSE] \in HandlerState
      BY HandlerUpdate DEF TypeInv, TypeOK, Pcs, RemovePcs
    <3> QED BY <3>1, <3>2, <3>3
  <2>2. store' \in Seq(Entry)
    BY <1>6, NoEntries DEF EraseAll, TypeInv, TypeOK
  <2> QED BY <1>6, <2>1, <2>2 DEF EraseAll, TypeInv, TypeOK, mdns
<1>7. CASE RemoveReply
  <2>1. req' \in HandlerState
    <3>1. PICK ok \in {req.ok, FALSE} :
            req' = IF req.paired THEN NoRequest ELSE [req EXCEPT !.pc = "unpublish", !.ok = ok]
      BY <1>7 DEF RemoveReply
    <3>2. ok \in BOOLEAN
      BY DEF TypeInv, TypeOK, HandlerState
    <3> QED BY <3>1, <3>2, HandlerUpdate DEF TypeInv, TypeOK, Pcs, PublishPcs
  <2>2. conn' \in [Sockets -> {"closed", "open", "closing"}]
    BY <1>7 DEF RemoveReply, TypeInv, TypeOK
  <2> QED BY <1>7, <2>1, <2>2 DEF RemoveReply, TypeInv, TypeOK, flash, mdns
<1> QED BY <1>1, <1>2, <1>3, <1>4, <1>5, <1>6, <1>7 DEF RemoveStep

LEMMA PublishTypes ==
  ASSUME TypeInv, HttpPublishStep
  PROVE  TypeOK'
<1> USE NoRequestType
<1>1. CASE HttpUnpublish
  <2>1. req' \in HandlerState
    BY <1>1 DEF HttpUnpublish, Goto, TypeInv, TypeOK, HandlerState, PublishPcs
  <2> QED BY <1>1, <2>1 DEF HttpUnpublish, Unpublish, TypeInv, TypeOK, flash
<1>2. CASE HttpPublish
  <2>1. req' \in HandlerState
    <3>1. req' = [req EXCEPT !.pc = "announce"] \/ req' = NoRequest
      BY <1>2 DEF HttpPublish, Goto, Return
    <3>2. [req EXCEPT !.pc = "announce"] \in HandlerState
      BY HandlerUpdate DEF TypeInv, TypeOK, Pcs, PublishPcs
    <3> QED BY <3>1, <3>2
  <2>2. conn' \in [Sockets -> {"closed", "open", "closing"}]
    BY <1>2 DEF HttpPublish, Return, TypeInv, TypeOK
  <2> QED BY <1>2, <2>1, <2>2 DEF HttpPublish, TypeInv, TypeOK, flash, mdns
<1>3. CASE HttpAnnounce
  <2>1. conn' \in [Sockets -> {"closed", "open", "closing"}]
    BY <1>3 DEF HttpAnnounce, Return, TypeInv, TypeOK
  <2> QED BY <1>3, <2>1 DEF HttpAnnounce, Return, TypeInv, TypeOK, flash
<1> QED BY <1>1, <1>2, <1>3 DEF HttpPublishStep

LEMMA RequestTypes ==
  ASSUME TypeInv, NEW s \in Sockets, Request(s) \/ ConnectionStep(s)
  PROVE  TypeOK'
<1> USE NoRequestType
<1>1. ASSUME NEW d \in Devices, NEW k \in DeviceKeys, SetupRequest(s, d, k)
      PROVE  TypeOK'
  <2>1. req' \in HandlerState
    BY <1>1 DEF SetupRequest, HandlerState, SetupPcs
  <2> QED BY <1>1, <2>1 DEF SetupRequest, TypeInv, TypeOK, flash, mdns
<1>2. ASSUME NEW d \in Devices, RemoveRequest(s, d)
      PROVE  TypeOK'
  <2>1. req' \in HandlerState
    BY <1>2 DEF RemoveRequest, HandlerState, RemovePcs
  <2> QED BY <1>2, <2>1 DEF RemoveRequest, TypeInv, TypeOK, flash, mdns
<1>3. ASSUME NEW ok \in BOOLEAN, OtherPairingsRequest(s, ok)
      PROVE  TypeOK'
  <2>1. req' \in HandlerState
    BY <1>3 DEF OtherPairingsRequest, HandlerState, PublishPcs
  <2> QED BY <1>3, <2>1 DEF OtherPairingsRequest, TypeInv, TypeOK, flash, mdns
<1>4. CASE ConnectionStep(s)
  <2>1. conn' \in [Sockets -> {"closed", "open", "closing"}]
    BY <1>4 DEF ConnectionStep, Connect, Disconnect, CloseTriggered, TypeInv, TypeOK
  <2> QED BY <1>4, <2>1 DEF ConnectionStep, Connect, Disconnect, CloseTriggered,
                            TypeInv, TypeOK, flash, mdns
<1> QED BY <1>1, <1>2, <1>3, <1>4 DEF Request

LEMMA AppTypes ==
  ASSUME TypeInv, AppStep
  PROVE  TypeOK'
<1>1. CASE Boot
  BY <1>1 DEF Boot, AccIdGet, TypeInv, TypeOK
<1>2. CASE InitAgain
  BY <1>2 DEF InitAgain, AccIdGet, TypeInv, TypeOK, PublishPcs
<1>3. CASE Reset
  BY <1>3 DEF Reset, TypeInv, TypeOK, flash, mdns
<1>4. CASE ResetId
  BY <1>4 DEF ResetId, TypeInv, TypeOK, mdns
<1>5. CASE ResetStore
  <2>1. store' \in Seq(Entry)
    BY <1>5, NoEntries DEF ResetStore, TypeInv, TypeOK
  <2> QED BY <1>5, <2>1 DEF ResetStore, TypeInv, TypeOK, PublishPcs, mdns
<1>6. CASE AppUnpublish
  BY <1>6 DEF AppUnpublish, Unpublish, TypeInv, TypeOK, PublishPcs, flash
<1>7. CASE AppPublish
  BY <1>7 DEF AppPublish, TypeInv, TypeOK, PublishPcs, flash, mdns
<1>8. CASE AppAnnounce
  BY <1>8 DEF AppAnnounce, TypeInv, TypeOK, flash
<1> QED BY <1>1, <1>2, <1>3, <1>4, <1>5, <1>6, <1>7, <1>8 DEF AppStep

-----------------------------------------------------------------------------
(* Where a step leaves the httpd task.                                     *)

LEMMA RemoveStepPc ==
  ASSUME TypeInv, RemoveStep
  PROVE  /\ req'.pc \notin SetupPcs
         /\ UNCHANGED <<pubKey, privKey, known>>
<1> USE DEF TypeInv, TypeOK, HandlerState, SetupPcs
<1>1. CASE CheckAdmin
  BY <1>1 DEF CheckAdmin, flash
<1>2. CASE RemoveRead
  BY <1>2 DEF RemoveRead, flash
<1>3. CASE RemoveLoop
  BY <1>3 DEF RemoveLoop, Goto, flash
<1>4. CASE RemoveWrite
  BY <1>4 DEF RemoveWrite, Goto
<1>5. CASE CheckOtherAdmin
  BY <1>5 DEF CheckOtherAdmin, Goto, flash
<1>6. CASE EraseAll
  BY ZenonT(60), <1>6 DEF EraseAll
<1>7. CASE RemoveReply
  <2>1. PICK ok \in {req.ok, FALSE} :
          req' = IF req.paired THEN NoRequest ELSE [req EXCEPT !.pc = "unpublish", !.ok = ok]
    BY <1>7 DEF RemoveReply
  <2>2. req'.pc \in {"idle", "unpublish"}
    BY <2>1 DEF NoRequest
  <2> QED BY <1>7, <2>2 DEF RemoveReply, flash
<1> QED BY <1>1, <1>2, <1>3, <1>4, <1>5, <1>6, <1>7 DEF RemoveStep

LEMMA PublishStepPc ==
  ASSUME TypeInv, HttpPublishStep
  PROVE  /\ req'.pc \in {"idle", "publish", "announce"}
         /\ UNCHANGED <<store, pubKey, privKey, known>>
<1> USE DEF TypeInv, TypeOK, HandlerState
<1>1. CASE HttpUnpublish
  BY <1>1 DEF HttpUnpublish, Goto, flash
<1>2. CASE HttpPublish
  BY <1>2 DEF HttpPublish, Goto, Return, NoRequest, flash
<1>3. CASE HttpAnnounce
  BY <1>3 DEF HttpAnnounce, Return, NoRequest, flash
<1> QED BY <1>1, <1>2, <1>3 DEF HttpPublishStep

LEMMA AppStepFrame ==
  ASSUME AppStep
  PROVE  UNCHANGED <<pubKey, privKey, known, req>>
BY DEF AppStep, Boot, InitAgain, Reset, ResetId, ResetStore, AppUnpublish,
       AppPublish, AppAnnounce, flash, mdns

LEMMA ConnectionStepFrame ==
  ASSUME NEW s \in Sockets, ConnectionStep(s)
  PROVE  UNCHANGED <<flash, mdns, req, app, known>>
BY DEF ConnectionStep, Connect, Disconnect, CloseTriggered

-----------------------------------------------------------------------------
(* The accessory's keys.                                                   *)

LEMMA KeyFrame ==
  ASSUME KeyInv, UNCHANGED <<pubKey, privKey, known>>,
         req' = req \/ req'.pc \notin SetupPcs
  PROVE  KeyInv'
<1>1. KeysInUse' = KeysInUse
  BY DEF KeysInUse
<1> QED BY <1>1 DEF KeyInv, FreshKeyLeft, NewKeyUnknown, ReplyKeyComplete,
                    ConfirmedKeyIsDurable, SetupPcs

LEMMA SetupKeepsKeys ==
  ASSUME TypeInv, KeyInv, SetupStep
  PROVE  KeyInv'
<1> USE DEF KeyInv, FreshKeyLeft, NewKeyUnknown, ReplyKeyComplete, ConfirmedKeyIsDurable
<1>1. CASE AddRead
  <2>1. KeysInUse' = KeysInUse
    BY <1>1 DEF AddRead, KeysInUse, flash
  <2>2. req'.pc = "add_write"
    BY <1>1 DEF AddRead, TypeInv, TypeOK, HandlerState
  <2> QED BY <1>1, <2>1, <2>2 DEF AddRead, flash
<1>2. CASE AddWrite
  <2>1. KeysInUse' = KeysInUse
    BY <1>2 DEF AddWrite, KeysInUse
  <2>2. req'.pc = "pub"
    BY <1>2 DEF AddWrite, Goto, TypeInv, TypeOK, HandlerState
  <2> QED BY <1>2, <2>1, <2>2 DEF AddWrite
<1>3. CASE StorePub
  <2>1. FreshKey \in AccKeys /\ FreshKey \notin KeysInUse
    BY <1>3, FreshKeyIsFresh DEF StorePub
  <2>2. CASE /\ pubKey' = FreshKey
             /\ req' = [req EXCEPT !.pc = "priv", !.acc = FreshKey]
    <3>1. req'.pc = "priv" /\ req'.acc = FreshKey
      BY <2>2 DEF TypeInv, TypeOK, HandlerState
    <3>2. \A d \in Devices : known'[d] # FreshKey
      BY <1>3, <2>1 DEF StorePub, KeysInUse
    <3> QED BY <2>1, <2>2, <3>1, <3>2
  <2>3. CASE /\ pubKey' = pubKey
             /\ req' = [req EXCEPT !.pc = "setup_reply", !.ok = FALSE]
    <3>1. req'.pc = "setup_reply" /\ ~req'.ok
      BY <2>3 DEF TypeInv, TypeOK, HandlerState
    <3> QED BY <1>3, <2>3, <3>1 DEF StorePub
  <2> QED BY <1>3, <2>2, <2>3 DEF StorePub
<1>4. CASE StorePriv
  <2>1. CASE /\ privKey' = req.acc
             /\ req' = [req EXCEPT !.pc = "setup_reply"]
    <3>1. req'.pc = "setup_reply" /\ req'.acc = req.acc
      BY <2>1 DEF TypeInv, TypeOK, HandlerState
    <3> QED BY <1>4, <2>1, <3>1 DEF StorePriv
  <2>2. CASE /\ privKey' = privKey
             /\ req' = [req EXCEPT !.pc = "setup_reply", !.ok = FALSE]
    <3>1. req'.pc = "setup_reply" /\ ~req'.ok
      BY <2>2 DEF TypeInv, TypeOK, HandlerState
    <3> QED BY <1>4, <2>2, <3>1 DEF StorePriv
  <2> QED BY <1>4, <2>1, <2>2 DEF StorePriv, Goto
<1>5. CASE SetupReply
  <2>1. req'.pc = "idle" /\ UNCHANGED <<pubKey, privKey>>
    BY <1>5 DEF SetupReply, Return, NoRequest
  <2>2. \/ known' = known
        \/ req.ok /\ known' = [known EXCEPT ![req.dev] = req.acc]
    BY <1>5 DEF SetupReply
  <2>3. ConfirmedKeyIsDurable'
    BY <1>5, <2>1, <2>2 DEF SetupReply, TypeInv, TypeOK
  <2> QED BY <2>1, <2>3
<1> QED BY <1>1, <1>2, <1>3, <1>4, <1>5 DEF SetupStep

LEMMA KeysNext ==
  ASSUME TypeInv, KeyInv, [Next]_vars
  PROVE  KeyInv'
<1>1. CASE SetupStep
  BY <1>1, SetupKeepsKeys
<1>2. CASE RemoveStep
  BY <1>2, RemoveStepPc, KeyFrame
<1>3. CASE HttpPublishStep
  BY <1>3, PublishStepPc, KeyFrame DEF SetupPcs
<1>4. ASSUME NEW s \in Sockets, Request(s)
      PROVE  KeyInv'
  <2>1. ASSUME NEW d \in Devices, NEW k \in DeviceKeys, SetupRequest(s, d, k)
        PROVE  KeyInv'
    <3>1. req'.pc = "add_read" /\ AccKeys \ KeysInUse # {} /\ KeysInUse' = KeysInUse
      BY <2>1 DEF SetupRequest, NoRequest, KeysInUse, flash
    <3> QED BY <2>1, <3>1 DEF SetupRequest, flash, KeyInv, FreshKeyLeft, NewKeyUnknown,
                              ReplyKeyComplete, ConfirmedKeyIsDurable
  <2>2. ASSUME NEW d \in Devices, RemoveRequest(s, d)
        PROVE  KeyInv'
    BY <2>2, KeyFrame DEF RemoveRequest, NoRequest, SetupPcs, flash
  <2>3. ASSUME NEW ok \in BOOLEAN, OtherPairingsRequest(s, ok)
        PROVE  KeyInv'
    BY <2>3, KeyFrame DEF OtherPairingsRequest, NoRequest, SetupPcs, flash
  <2> QED BY <1>4, <2>1, <2>2, <2>3 DEF Request
<1>5. ASSUME NEW s \in Sockets, ConnectionStep(s)
      PROVE  KeyInv'
  BY <1>5, ConnectionStepFrame, KeyFrame DEF flash
<1>6. CASE AppStep
  BY <1>6, AppStepFrame, KeyFrame
<1>7. CASE Crash
  BY <1>7, KeyFrame DEF Crash, NoRequest, SetupPcs, flash
<1>8. CASE UNCHANGED vars
  BY <1>8, KeyFrame DEF vars, flash
<1> QED BY <1>1, <1>2, <1>3, <1>4, <1>5, <1>6, <1>7, <1>8 DEF Next, HandlerStep

-----------------------------------------------------------------------------
(* The removal.                                                            *)

LEMMA AuthFrame ==
  ASSUME AuthInv,
         \/ req'.pc \notin {"rem_read", "rem_loop", "rem_write"}
         \/ req' = req /\ store' \in {store, <<>>}
  PROVE  AuthInv'
BY DEF AuthInv, CheckedIsPaired, RemovalStillAuthorised, HasEntry

LEMMA RemoveKeepsAuth ==
  ASSUME TypeInv, AuthInv, RemoveStep
  PROVE  AuthInv'
<1> USE DEF TypeInv, TypeOK, HandlerState
<1>1. CASE CheckAdmin
  <2>1. CASE IsAdmin(store, req.dev)
    <3>1. req'.pc = "rem_read" /\ req'.dev = req.dev /\ store' = store
      BY <1>1, <2>1 DEF CheckAdmin, flash
    <3>2. HasEntry(store, req.dev)
      BY <2>1 DEF IsAdmin, HasEntry
    <3> QED BY <3>1, <3>2 DEF AuthInv, CheckedIsPaired, RemovalStillAuthorised
  <2>2. CASE ~IsAdmin(store, req.dev)
    <3>1. req'.pc = "rem_reply"
      BY <1>1, <2>2 DEF CheckAdmin
    <3> QED BY <3>1, AuthFrame
  <2> QED BY <2>1, <2>2
<1>2. CASE RemoveRead
  <2>1. req'.pc = "rem_loop" /\ req'.dev = req.dev /\ req'.data = store
    BY <1>2 DEF RemoveRead
  <2> QED BY <1>2, <2>1 DEF RemoveRead, AuthInv, CheckedIsPaired, RemovalStillAuthorised
<1>3. CASE RemoveLoop
  <2>1. req'.pc \in {"rem_loop", "rem_write"} /\ req'.dev = req.dev /\ req'.data = req.data
    <3>1. CASE req.i > Len(req.data)
      BY <1>3, <3>1 DEF RemoveLoop, Goto
    <3>2. CASE ~(req.i > Len(req.data))
      BY <1>3, <3>2 DEF RemoveLoop
    <3> QED BY <3>1, <3>2
  <2> QED BY <1>3, <2>1 DEF RemoveLoop, AuthInv, CheckedIsPaired, RemovalStillAuthorised
<1>4. CASE RemoveWrite
  <2>1. req'.pc \in {"has_admin", "rem_reply"}
    BY <1>4 DEF RemoveWrite, Goto
  <2> QED BY <2>1, AuthFrame
<1>5. CASE CheckOtherAdmin
  <2>1. req'.pc \in {"erase", "rem_reply"}
    BY <1>5 DEF CheckOtherAdmin, Goto
  <2> QED BY <2>1, AuthFrame
<1>6. CASE EraseAll
  <2>1. req'.pc = "rem_reply"
    <3>1. req' \in {[req EXCEPT !.pc = "rem_reply", !.paired = FALSE],
                     [req EXCEPT !.pc = "rem_reply", !.ok = FALSE, !.paired = FALSE]}
      BY <1>6 DEF EraseAll
    <3> QED BY <3>1
  <2> QED BY <2>1, AuthFrame
<1>7. CASE RemoveReply
  <2>1. PICK ok \in {req.ok, FALSE} :
          req' = IF req.paired THEN NoRequest ELSE [req EXCEPT !.pc = "unpublish", !.ok = ok]
    BY <1>7 DEF RemoveReply
  <2>2. req'.pc \in {"idle", "unpublish"}
    BY <2>1 DEF NoRequest
  <2> QED BY <2>2, AuthFrame
<1> QED BY <1>1, <1>2, <1>3, <1>4, <1>5, <1>6, <1>7 DEF RemoveStep

LEMMA SetupStepPc ==
  ASSUME TypeInv, SetupStep
  PROVE  req'.pc \in SetupPcs \cup {"idle"}
<1> USE DEF TypeInv, TypeOK, HandlerState, SetupPcs
<1>1. CASE AddRead
  BY <1>1 DEF AddRead
<1>2. CASE AddWrite
  BY <1>2 DEF AddWrite, Goto
<1>3. CASE StorePub
  BY <1>3 DEF StorePub
<1>4. CASE StorePriv
  BY <1>4 DEF StorePriv, Goto
<1>5. CASE SetupReply
  BY <1>5 DEF SetupReply, Return, NoRequest
<1> QED BY <1>1, <1>2, <1>3, <1>4, <1>5 DEF SetupStep

LEMMA AuthNext ==
  ASSUME TypeInv, AuthInv, [Next]_vars
  PROVE  AuthInv'
<1>1. CASE SetupStep
  BY <1>1, SetupStepPc, AuthFrame DEF SetupPcs
<1>2. CASE RemoveStep
  BY <1>2, RemoveKeepsAuth
<1>3. CASE HttpPublishStep
  BY <1>3, PublishStepPc, AuthFrame
<1>4. ASSUME NEW s \in Sockets, Request(s)
      PROVE  AuthInv'
  <2>1. req'.pc \in {"add_read", "is_admin", "unpublish"}
    BY <1>4 DEF Request, SetupRequest, RemoveRequest, OtherPairingsRequest, NoRequest
  <2> QED BY <2>1, AuthFrame
<1>5. ASSUME NEW s \in Sockets, ConnectionStep(s)
      PROVE  AuthInv'
  BY <1>5, ConnectionStepFrame, AuthFrame DEF flash
<1>6. CASE AppStep
  <2>1. store' \in {store, <<>>}
    BY <1>6 DEF AppStep, Boot, InitAgain, Reset, ResetId, ResetStore, AppUnpublish,
                AppPublish, AppAnnounce, flash
  <2> QED BY <1>6, <2>1, AppStepFrame, AuthFrame
<1>7. CASE Crash
  BY <1>7, AuthFrame DEF Crash, NoRequest
<1>8. CASE UNCHANGED vars
  BY <1>8, AuthFrame DEF vars, flash
<1> QED BY <1>1, <1>2, <1>3, <1>4, <1>5, <1>6, <1>7, <1>8 DEF Next, HandlerStep

-----------------------------------------------------------------------------
(* The announcement of an unpaired accessory.                              *)

\* A step that starts where no publication is due in the httpd task.
LEMMA DiscoverableFrame ==
  ASSUME UnpairedIsDiscoverable, ~HttpPending,
         UNCHANGED <<running, sf, app>>, store' = store \/ store' # <<>>
  PROVE  UnpairedIsDiscoverable'
BY DEF UnpairedIsDiscoverable, PublishPending, HttpPending

LEMMA SetupKeepsDiscoverable ==
  ASSUME TypeInv, UnpairedIsDiscoverable, SetupStep
  PROVE  UnpairedIsDiscoverable'
<1>1. ~HttpPending
  BY DEF SetupStep, AddRead, AddWrite, StorePub, StorePriv, SetupReply, HttpPending, PublishPcs
<1>2. UNCHANGED <<running, sf, app>>
  BY DEF SetupStep, AddRead, AddWrite, StorePub, StorePriv, SetupReply, mdns
<1>3. store' = store \/ store' # <<>>
  <2>1. CASE AddWrite
    <3>1. req.data \in Seq(Entry) /\ NewEntry \in Entry
      BY <2>1 DEF AddWrite, TypeInv, TypeOK, SetupKnowsDevice, HandlerState, NewEntry, Entry
    <3>2. Append(req.data, NewEntry) # <<>>
      BY <3>1, AppendProperties
    <3> QED BY <2>1, <3>2 DEF AddWrite
  <2>2. CASE ~AddWrite
    BY <2>2 DEF SetupStep, AddRead, StorePub, StorePriv, SetupReply, flash
  <2> QED BY <2>1, <2>2
<1> QED BY <1>1, <1>2, <1>3, DiscoverableFrame

LEMMA RemoveKeepsDiscoverable ==
  ASSUME TypeInv, UnpairedIsDiscoverable, RemoveStep
  PROVE  UnpairedIsDiscoverable'
<1> USE DEF TypeInv, TypeOK, HandlerState
<1>1. CASE CheckAdmin \/ RemoveRead \/ RemoveLoop
  <2>1. ~HttpPending /\ UNCHANGED <<running, sf, app, store>>
    BY <1>1 DEF CheckAdmin, RemoveRead, RemoveLoop, HttpPending, PublishPcs, flash, mdns
  <2> QED BY <2>1, DiscoverableFrame
<1>2. CASE RemoveWrite
  <2>1. CASE req' = [req EXCEPT !.pc = "has_admin"]
    <3>1. req'.pc = "has_admin"
      BY <2>1
    <3> QED BY <3>1 DEF UnpairedIsDiscoverable, PublishPending, HttpPending
  <2>2. CASE req' = [req EXCEPT !.pc = "rem_reply", !.ok = FALSE, !.paired = FALSE]
    <3>1. req'.pc = "rem_reply" /\ ~req'.paired
      BY <2>2
    <3> QED BY <3>1 DEF UnpairedIsDiscoverable, PublishPending, HttpPending
  <2> QED BY <1>2, <2>1, <2>2 DEF RemoveWrite, Goto
<1>3. CASE CheckOtherAdmin
  <2>1. CASE HasAdmin(store)
    BY <1>3, <2>1 DEF CheckOtherAdmin, HasAdmin, flash, UnpairedIsDiscoverable
  <2>2. CASE ~HasAdmin(store)
    <3>1. req'.pc = "erase"
      BY <1>3, <2>2 DEF CheckOtherAdmin, Goto
    <3> QED BY <3>1 DEF UnpairedIsDiscoverable, PublishPending, HttpPending
  <2> QED BY <2>1, <2>2
<1>4. CASE EraseAll
  <2>1. req'.pc = "rem_reply" /\ ~req'.paired
    <3>1. req' \in {[req EXCEPT !.pc = "rem_reply", !.paired = FALSE],
                     [req EXCEPT !.pc = "rem_reply", !.ok = FALSE, !.paired = FALSE]}
      BY <1>4 DEF EraseAll
    <3> QED BY ZenonT(60), <3>1
  <2> QED BY <2>1 DEF UnpairedIsDiscoverable, PublishPending, HttpPending
<1>5. CASE RemoveReply
  <2>1. PICK ok \in {req.ok, FALSE} :
          req' = IF req.paired THEN NoRequest ELSE [req EXCEPT !.pc = "unpublish", !.ok = ok]
    BY <1>5 DEF RemoveReply
  <2>2. CASE req.paired
    <3>1. ~HttpPending
      BY <1>5, <2>2 DEF RemoveReply, HttpPending, PublishPcs
    <3> QED BY <1>5, <3>1, DiscoverableFrame DEF RemoveReply, flash, mdns
  <2>3. CASE ~req.paired
    <3>1. req'.pc = "unpublish"
      BY <2>1, <2>3
    <3> QED BY <3>1 DEF UnpairedIsDiscoverable, PublishPending, HttpPending, PublishPcs
  <2> QED BY <2>2, <2>3
<1> QED BY <1>1, <1>2, <1>3, <1>4, <1>5 DEF RemoveStep

LEMMA PublishKeepsDiscoverable ==
  ASSUME TypeInv, UnpairedIsDiscoverable, HttpPublishStep
  PROVE  UnpairedIsDiscoverable'
<1> USE DEF TypeInv, TypeOK, HandlerState
<1>1. CASE HttpUnpublish
  <2>1. req'.pc = "publish"
    BY <1>1 DEF HttpUnpublish, Goto
  <2> QED BY <2>1 DEF UnpairedIsDiscoverable, PublishPending, HttpPending, PublishPcs
<1>2. CASE HttpPublish
  <2>1. CASE store = <<>>
    <3>1. req'.pc = "announce"
      BY <1>2, <2>1 DEF HttpPublish, Goto
    <3> QED BY <3>1 DEF UnpairedIsDiscoverable, PublishPending, HttpPending, PublishPcs
  <2>2. CASE store # <<>>
    BY <1>2, <2>2 DEF HttpPublish, flash, UnpairedIsDiscoverable
  <2> QED BY <2>1, <2>2
<1>3. CASE HttpAnnounce
  BY <1>3 DEF HttpAnnounce, UnpairedIsDiscoverable
<1> QED BY <1>1, <1>2, <1>3 DEF HttpPublishStep

LEMMA AppKeepsDiscoverable ==
  ASSUME TypeInv, UnpairedIsDiscoverable, AppStep
  PROVE  UnpairedIsDiscoverable'
<1> USE DEF UnpairedIsDiscoverable, PublishPending, HttpPending, PublishPcs
<1>1. CASE Boot
  BY <1>1 DEF Boot
<1>2. CASE InitAgain
  BY <1>2 DEF InitAgain
<1>3. CASE Reset
  BY <1>3 DEF Reset, flash, mdns
<1>4. CASE ResetId
  BY <1>4 DEF ResetId, mdns
<1>5. CASE ResetStore
  BY <1>5 DEF ResetStore, mdns
<1>6. CASE AppUnpublish
  BY <1>6 DEF AppUnpublish
<1>7. CASE AppPublish
  BY <1>7 DEF AppPublish, flash, mdns
<1>8. CASE AppAnnounce
  BY <1>8 DEF AppAnnounce
<1> QED BY <1>1, <1>2, <1>3, <1>4, <1>5, <1>6, <1>7, <1>8 DEF AppStep

LEMMA DiscoverableNext ==
  ASSUME TypeInv, UnpairedIsDiscoverable, [Next]_vars
  PROVE  UnpairedIsDiscoverable'
<1>1. CASE SetupStep
  BY <1>1, SetupKeepsDiscoverable
<1>2. CASE RemoveStep
  BY <1>2, RemoveKeepsDiscoverable
<1>3. CASE HttpPublishStep
  BY <1>3, PublishKeepsDiscoverable
<1>4. ASSUME NEW s \in Sockets, Request(s)
      PROVE  UnpairedIsDiscoverable'
  <2>1. ~HttpPending /\ UNCHANGED <<running, sf, app, store>>
    BY <1>4 DEF Request, SetupRequest, RemoveRequest, OtherPairingsRequest, HttpPending,
                PublishPcs, flash, mdns
  <2> QED BY <2>1, DiscoverableFrame
<1>5. ASSUME NEW s \in Sockets, ConnectionStep(s)
      PROVE  UnpairedIsDiscoverable'
  BY <1>5, ConnectionStepFrame DEF flash, mdns, UnpairedIsDiscoverable, PublishPending, HttpPending
<1>6. CASE AppStep
  BY <1>6, AppKeepsDiscoverable
<1>7. CASE Crash
  BY <1>7 DEF Crash, UnpairedIsDiscoverable
<1>8. CASE UNCHANGED vars
  BY <1>8 DEF vars, flash, mdns, UnpairedIsDiscoverable, PublishPending, HttpPending
<1> QED BY <1>1, <1>2, <1>3, <1>4, <1>5, <1>6, <1>7, <1>8 DEF Next, HandlerStep

-----------------------------------------------------------------------------
(* The invariants of the specification.                                    *)

LEMMA TypeNext ==
  ASSUME TypeInv, FreshKeyLeft, [Next]_vars
  PROVE  TypeInv'
<1>1. TypeOK'
  <2>1. CASE Crash
    BY <2>1, NoRequestType DEF Crash, TypeInv, TypeOK, flash
  <2>2. CASE UNCHANGED vars
    BY <2>2 DEF vars, flash, mdns, TypeInv, TypeOK
  <2> QED BY <2>1, <2>2, SetupTypes, RemoveTypes, PublishTypes, RequestTypes, AppTypes
          DEF Next, HandlerStep
<1>2. SetupKnowsDevice'
  <2>1. CASE SetupStep
    <3> USE DEF TypeInv, TypeOK, HandlerState, SetupKnowsDevice
    <3>1. CASE AddRead
      BY <3>1 DEF AddRead
    <3>2. CASE AddWrite
      BY <3>2 DEF AddWrite, Goto
    <3>3. CASE StorePub
      BY ZenonT(60), <3>3 DEF StorePub
    <3>4. CASE StorePriv
      BY ZenonT(60), <3>4 DEF StorePriv, Goto
    <3>5. CASE SetupReply
      BY <3>5 DEF SetupReply, Return, NoRequest
    <3> QED BY <2>1, <3>1, <3>2, <3>3, <3>4, <3>5 DEF SetupStep
  <2>2. CASE RemoveStep
    BY <2>2, RemoveStepPc DEF SetupKnowsDevice, SetupPcs
  <2>3. CASE HttpPublishStep
    BY <2>3, PublishStepPc DEF SetupKnowsDevice
  <2>4. ASSUME NEW s \in Sockets, Request(s)
        PROVE  SetupKnowsDevice'
    BY <2>4 DEF Request, SetupRequest, RemoveRequest, OtherPairingsRequest, NoRequest,
                SetupKnowsDevice
  <2>5. ASSUME NEW s \in Sockets, ConnectionStep(s)
        PROVE  SetupKnowsDevice'
    BY <2>5, ConnectionStepFrame DEF TypeInv, SetupKnowsDevice
  <2>6. CASE AppStep
    BY <2>6, AppStepFrame DEF TypeInv, SetupKnowsDevice
  <2>7. CASE Crash
    BY <2>7 DEF Crash, NoRequest, SetupKnowsDevice
  <2>8. CASE UNCHANGED vars
    BY <2>8 DEF vars, TypeInv, SetupKnowsDevice
  <2> QED BY <2>1, <2>2, <2>3, <2>4, <2>5, <2>6, <2>7, <2>8 DEF Next, HandlerStep
<1> QED BY <1>1, <1>2 DEF TypeInv

Inv == TypeInv /\ KeyInv /\ AuthInv /\ UnpairedIsDiscoverable

(***************************************************************************)
(* The inductive invariant: the four checked invariants with what the      *)
(* handlers know between their steps.                                      *)
(***************************************************************************)
THEOREM Invariance == Spec => []Inv
<1>1. Init => Inv
  <2>1. Init => req.pc = "idle" /\ ~running /\ \A d \in Devices : known[d] = None
    BY DEF Init, NoRequest
  <2> QED BY <2>1, TypeInit DEF Inv, TypeInv, SetupKnowsDevice, KeyInv, FreshKeyLeft,
        NewKeyUnknown, ReplyKeyComplete, ConfirmedKeyIsDurable, AuthInv, CheckedIsPaired,
        RemovalStillAuthorised, UnpairedIsDiscoverable
<1>2. Inv /\ [Next]_vars => Inv'
  BY TypeNext, KeysNext, AuthNext, DiscoverableNext DEF Inv, KeyInv
<1> QED BY <1>1, <1>2, PTL DEF Spec

(***************************************************************************)
(* Every variable keeps its type, whatever the two tasks and power do.     *)
(***************************************************************************)
THEOREM TypeCorrect == Spec => []TypeOK
BY Invariance, PTL DEF Inv, TypeInv

(***************************************************************************)
(* An unpaired accessory that runs is announced, or is about to be.        *)
(***************************************************************************)
THEOREM DiscoverableCorrect == Spec => []UnpairedIsDiscoverable
BY Invariance, PTL DEF Inv

(***************************************************************************)
(* No key pair that a controller relies on is torn between its two entries.*)
(***************************************************************************)
THEOREM KeysCorrect == Spec => []ConfirmedKeyIsDurable
BY Invariance, PTL DEF Inv, KeyInv

(***************************************************************************)
(* A removal never works on a copy of the store its device is missing in.  *)
(***************************************************************************)
THEOREM RemovalCorrect == Spec => []RemovalStillAuthorised
BY Invariance, PTL DEF Inv, AuthInv

=============================================================================
