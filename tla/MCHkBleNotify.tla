---------------------------- MODULE MCHkBleNotify ----------------------------
(***************************************************************************)
(* Bounds for HkBleNotify: one task that notifies and resets, beside the   *)
(* NimBLE task.  What a firmware meets is in MCScope, so that the run is   *)
(* the sum and not the product of three worlds: r1 and r2 are updated into *)
(* each other, with two faults; with r3 one connection comes and goes,     *)
(* configures and is broadcast to, with one fault anywhere; with r4 up to  *)
(* two connections of three handles, one of them cut, meet notifications.  *)
(* Three global states: the number wraps, a key can get too old, and with  *)
(* at most one change unseen no two that matter are equal by wrapping.     *)
(* Keys: k0 is nobody's; the others are in flash, known to the controller, *)
(* and the secret of a new connection.                                     *)
(***************************************************************************)
EXTENDS HkBleNotify, TLC

CONSTANTS t1, k0, k1, k2, k3, r1, r2, r3, r4

MCTasks == {t1}
MCHandles == {0, 1, 2}
MCKeys == {k0, k1, k2, k3}
MCRevisions == {r1, r2, r3, r4}
MCPrefixes == {<<r1, r2>>}
MCSymmetry == Permutations(MCKeys \ {k0})
MCCounters == 2
MCMaxAge == 1
MCMaxState == 3
MCMaxUnseen == 1
MCScope ==
  (r1 :> [handles |-> {0}, requests |-> {}, updates |-> {r2}, faults |-> 2]) @@
  (r2 :> [handles |-> {0}, requests |-> {}, updates |-> {r1}, faults |-> 2]) @@
  (r3 :> [handles |-> {0}, requests |-> {0} \X BOOLEAN, updates |-> {}, faults |-> 1]) @@
  (r4 :> [handles |-> {0, 1, 2}, requests |-> {<<0, FALSE>>}, updates |-> {}, faults |-> 0])
MCMaxConns == 2

=============================================================================
