----------------------------- MODULE MCHkPairing -----------------------------
(***************************************************************************)
(* Bounds for HkPairing.  Two controllers, a key of each kind, and one     *)
(* connection, because httpd handles one request at a time.  The run of    *)
(* the properties that hold has two accessory keys, so that each setup     *)
(* replaces the key of the one before; the runs that look for a violation  *)
(* have enough for each controller to hold one while a setup generates a   *)
(* third.                                                                  *)
(***************************************************************************)
EXTENDS HkPairing

CONSTANTS d1, d2, plainKey, zeroKey, s1

MCDevices == {d1, d2}
MCDeviceKeys == {plainKey, zeroKey}
MCZeroKeys == {zeroKey}
MCAccKeys == {"a1", "a2", "a3", "a4"}
MCTwoAccKeys == {"a1", "a2"}
MCAccIds == {"id"}
MCSockets == {s1}
MCMaxEntries == 2

=============================================================================
