--------------------------- MODULE MCHkPairVerify ---------------------------
(***************************************************************************)
(* Bounds for HkPairVerify.  Two controllers, so that the resume of one    *)
(* can hit the session of the other; two list elements, so that a session  *)
(* is removed at the head or behind it and malloc reuses a freed element   *)
(* that is still linked; secrets for two sessions, two ids that the        *)
(* controllers remember and one that is new, two of them with ids that     *)
(* collide.                                                                *)
(***************************************************************************)
EXTENDS HkPairVerify

CONSTANTS d1, d2, n1, n2, k1, k2, k3, z1, z2

MCDevices == {d1, d2}
MCNodes == {n1, n2}
MCSecrets == {k1, k2, k3, z1, z2}
MCZeroIds == {z1, z2}
MCMaxFaults == 1

=============================================================================
