---------------------------- MODULE MCHkIpEvents ----------------------------
(***************************************************************************)
(* Bounds for HkIpEvents.  Two sockets, so that one can take away the      *)
(* subscription of the other; three subscriptions, so that one is removed  *)
(* from the middle of an array (a socket may subscribe twice); two blocks, *)
(* the most that the store uses at a time for one characteristic, so that  *)
(* malloc reuses the address a notification still reads from.              *)
(***************************************************************************)
EXTENDS HkIpEvents, TLC

CONSTANTS c1, f1, f2, b1, b2

MCChrs == {c1}
MCFds == {f1, f2}
MCBlocks == {b1, b2}
MCMaxSubs == 3
MCMaxQueue == 2

Symmetry == Permutations(MCFds) \cup Permutations(MCBlocks)

=============================================================================
