------------------------------ MODULE MCHkGatt ------------------------------
(***************************************************************************)
(* Bounds for HkGatt.  Pair verify and two characteristics, so that an     *)
(* abandoned transaction is of the same or of another one; two             *)
(* transactions, one of them abandoned.  A request with a body is one      *)
(* fragment in the clear, two encrypted and three before the MTU exchange; *)
(* the long response is five fragments with the small MTU and one byte     *)
(* more than a fragment with the large one, for which 8 bits just suffice. *)
(***************************************************************************)
EXTENDS HkGatt

CONSTANTS on, name, verify

MCChrs == {on, name, verify}
MCIds == {1, 2}
MCMtus == {60, 256}
MCRequestSizes == {0, 40}
MCResponseSizes == {12, 250}
MCMaxTransactions == 2
MCFrames == 2

=============================================================================
