---------------------------- MODULE MCHkIpSession ----------------------------
(***************************************************************************)
(* Bounds for HkIpSession.  Sizes are scaled so that each relation of the  *)
(* code's sizes occurs: a header of two blocks; a value shorter and longer *)
(* than a fragment, and of exactly one and two; a request in one frame, in *)
(* two, one that just fits a recv and one that does not; a response of one *)
(* frame and of more.  Five frames use up the numbers.                     *)
(***************************************************************************)
EXTENDS HkIpSession

MCContents == {0, 1, 4, 6, 8, 11}
MCKeySizes == {1, 2, 3, 4}
MCSrpIds == {1, 2}

=============================================================================
