------------------------------ MODULE MCChecksum ------------------------------
(***************************************************************************)
(* Checksum with words of three bits, and sums on both sides of the carry. *)
(***************************************************************************)
EXTENDS Checksum

MCSums == {1, 6, 7, 8, 15}
=============================================================================
