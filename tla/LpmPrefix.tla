------------------------------- MODULE LpmPrefix -------------------------------
(***************************************************************************)
(* The addresses a prefix net/depth covers, as Lpm::add() and Lpm6::lookup *)
(* compute them: a block of first-level slots for a depth up to the width  *)
(* of the first level, a block of second-level entries of one slot for a   *)
(* deeper one.  The code has HiBits = 24 and LoBits = 8.                   *)
(***************************************************************************)
EXTENDS Naturals

CONSTANTS HiBits, LoBits

Uppers == 0 .. 2^HiBits - 1
Lowers == 0 .. 2^LoBits - 1

\* net & (u32::MAX << (32 - depth)): the low bits are cleared.
Masked(net, depth) ==
  LET block == 2^(HiBits + LoBits - depth)
  IN  (net \div block) * block

\* first .. first + count - 1
ShallowBlock(masked, depth) ==
  LET first == masked \div 2^LoBits
  IN  first .. first + 2^(HiBits - depth) - 1

DeepBlock(masked, depth) ==
  LET low == masked % 2^LoBits
  IN  low .. low + 2^(HiBits + LoBits - depth) - 1

Prefix(net, depth) ==
  LET masked == Masked(net, depth)
  IN  IF depth <= HiBits
      THEN [depth |-> depth, hi |-> ShallowBlock(masked, depth), lo |-> Lowers]
      ELSE [depth |-> depth, hi |-> {masked \div 2^LoBits},
            lo |-> DeepBlock(masked, depth)]

AllPrefixes ==
  {Prefix(net, depth) : net \in 0 .. 2^(HiBits + LoBits) - 1,
                        depth \in 0 .. HiBits + LoBits}
=============================================================================
