------------------------------- MODULE MCRoutes -------------------------------
(***************************************************************************)
(* L3fwd on small addresses.                                               *)
(*   IPv4: two-bit levels, every prefix of a four-bit address, added in    *)
(*   every order, up to MaxAdds times.                                     *)
(*   IPv6: two bytes of two bits, networks that share no bit, the first    *)
(*   bit or only the last bit not.                                         *)
(***************************************************************************)
EXTENDS L3fwd

CONSTANTS HiBits, LoBits

P == INSTANCE LpmPrefix

MCHi == P!Uppers
MCLo == P!Lowers
MCPrefixes == P!AllPrefixes
MCNets6 == {<<0, 0>>, <<1, 2>>, <<1, 3>>}
=============================================================================
