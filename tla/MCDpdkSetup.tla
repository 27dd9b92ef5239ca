------------------------------- MODULE MCDpdkSetup ------------------------------
(***************************************************************************)
(* FrameHandlers on tables of `Entries' entries: all setups, or the IPv6   *)
(* one of acl alone.  The networks are those denied and one that is not.   *)
(***************************************************************************)
EXTENDS FrameHandlers

MCAll  == {Acl4, Acl6, Nat4, Nat6, Macs, MacsFixed}
MCAcl6 == {Acl6}
MCNetworks == 1 .. Entries
MCHashes == 0 .. 2 * Entries - 1

ASSUME AreProgramsAssumption == \A p \in Programs : IsProgram(p)
=============================================================================
