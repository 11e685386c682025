----------------------------- MODULE Addresses -----------------------------
(* The source addresses that the per-address guards and tables key by.       *)
EXTENDS Integers, FiniteSets

CONSTANT IPs

ASSUME AddressesAssumption == IsFiniteSet(IPs)
=============================================================================
