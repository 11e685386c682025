------------------------------ MODULE SlotPool ------------------------------
(***************************************************************************)
(* What a connection cap promises: a set of slot holders that grows by one *)
(* client at a time, only while it is below the cap in force, and from     *)
(* which each holder departs once.  GlobalConnections, the pre-login       *)
(* connections of one address and the UDP per-address slots are meant to   *)
(* be such pools.                                                          *)
(***************************************************************************)
EXTENDS Naturals, FiniteSets

CONSTANTS Clients,  \* who may hold a slot
          Caps      \* the caps in force from time to time

VARIABLE held

Acquire(c) ==
    /\ c \notin held
    /\ \E cap \in Caps : Cardinality(held) < cap
    /\ held' = held \cup {c}

Release(c) ==
    /\ c \in held
    /\ held' = held \ {c}

Next == \E c \in Clients : Acquire(c) \/ Release(c)

Spec == held = {} /\ [][Next]_held
=============================================================================
