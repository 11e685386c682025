----------------------------- MODULE MCSessions -----------------------------
(***************************************************************************)
(* Instances of Sessions: two tasks of players with identities of their    *)
(* own, one of which may log in without any; one player who logs in twice; *)
(* and a single login.                                                     *)
(***************************************************************************)
EXTENDS Sessions, TLC

CONSTANTS c1, c2, u1, u2

OwnIdentities == {<<c1, u1, TRUE>>, <<c2, u2, FALSE>>, <<c2, NoUuid, FALSE>>}
SameIdentity  == {<<c1, u1, FALSE>>, <<c2, u1, FALSE>>}
MCFrames      == [c \in Conns |-> IF c = c1 THEN {"encryption", "compression", "success"}
                                             ELSE {"success", "disconnect"}]
OneLogin      == {<<c1, u1, TRUE>>}
=============================================================================
