-------------------------- MODULE AdmissionProofs --------------------------
(***************************************************************************)
(* Proofs about Admission for any finite set of connections and addresses  *)
(* and any set of configurations.  The inductive invariant is the type     *)
(* invariant with SlotAccounting and SlotsHaveOwners: the counters can be  *)
(* related to the holders only while each holder is known to be past its   *)
(* guard, so that no task is counted twice.                                *)
(***************************************************************************)
EXTENDS Admission, FiniteSetTheorems, TLAPS

-----------------------------------------------------------------------------
(* The tables keep their types.                                              *)

\* is_banned, record_violation, ban, unban and sweep map offender tables to
\* offender tables.
LEMMA OffenderOps ==
    ASSUME NEW tab \in OffenderTables, NEW ip \in IPs, NEW t \in Nat,
           NEW policy \in BanPolicies, NEW duration \in Nat
    PROVE  /\ AfterIsBanned(tab, ip, t) \in OffenderTables
           /\ AfterBan(tab, ip, t, duration) \in OffenderTables
           /\ AfterUnban(tab, ip) \in OffenderTables
           /\ AfterViolation(tab, ip, t, policy) \in OffenderTables
           /\ AfterSweep(tab, t) \in OffenderTables
<1>1. EntryAt(tab, ip, t) \in Offender
  BY DEF EntryAt, Tracked, OffenderTables, Offender, NoBan
<1>2. Counted(EntryAt(tab, ip, t), t, policy) \in Offender
  <2> DEFINE e == EntryAt(tab, ip, t)
  <2>2. /\ e.since \in Nat
        /\ e.count \in Nat
        /\ e.until \in Nat \cup {NoBan}
    BY <1>1 DEF Offender
  <2>3. [e EXCEPT !.since = t, !.count = 1] \in Offender
    BY <1>1, Zenon DEF Offender
  <2>4. [e EXCEPT !.count = @ + 1] \in Offender
    BY <1>1, <2>2 DEF Offender
  <2> QED
    BY <2>3, <2>4 DEF Counted
<1>3. AfterBan(tab, ip, t, duration) \in OffenderTables
  BY <1>1 DEF AfterBan, OffenderTables, Offender
<1>4. AfterViolation(tab, ip, t, policy) \in OffenderTables
  BY <1>2 DEF AfterViolation, OffenderTables, Offender, BanPolicies
<1>5. /\ AfterIsBanned(tab, ip, t) \in OffenderTables
      /\ AfterUnban(tab, ip) \in OffenderTables
      /\ AfterSweep(tab, t) \in OffenderTables
  BY DEF AfterIsBanned, AfterUnban, AfterSweep, OffenderTables
<1> QED
  BY <1>3, <1>4, <1>5

\* try_acquire and sweep map rate tables to rate tables.
LEMMA RateOps ==
    ASSUME NEW win \in RateTables, NEW ip \in IPs, NEW t \in Nat,
           NEW max \in Int, NEW window \in Nat
    PROVE  /\ AfterTryAcquire(win, ip, t, max, window) \in RateTables
           /\ AfterRateSweep(win, t) \in RateTables
<1>1. CountedWindow(win, ip, t, window) \in [start : Nat, count : Nat]
  BY DEF CountedWindow, RateTables, NoWindow
<1> QED
  BY <1>1 DEF AfterTryAcquire, AfterRateSweep, RateTables

-----------------------------------------------------------------------------
(* Type correctness.                                                         *)

\* Every step of a connection task keeps the types of the tables and the task.
LEMMA TablesStep ==
    TypeOK /\ [Next]_vars =>
      /\ cfg' \in Configs
      /\ now' \in Nat
      /\ offenders' \in OffenderTables
      /\ windows' \in RateTables
      /\ pc' \in [Conns -> PCs]
      /\ snap' \in [Conns -> Configs]
      /\ addr' \in [Conns -> IPs]
<1> SUFFICES ASSUME TypeOK, [Next]_vars
             PROVE  /\ cfg' \in Configs
                    /\ now' \in Nat
                    /\ offenders' \in OffenderTables
                    /\ windows' \in RateTables
                    /\ pc' \in [Conns -> PCs]
                    /\ snap' \in [Conns -> Configs]
                    /\ addr' \in [Conns -> IPs]
  OBVIOUS
<1> USE AdmissionAssumption DEF TypeOK, shared, slots, task, At, Goto, PCs, Waiting
<1>1. ASSUME NEW c \in Conns, Internal(c)
      PROVE  /\ cfg' \in Configs
             /\ now' \in Nat
             /\ offenders' \in OffenderTables
             /\ windows' \in RateTables
             /\ pc' \in [Conns -> PCs]
             /\ snap' \in [Conns -> Configs]
             /\ addr' \in [Conns -> IPs]
  <2>0. /\ addr[c] \in IPs
        /\ snap[c].policy \in BanPolicies
        /\ snap[c].rateMax \in Int
        /\ snap[c].rateWindow \in Nat
    BY DEF ConfigRecords
  <2>1. CASE CheckPeerBan(c)
    BY <2>0, <2>1, OffenderOps DEF CheckPeerBan, BanCheck
  <2>2. CASE AcquireGlobal(c)
    BY <2>2 DEF AcquireGlobal
  <2>3. CASE UndoGlobal(c)
    BY <2>3 DEF UndoGlobal
  <2>4. CASE CheckRate(c)
    BY <2>0, <2>4, RateOps DEF CheckRate
  <2>5. CASE CheckClientBan(c)
    BY <2>0, <2>5, OffenderOps DEF CheckClientBan, BanCheck
  <2>6. CASE AcquirePreLogin(c)
    BY <2>6 DEF AcquirePreLogin
  <2>7. CASE RecordViolation(c)
    BY <2>0, <2>7, OffenderOps DEF RecordViolation
  <2>8. CASE DropPreLogin(c)
    BY <2>8 DEF DropPreLogin
  <2>9. CASE DropGlobal(c)
    BY <2>9 DEF DropGlobal
  <2> QED
    BY <1>1, <2>1, <2>2, <2>3, <2>4, <2>5, <2>6, <2>7, <2>8, <2>9 DEF Internal
<1>2. ASSUME NEW c \in Conns, External(c) \/ TimeOut(c)
      PROVE  /\ cfg' \in Configs
             /\ now' \in Nat
             /\ offenders' \in OffenderTables
             /\ windows' \in RateTables
             /\ pc' \in [Conns -> PCs]
             /\ snap' \in [Conns -> Configs]
             /\ addr' \in [Conns -> IPs]
  <2>1. CASE \E ip \in IPs : Accept(c, ip)
    BY <2>1 DEF Accept
  <2>2. CASE ReadHeader(c) \/ ReadHandshake(c) \/ ReadStatusRequest(c)
    BY <2>2 DEF ReadHeader, ReadHandshake, ReadStatusRequest
  <2>3. CASE ReadLoginStart(c) \/ RefuseLogin(c) \/ Finish(c)
    BY <2>3 DEF ReadLoginStart, RefuseLogin, Finish
  <2>4. CASE TimeOut(c)
    BY <2>4 DEF TimeOut
  <2> QED
    BY <1>2, <2>1, <2>2, <2>3, <2>4 DEF External
<1>3. CASE Reload \/ Tick
  BY <1>3 DEF Reload, Tick
<1>4. CASE SweepTables
  <2>1. AfterSweep(offenders, now) \in OffenderTables
    BY DEF AfterSweep, OffenderTables
  <2>2. AfterRateSweep(windows, now) \in RateTables
    BY DEF AfterRateSweep, RateTables
  <2> QED
    BY <1>4, <2>1, <2>2 DEF SweepTables
<1>5. ASSUME NEW ip \in IPs, ConsoleBan(ip)
      PROVE  /\ offenders' \in OffenderTables
             /\ UNCHANGED <<cfg, now, windows, task>>
  <2>1. \A duration \in Durations : AfterBan(offenders, ip, now, duration) \in OffenderTables
    BY OffenderOps DEF AfterBan, EntryAt, OffenderTables, Offender, NoBan, Tracked
  <2>2. AfterUnban(offenders, ip) \in OffenderTables
    BY DEF AfterUnban, OffenderTables
  <2> QED
    BY <1>5, <2>1, <2>2 DEF ConsoleBan
<1>6. CASE UNCHANGED vars
  BY <1>6 DEF vars
<1> QED
  BY <1>1, <1>2, <1>3, <1>4, <1>5, <1>6 DEF Next

-----------------------------------------------------------------------------
(* Slot accounting.                                                          *)

IInv == TypeOK /\ SlotAccounting /\ SlotsHaveOwners

\* The sets that SlotAccounting counts are finite.
LEMMA Finite ==
    ASSUME TypeOK
    PROVE  /\ IsFiniteSet(globalHeld)
           /\ IsFiniteSet(globalHeld \cup Undoing)
           /\ \A ip \in IPs : IsFiniteSet(PreHeldFor(ip))
<1>1. /\ globalHeld \in SUBSET Conns
      /\ globalHeld \cup Undoing \in SUBSET Conns
      /\ \A ip \in IPs : PreHeldFor(ip) \in SUBSET Conns
  BY DEF TypeOK, Undoing, PreHeldFor
<1> QED
  BY <1>1, FS_Subset, AdmissionAssumption DEF AdmissionAssumption

\* A step that leaves the slots and the undoing tasks alone keeps the accounts.
LEMMA SameSlots ==
    ASSUME IInv, UNCHANGED <<count, prelogin, globalHeld, preHeld>>,
           Undoing' = Undoing, \A c \in preHeld : addr'[c] = addr[c]
    PROVE  /\ count' \in Nat /\ prelogin' \in [IPs -> Nat]
           /\ globalHeld' \subseteq Conns /\ preHeld' \subseteq Conns
           /\ SlotAccounting'
<1>1. \A ip \in IPs : PreHeldFor(ip)' = PreHeldFor(ip)
  BY DEF PreHeldFor
<1> QED
  BY <1>1 DEF IInv, TypeOK, SlotAccounting

\* AcquireGlobal takes a slot or leaves a mark to undo, and counts either.
LEMMA AcquireGlobalAccounts ==
    ASSUME IInv, NEW c \in Conns, AcquireGlobal(c)
    PROVE  /\ count' \in Nat /\ prelogin' \in [IPs -> Nat]
           /\ globalHeld' \subseteq Conns /\ preHeld' \subseteq Conns
           /\ SlotAccounting'
<1> USE DEF AcquireGlobal, At, Goto
<1>0. c \notin globalHeld \cup Undoing
  BY DEF IInv, SlotsHaveOwners, Undoing
<1>1. CASE snap[c].maxConn <= 0
  <2>1. Undoing' = Undoing
    BY <1>1 DEF Undoing, IInv, TypeOK
  <2> QED
    BY <1>1, <2>1, SameSlots
<1>2. CASE ~(snap[c].maxConn <= 0)
  <2>1. (globalHeld \cup Undoing)' = (globalHeld \cup Undoing) \cup {c}
    <3>1. CASE OverCap(count + 1, snap[c].maxConn)
      BY <1>2, <3>1 DEF Undoing, IInv, TypeOK
    <3>2. CASE ~OverCap(count + 1, snap[c].maxConn)
      BY <1>2, <3>2 DEF Undoing, IInv, TypeOK
    <3> QED BY <3>1, <3>2
  <2>2. Cardinality((globalHeld \cup Undoing)') = count + 1
    BY <1>0, <2>1, Finite, FS_AddElement, Zenon DEF IInv, SlotAccounting
  <2>3. \A ip \in IPs : PreHeldFor(ip)' = PreHeldFor(ip)
    BY DEF PreHeldFor
  <2> QED
    BY <1>2, <2>2, <2>3 DEF IInv, TypeOK, SlotAccounting
<1> QED
  BY <1>1, <1>2

\* UndoGlobal gives back exactly the count of its own refused attempt.
LEMMA UndoGlobalAccounts ==
    ASSUME IInv, NEW c \in Conns, UndoGlobal(c)
    PROVE  /\ count' \in Nat /\ prelogin' \in [IPs -> Nat]
           /\ globalHeld' \subseteq Conns /\ preHeld' \subseteq Conns
           /\ SlotAccounting'
<1> USE DEF UndoGlobal, At, Goto
<1>0. c \in Undoing /\ c \notin globalHeld
  BY DEF IInv, SlotsHaveOwners, Undoing
<1>1. (globalHeld \cup Undoing)' = (globalHeld \cup Undoing) \ {c}
  BY <1>0 DEF Undoing, IInv, TypeOK
<1>2. /\ Cardinality((globalHeld \cup Undoing)') = count - 1
      /\ IsFiniteSet((globalHeld \cup Undoing)')
  BY <1>0, <1>1, Finite, FS_RemoveElement, Zenon DEF IInv, SlotAccounting
<1>3. \A ip \in IPs : PreHeldFor(ip)' = PreHeldFor(ip)
  BY DEF PreHeldFor
<1>4. count - 1 \in Nat
  BY <1>2, FS_CardinalityType
<1> QED
  BY <1>2, <1>3, <1>4 DEF IInv, TypeOK, SlotAccounting

\* Dropping the global guard gives back its slot if it owns one.
LEMMA DropGlobalAccounts ==
    ASSUME IInv, NEW c \in Conns, DropGlobal(c)
    PROVE  /\ count' \in Nat /\ prelogin' \in [IPs -> Nat]
           /\ globalHeld' \subseteq Conns /\ preHeld' \subseteq Conns
           /\ SlotAccounting'
<1> USE DEF DropGlobal, At, Goto
<1>0. c \notin Undoing /\ Undoing' = Undoing
  BY DEF Undoing, IInv, TypeOK
<1>1. (globalHeld \cup Undoing)' = (globalHeld \cup Undoing) \ {c}
  BY <1>0 DEF IInv, TypeOK
<1>2. /\ Cardinality((globalHeld \cup Undoing)') = count'
      /\ IsFiniteSet((globalHeld \cup Undoing)')
  <2> DEFINE S == globalHeld \cup Undoing
  <2>1. IsFiniteSet(S) /\ Cardinality(S) = count
    BY Finite DEF IInv, SlotAccounting
  <2>2. /\ IsFiniteSet(S \ {c})
        /\ Cardinality(S \ {c}) = IF c \in S THEN Cardinality(S) - 1 ELSE Cardinality(S)
    BY <2>1, FS_RemoveElement, SMTT(30)
  <2>3. c \in S <=> c \in globalHeld
    BY <1>0
  <2> QED
    BY <1>1, <2>1, <2>2, <2>3, SMTT(30)
<1>3. \A ip \in IPs : PreHeldFor(ip)' = PreHeldFor(ip)
  BY DEF PreHeldFor
<1>4. count' \in Nat
  BY <1>2, FS_CardinalityType
<1> QED
  BY <1>2, <1>3, <1>4 DEF IInv, TypeOK, SlotAccounting

\* A successful pre-login acquire adds its task to the holders of its address
\* and to no other; a refused one changes nothing.
LEMMA AcquirePreLoginAccounts ==
    ASSUME IInv, NEW c \in Conns, AcquirePreLogin(c)
    PROVE  /\ count' \in Nat /\ prelogin' \in [IPs -> Nat]
           /\ globalHeld' \subseteq Conns /\ preHeld' \subseteq Conns
           /\ SlotAccounting'
<1> USE DEF AcquirePreLogin, At, Goto
<1>0. c \notin preHeld /\ Undoing' = Undoing
  BY DEF IInv, SlotsHaveOwners, Undoing, TypeOK
<1>1. CASE snap[c].perIp > 0 /\ ~OverCap(prelogin[addr[c]] + 1, snap[c].perIp)
  <2>1. \A ip \in IPs : PreHeldFor(ip)' =
          IF ip = addr[c] THEN PreHeldFor(ip) \cup {c} ELSE PreHeldFor(ip)
    BY <1>0, <1>1 DEF PreHeldFor, IInv, TypeOK
  <2>2. \A ip \in IPs : Cardinality(PreHeldFor(ip)') = prelogin'[ip]
    <3> TAKE ip \in IPs
    <3>1. c \notin PreHeldFor(ip)
      BY <1>0 DEF PreHeldFor
    <3>2. Cardinality(PreHeldFor(ip) \cup {c}) = prelogin[ip] + 1
      BY <3>1, Finite, FS_AddElement, Zenon DEF IInv, SlotAccounting
    <3> QED
      BY <1>1, <2>1, <3>2, Zenon DEF IInv, SlotAccounting, TypeOK
  <2> QED
    BY <1>0, <1>1, <2>2 DEF IInv, TypeOK, SlotAccounting
<1>2. CASE ~(snap[c].perIp > 0 /\ ~OverCap(prelogin[addr[c]] + 1, snap[c].perIp))
  BY <1>0, <1>2, SameSlots
<1> QED
  BY <1>1, <1>2

\* PreLoginGuard::release gives back the slot of a guard that owns one, once.
LEMMA ReleasePreLoginAccounts ==
    ASSUME IInv, NEW c \in Conns, ReleasePreLogin(c), Undoing' = Undoing,
           UNCHANGED <<count, globalHeld, addr>>
    PROVE  /\ count' \in Nat /\ prelogin' \in [IPs -> Nat]
           /\ globalHeld' \subseteq Conns /\ preHeld' \subseteq Conns
           /\ SlotAccounting'
<1> USE DEF ReleasePreLogin
<1>1. \A ip \in IPs : PreHeldFor(ip)' = PreHeldFor(ip) \ {c}
  BY DEF PreHeldFor
<1>2. \A ip \in IPs : /\ Cardinality(PreHeldFor(ip)') = prelogin'[ip]
                      /\ prelogin'[ip] \in Nat
  <2> TAKE ip \in IPs
  <2>1. c \in PreHeldFor(ip) <=> c \in preHeld /\ addr[c] = ip
    BY DEF PreHeldFor
  <2>2. Cardinality(PreHeldFor(ip) \ {c}) =
          IF c \in PreHeldFor(ip) THEN prelogin[ip] - 1 ELSE prelogin[ip]
    BY Finite, FS_RemoveElement, Zenon DEF IInv, SlotAccounting
  <2>3. Cardinality(PreHeldFor(ip) \ {c}) \in Nat
    BY Finite, FS_RemoveElement, FS_CardinalityType DEF IInv
  <2>4. prelogin'[ip] = IF c \in PreHeldFor(ip) THEN prelogin[ip] - 1 ELSE prelogin[ip]
    <3>1. CASE c \in PreHeldFor(ip)
      <4>1. prelogin[ip] \in Nat /\ prelogin[ip] - 1 \in Nat
        BY <2>2, <2>3, <3>1 DEF IInv, TypeOK
      <4>2. prelogin' = [prelogin EXCEPT ![ip] = IF @ <= 1 THEN 0 ELSE @ - 1]
        BY <2>1, <3>1, Zenon
      <4>3. prelogin'[ip] = IF prelogin[ip] <= 1 THEN 0 ELSE prelogin[ip] - 1
        BY <4>2 DEF IInv, TypeOK
      <4> QED
        BY <3>1, <4>1, <4>3
    <3>2. CASE c \notin PreHeldFor(ip)
      BY <2>1, <3>2 DEF IInv, TypeOK
    <3> QED
      BY <3>1, <3>2
  <2> QED
    BY <1>1, <2>2, <2>3, <2>4
<1>3. prelogin' \in [IPs -> Nat]
  <2>1. prelogin' = [ip \in IPs |-> prelogin'[ip]]
    BY Zenon DEF IInv, TypeOK
  <2> QED
    BY <1>2, <2>1, Zenon
<1> QED
  BY <1>2, <1>3 DEF IInv, TypeOK, SlotAccounting

\* Every step keeps the accounts.
LEMMA AccountsStep ==
    ASSUME IInv, [Next]_vars
    PROVE  /\ count' \in Nat /\ prelogin' \in [IPs -> Nat]
           /\ globalHeld' \subseteq Conns /\ preHeld' \subseteq Conns
           /\ SlotAccounting'
<1> DEFINE Kept == /\ count' \in Nat /\ prelogin' \in [IPs -> Nat]
                   /\ globalHeld' \subseteq Conns /\ preHeld' \subseteq Conns
                   /\ SlotAccounting'
<1> USE DEF shared, slots, task, At, Goto
<1>1. ASSUME NEW c \in Conns, Internal(c)
      PROVE  Kept
  <2>1. CASE CheckPeerBan(c) \/ CheckRate(c) \/ CheckClientBan(c) \/ RecordViolation(c)
    <3>1. Undoing' = Undoing
      BY <2>1 DEF Undoing, IInv, TypeOK, CheckPeerBan, BanCheck, CheckRate,
                  CheckClientBan, RecordViolation
    <3> QED
      BY <2>1, <3>1, SameSlots DEF CheckPeerBan, BanCheck, CheckRate, CheckClientBan,
                                   RecordViolation
  <2>2. CASE AcquireGlobal(c)
    BY <2>2, AcquireGlobalAccounts
  <2>3. CASE UndoGlobal(c)
    BY <2>3, UndoGlobalAccounts
  <2>4. CASE AcquirePreLogin(c)
    BY <2>4, AcquirePreLoginAccounts
  <2>5. CASE DropPreLogin(c)
    <3>1. Undoing' = Undoing
      BY <2>5 DEF Undoing, IInv, TypeOK, DropPreLogin
    <3> QED
      BY <2>5, <3>1, ReleasePreLoginAccounts DEF DropPreLogin
  <2>6. CASE DropGlobal(c)
    BY <2>6, DropGlobalAccounts
  <2> QED
    BY <1>1, <2>1, <2>2, <2>3, <2>4, <2>5, <2>6 DEF Internal
<1>2. ASSUME NEW c \in Conns, External(c) \/ TimeOut(c)
      PROVE  Kept
  <2>1. CASE ReadLoginStart(c)
    <3>1. Undoing' = Undoing
      BY <2>1 DEF Undoing, IInv, TypeOK, ReadLoginStart
    <3> QED
      BY <2>1, <3>1, ReleasePreLoginAccounts DEF ReadLoginStart
  <2>2. CASE (\E ip \in IPs : Accept(c, ip)) \/ ReadHeader(c)
    <3>1. Undoing' = Undoing
      BY <2>2 DEF Undoing, IInv, TypeOK, Accept, ReadHeader
    <3>2. c \notin preHeld
      BY <2>2 DEF IInv, SlotsHaveOwners, Accept, ReadHeader
    <3>3. \A d \in preHeld : addr'[d] = addr[d]
      BY <2>2, <3>2 DEF IInv, TypeOK, Accept, ReadHeader
    <3> QED
      BY <2>2, <3>1, <3>3, SameSlots DEF Accept, ReadHeader
  <2>3. CASE \/ ReadHandshake(c) \/ ReadStatusRequest(c) \/ RefuseLogin(c)
             \/ Finish(c) \/ TimeOut(c)
    <3>1. Undoing' = Undoing
      BY <2>3 DEF Undoing, IInv, TypeOK, ReadHandshake, ReadStatusRequest, RefuseLogin,
                  Finish, TimeOut
    <3> QED
      BY <2>3, <3>1, SameSlots DEF ReadHandshake, ReadStatusRequest, RefuseLogin, Finish,
                                   TimeOut
  <2> QED
    BY <1>2, <2>1, <2>2, <2>3 DEF External
<1>3. CASE Reload \/ Tick \/ SweepTables \/ (\E ip \in IPs : ConsoleBan(ip)) \/ UNCHANGED vars
  <2>1. UNCHANGED <<slots, task>>
    BY <1>3 DEF Reload, Tick, SweepTables, ConsoleBan, vars
  <2>2. Undoing' = Undoing
    BY <2>1 DEF Undoing
  <2> QED
    BY <2>1, <2>2, SameSlots
<1> QED
  BY <1>1, <1>2, <1>3 DEF Next

\* Every step keeps each slot with a task that may own it.
LEMMA OwnersStep ==
    ASSUME IInv, [Next]_vars
    PROVE  SlotsHaveOwners'
<1> USE DEF SlotsHaveOwners, shared, slots, task, At, Goto
<1>1. ASSUME NEW c \in Conns, Internal(c)
      PROVE  SlotsHaveOwners'
  <2>1. CASE CheckPeerBan(c) \/ CheckRate(c) \/ CheckClientBan(c)
    BY <2>1 DEF IInv, TypeOK, CheckPeerBan, BanCheck, CheckRate, CheckClientBan
  <2>2. CASE AcquireGlobal(c) \/ UndoGlobal(c)
    BY <2>2 DEF IInv, TypeOK, AcquireGlobal, UndoGlobal
  <2>3. CASE AcquirePreLogin(c)
    BY <2>3 DEF IInv, TypeOK, AcquirePreLogin
  <2>4. CASE RecordViolation(c)
    BY <2>4 DEF IInv, TypeOK, RecordViolation
  <2>5. CASE DropPreLogin(c) \/ DropGlobal(c)
    BY <2>5 DEF IInv, TypeOK, DropPreLogin, DropGlobal, ReleasePreLogin
  <2> QED
    BY <1>1, <2>1, <2>2, <2>3, <2>4, <2>5 DEF Internal
<1>2. ASSUME NEW c \in Conns, External(c) \/ TimeOut(c)
      PROVE  SlotsHaveOwners'
  <2>1. CASE (\E ip \in IPs : Accept(c, ip)) \/ ReadHeader(c)
    BY <2>1 DEF IInv, TypeOK, Accept, ReadHeader
  <2>2. CASE ReadHandshake(c) \/ ReadStatusRequest(c) \/ RefuseLogin(c) \/ Finish(c)
    BY <2>2 DEF IInv, TypeOK, ReadHandshake, ReadStatusRequest, RefuseLogin, Finish
  <2>3. CASE ReadLoginStart(c)
    BY <2>3 DEF IInv, TypeOK, ReadLoginStart, ReleasePreLogin
  <2>4. CASE TimeOut(c)
    BY <2>4 DEF IInv, TypeOK, TimeOut
  <2> QED
    BY <1>2, <2>1, <2>2, <2>3, <2>4 DEF External
<1>3. CASE Reload \/ Tick \/ SweepTables \/ (\E ip \in IPs : ConsoleBan(ip)) \/ UNCHANGED vars
  <2>1. UNCHANGED <<slots, task>>
    BY <1>3 DEF Reload, Tick, SweepTables, ConsoleBan, vars
  <2> QED
    BY <2>1 DEF IInv
<1> QED
  BY <1>1, <1>2, <1>3 DEF Next

\* The initial state satisfies the inductive invariant.
LEMMA InitIInv == Init => IInv
<1> SUFFICES ASSUME Init PROVE IInv
  OBVIOUS
<1>1. TypeOK
  BY DEF Init, TypeOK, OffenderTables, RateTables, PCs, Waiting
<1>2. Undoing = {} /\ \A ip \in IPs : PreHeldFor(ip) = {}
  BY DEF Init, Undoing, PreHeldFor
<1>3. SlotAccounting
  BY <1>2, FS_EmptySet, SMTT(30) DEF Init, SlotAccounting
<1>4. SlotsHaveOwners
  BY DEF Init, SlotsHaveOwners
<1> QED
  BY <1>1, <1>3, <1>4 DEF IInv

\* The inductive invariant is preserved.
LEMMA StepIInv == IInv /\ [Next]_vars => IInv'
<1> SUFFICES ASSUME IInv, [Next]_vars PROVE IInv'
  OBVIOUS
<1>1. TypeOK'
  <2>1. TypeOK
    BY DEF IInv
  <2> QED
    BY <2>1, TablesStep, AccountsStep DEF TypeOK
<1> QED
  BY <1>1, AccountsStep, OwnersStep DEF IInv

\* handle_connection and the guards keep the types of everything they share.
THEOREM TypeCorrect == Spec => []TypeOK
<1>1. IInv => TypeOK
  BY DEF IInv
<1> QED
  BY <1>1, InitIInv, StepIInv, PTL DEF Spec

\* No path of handle_connection leaks a slot or releases one twice: the global
\* counter and the per-address pre-login counts always equal the slots out, and
\* each slot has a task that has yet to return it.
THEOREM SlotsAccounted == Spec => []SlotsExact
<1>1. IInv => SlotsExact
  BY DEF IInv, SlotsExact
<1> QED
  BY <1>1, InitIInv, StepIInv, PTL DEF Spec

-----------------------------------------------------------------------------
(* Refinement of the slot pools.                                             *)

\* A task enters the global holders only below its own cap.
LEMMA GlobalPoolStep ==
    ASSUME IInv, [Next]_vars
    PROVE  [GlobalPool!Next]_globalHeld
<1> USE DEF shared, slots, task, At, Goto
<1>1. ASSUME NEW c \in Conns, AcquireGlobal(c), globalHeld' # globalHeld
      PROVE  GlobalPool!Acquire(c)
  <2>1. /\ snap[c].maxConn > 0
        /\ ~OverCap(count + 1, snap[c].maxConn)
        /\ globalHeld' = globalHeld \cup {c}
    BY <1>1, AdmissionAssumption DEF AcquireGlobal, IInv, TypeOK, ConfigRecords
  <2>2. c \notin globalHeld
    BY <1>1 DEF AcquireGlobal, IInv, SlotsHaveOwners
  <2>3. Cardinality(globalHeld) <= count
    <3>1. globalHeld \in SUBSET (globalHeld \cup Undoing)
      OBVIOUS
    <3> QED
      BY <3>1, Finite, FS_Subset DEF IInv, SlotAccounting
  <2>4. Cardinality(globalHeld) \in Nat
    BY Finite, FS_CardinalityType DEF IInv
  <2>5. Cardinality(globalHeld) < snap[c].maxConn
    BY <2>1, <2>3, <2>4, AdmissionAssumption DEF OverCap, IInv, TypeOK, ConfigRecords
  <2>6. snap[c] \in {j \in Configs : j.maxConn > 0}
    BY <2>1 DEF IInv, TypeOK
  <2>7. snap[c].maxConn \in {k.maxConn : k \in {j \in Configs : j.maxConn > 0}}
    BY <2>6
  <2>8. \E cap \in {k.maxConn : k \in {j \in Configs : j.maxConn > 0}} :
          Cardinality(globalHeld) < cap
    BY <2>5, <2>7
  <2> QED
    BY <2>1, <2>2, <2>8, Zenon DEF GlobalPool!Acquire, Cardinality, GlobalPool!Cardinality
<1>2. ASSUME NEW c \in Conns, DropGlobal(c), globalHeld' # globalHeld
      PROVE  GlobalPool!Release(c)
  BY <1>2 DEF DropGlobal, GlobalPool!Release
<1>3. ASSUME NEW c \in Conns, Internal(c), ~AcquireGlobal(c), ~DropGlobal(c)
      PROVE  UNCHANGED globalHeld
  BY <1>3, Zenon DEF Internal, CheckPeerBan, BanCheck, UndoGlobal, CheckRate, CheckClientBan,
              AcquirePreLogin, RecordViolation, DropPreLogin
<1>4. ASSUME NEW c \in Conns, External(c) \/ TimeOut(c)
      PROVE  UNCHANGED globalHeld
  BY <1>4, Zenon DEF External, TimeOut, ReadHeader, ReadHandshake, ReadStatusRequest,
              ReadLoginStart, RefuseLogin, Finish, Accept
<1>5. CASE Reload \/ Tick \/ SweepTables \/ (\E ip \in IPs : ConsoleBan(ip)) \/ UNCHANGED vars
  BY <1>5 DEF Reload, Tick, SweepTables, ConsoleBan, vars
<1> QED
  BY <1>1, <1>2, <1>3, <1>4, <1>5 DEF Next, GlobalPool!Next

\* The two-step global counter implements a slot pool: at no time do more tasks
\* hold a global slot than the largest cap loaded allows.
THEOREM GlobalCapRefines == Spec => GlobalCapHolds
<1>1. Init => globalHeld = {}
  BY DEF Init
<1> QED
  BY <1>1, InitIInv, StepIInv, GlobalPoolStep, PTL
  DEF Spec, GlobalCapHolds, GlobalPool!Spec

\* For each address, a task enters the pre-login holders only below its cap.
LEMMA PreLoginPoolStep ==
    ASSUME IInv, [Next]_vars, NEW ip \in IPs
    PROVE  PreLoginPool(ip)!Next \/ UNCHANGED PreHeldFor(ip)
<1> USE DEF shared, slots, task, At, Goto
<1>1. ASSUME NEW c \in Conns, AcquirePreLogin(c), PreHeldFor(ip)' # PreHeldFor(ip)
      PROVE  PreLoginPool(ip)!Acquire(c)
  <2>1. /\ snap[c].perIp > 0
        /\ ~OverCap(prelogin[addr[c]] + 1, snap[c].perIp)
        /\ preHeld' = preHeld \cup {c}
        /\ addr' = addr
    BY <1>1 DEF AcquirePreLogin, PreHeldFor
  <2>2. addr[c] = ip /\ c \notin PreHeldFor(ip) /\ PreHeldFor(ip)' = PreHeldFor(ip) \cup {c}
    BY <1>1, <2>1 DEF PreHeldFor
  <2>3. Cardinality(PreHeldFor(ip)) = prelogin[ip] /\ prelogin[ip] \in Nat
    BY DEF IInv, SlotAccounting, TypeOK
  <2>4. snap[c] \in Configs /\ snap[c].perIp \in Nat
    BY AdmissionAssumption DEF IInv, TypeOK, ConfigRecords
  <2>5. Cardinality(PreHeldFor(ip)) < snap[c].perIp
    BY <2>1, <2>2, <2>3, <2>4 DEF OverCap
  <2>6. snap[c].perIp \in {k.perIp : k \in Configs}
    BY <2>4
  <2>7. \E cap \in {k.perIp : k \in Configs} : Cardinality(PreHeldFor(ip)) < cap
    BY <2>5, <2>6
  <2> QED
    BY <2>2, <2>7, Zenon DEF PreLoginPool!Acquire, Cardinality, PreLoginPool!Cardinality
<1>2. ASSUME NEW c \in Conns, ReleasePreLogin(c), addr' = addr,
             PreHeldFor(ip)' # PreHeldFor(ip)
      PROVE  PreLoginPool(ip)!Release(c)
  BY <1>2 DEF ReleasePreLogin, PreHeldFor, PreLoginPool!Release
<1>3. ASSUME NEW c \in Conns, Internal(c), ~AcquirePreLogin(c), ~DropPreLogin(c)
      PROVE  UNCHANGED PreHeldFor(ip)
  BY <1>3, Zenon DEF PreHeldFor, Internal, CheckPeerBan, BanCheck, UndoGlobal, CheckRate,
              CheckClientBan, AcquireGlobal, RecordViolation, DropGlobal
<1>4. ASSUME NEW c \in Conns, External(c) \/ TimeOut(c), ~ReadLoginStart(c)
      PROVE  UNCHANGED PreHeldFor(ip)
  <2>1. CASE (\E p \in IPs : Accept(c, p)) \/ ReadHeader(c)
    <3>1. c \notin preHeld /\ preHeld' = preHeld
      BY <2>1, Zenon DEF IInv, SlotsHaveOwners, Accept, ReadHeader
    <3>2. \A d \in preHeld : addr'[d] = addr[d]
      BY <2>1, <3>1 DEF IInv, TypeOK, Accept, ReadHeader
    <3> QED
      BY <3>1, <3>2 DEF PreHeldFor
  <2>2. CASE \/ ReadHandshake(c) \/ ReadStatusRequest(c) \/ RefuseLogin(c) \/ Finish(c)
             \/ TimeOut(c)
    BY <2>2, Zenon DEF PreHeldFor, ReadHandshake, ReadStatusRequest, RefuseLogin, Finish, TimeOut
  <2> QED
    BY <1>4, <2>1, <2>2 DEF External
<1>5. CASE Reload \/ Tick \/ SweepTables \/ (\E p \in IPs : ConsoleBan(p)) \/ UNCHANGED vars
  BY <1>5 DEF Reload, Tick, SweepTables, ConsoleBan, vars, PreHeldFor
<1>6. ASSUME NEW c \in Conns, DropPreLogin(c) \/ ReadLoginStart(c)
      PROVE  ReleasePreLogin(c) /\ addr' = addr
  BY <1>6 DEF DropPreLogin, ReadLoginStart
<1> QED
  BY <1>1, <1>2, <1>3, <1>4, <1>5, <1>6 DEF Next, PreLoginPool!Next

\* PreLoginGuard implements one slot pool per address.
THEOREM PreLoginCapRefines == Spec => PreLoginCapHolds
<1>1. Init => \A ip \in IPs : PreHeldFor(ip) = {}
  BY DEF Init, PreHeldFor
<1>2. IInv /\ [Next]_vars =>
        [\A ip \in IPs : PreLoginPool(ip)!Next \/ UNCHANGED PreHeldFor(ip)]_vars
  BY PreLoginPoolStep
<1> QED
  BY <1>1, <1>2, InitIInv, StepIInv, PTL DEF Spec, PreLoginCapHolds

-----------------------------------------------------------------------------
(* Bans hold.                                                                *)

\* Bans last: a console ban or an autoBan of zero seconds ends where it begins.
PositiveBans ==
    /\ \A k \in Configs : k.policy.duration > 0
    /\ \A duration \in Durations : duration > 0

\* A ban in force ends only by the passage of time or by unban.
BansHold ==
    [][\A ip \in IPs :
         IsBanned(offenders, ip, now) /\ ~IsBanned(offenders, ip, now)' =>
           now' > now \/ offenders' = AfterUnban(offenders, ip)]_vars

\* is_banned, record_violation, ban and sweep leave a ban in force, whichever address they
\* are called for, and unban lifts only the one it is called for.
LEMMA BanOps ==
    ASSUME NEW tab \in OffenderTables, NEW ip \in IPs, NEW t \in Nat, IsBanned(tab, ip, t),
           NEW other \in IPs
    PROVE  /\ IsBanned(AfterIsBanned(tab, other, t), ip, t)
           /\ \A policy \in BanPolicies : policy.duration > 0 =>
                IsBanned(AfterViolation(tab, other, t, policy), ip, t)
           /\ \A duration \in Nat : duration > 0 =>
                IsBanned(AfterBan(tab, other, t, duration), ip, t)
           /\ IsBanned(AfterSweep(tab, t), ip, t)
           /\ other # ip => IsBanned(AfterUnban(tab, other), ip, t)
<1>1. /\ DOMAIN tab = IPs /\ tab[ip] # Absent /\ tab[ip] \in Offender
      /\ tab[ip].until \in Int /\ tab[ip].until > t /\ tab[ip].until # NoBan
  BY DEF IsBanned, Tracked, OffenderTables, Offender, NoBan
<1>2. IsBanned(AfterIsBanned(tab, other, t), ip, t)
  BY <1>1 DEF AfterIsBanned, IsBanned, Tracked
<1>3. IsBanned(AfterSweep(tab, t), ip, t)
  BY <1>1 DEF AfterSweep, KeptBySweep, IsBanned, Tracked
<1>4. other # ip => IsBanned(AfterUnban(tab, other), ip, t)
  BY <1>1 DEF AfterUnban, IsBanned, Tracked
<1>5. /\ Absent.since = -1 /\ EntryAt(tab, ip, t) = tab[ip] /\ ~CannotTrack(tab, ip)
  BY <1>1 DEF Absent, EntryAt, CannotTrack, Tracked
<1>6. ASSUME NEW policy \in BanPolicies, policy.duration > 0
      PROVE  IsBanned(AfterViolation(tab, other, t, policy), ip, t)
  <2>1. CASE other # ip
    <3>1. AfterViolation(tab, other, t, policy)[ip] = tab[ip]
      BY <1>1, <2>1 DEF AfterViolation
    <3> QED BY <1>1, <3>1 DEF IsBanned, Tracked
  <2>2. CASE other = ip
    <3> DEFINE e == Counted(EntryAt(tab, ip, t), t, policy)
               r == [since |-> t, count |-> 0, until |-> t + policy.duration]
    <3>1. e.until > t /\ e.since # -1
      BY <1>1, <1>5 DEF Counted, Offender
    <3>2. r.until > t /\ r.since # -1
      BY <1>6 DEF BanPolicies
    <3>3. AfterViolation(tab, ip, t, policy)[ip] = IF ReachesLimit(e, policy) THEN r ELSE e
      BY <1>1, <1>5 DEF AfterViolation
    <3> HIDE DEF e, r
    <3> QED BY <1>5, <2>2, <3>1, <3>2, <3>3 DEF IsBanned, Tracked
  <2> QED BY <2>1, <2>2
<1>7. ASSUME NEW duration \in Nat, duration > 0
      PROVE  IsBanned(AfterBan(tab, other, t, duration), ip, t)
  <2>1. CASE other # ip
    <3>1. AfterBan(tab, other, t, duration)[ip] = tab[ip]
      BY <1>1, <2>1 DEF AfterBan
    <3> QED BY <1>1, <3>1 DEF IsBanned, Tracked
  <2>2. CASE other = ip
    <3> DEFINE b == [EntryAt(tab, ip, t) EXCEPT !.until = t + duration]
    <3>1. b.until > t /\ b.since # -1
      BY <1>1, <1>5, <1>7 DEF Offender
    <3>2. AfterBan(tab, ip, t, duration)[ip] = b
      BY <1>1 DEF AfterBan
    <3> HIDE DEF b
    <3> QED BY <1>5, <2>2, <3>1, <3>2 DEF IsBanned, Tracked
  <2> QED BY <2>1, <2>2
<1> QED BY <1>2, <1>3, <1>4, <1>6, <1>7, Zenon

\* No connection, checked or admitted before the ban or after it, no sweep, no reload and
\* no second ban lifts a ban in force.
THEOREM BansInForceHold ==
    ASSUME PositiveBans
    PROVE  Spec => BansHold
<1>1. TypeOK /\ TypeOK' /\ [Next]_vars =>
        [\A ip \in IPs :
           IsBanned(offenders, ip, now) /\ ~IsBanned(offenders, ip, now)' =>
             now' > now \/ offenders' = AfterUnban(offenders, ip)]_vars
  <2> SUFFICES ASSUME TypeOK, TypeOK', [Next]_vars, NEW ip \in IPs,
                      IsBanned(offenders, ip, now), ~IsBanned(offenders, ip, now)',
                      ~(now' > now)
               PROVE  offenders' = AfterUnban(offenders, ip)
    BY Zenon
  <2>0. offenders \in OffenderTables /\ now \in Nat
    BY DEF TypeOK
  <2>1. IsBanned(offenders, ip, now) /\ (now' = now => ~IsBanned(offenders', ip, now))
    BY DEF IsBanned, Tracked
  <2>2. ASSUME UNCHANGED <<now, offenders>> PROVE FALSE
    BY <2>1, <2>2
  <2>3. ASSUME NEW other \in IPs, UNCHANGED now, offenders' = AfterIsBanned(offenders, other, now)
        PROVE  FALSE
    <3>1. IsBanned(AfterIsBanned(offenders, other, now), ip, now)
      BY <2>0, <2>1, BanOps, Zenon
    <3> QED BY <2>1, <2>3, <3>1
  <2>4. ASSUME NEW c \in Conns, RecordViolation(c) PROVE FALSE
    <3>1. CASE ~snap[c].banOn
      BY <2>2, <2>4, <3>1 DEF RecordViolation
    <3>2. CASE snap[c].banOn
      <4>1. /\ snap[c].policy \in BanPolicies /\ snap[c].policy.duration > 0
            /\ addr[c] \in IPs
        BY AdmissionAssumption DEF TypeOK, PositiveBans, ConfigRecords
      <4>2. UNCHANGED now /\ offenders' = AfterViolation(offenders, addr[c], now, snap[c].policy)
        BY <2>4, <3>2 DEF RecordViolation
      <4>3. IsBanned(AfterViolation(offenders, addr[c], now, snap[c].policy), ip, now)
        BY <2>0, <2>1, <4>1, BanOps, Zenon
      <4> QED BY <2>1, <4>2, <4>3
    <3> QED BY <3>1, <3>2
  <2>5. ASSUME NEW other \in IPs, ConsoleBan(other) PROVE offenders' = AfterUnban(offenders, ip)
    <3>1. UNCHANGED now
      BY <2>5 DEF ConsoleBan
    <3>2. ASSUME NEW duration \in Durations, offenders' = AfterBan(offenders, other, now, duration)
          PROVE  FALSE
      <4>1. duration \in Nat /\ duration > 0
        BY AdmissionAssumption DEF PositiveBans
      <4>2. IsBanned(AfterBan(offenders, other, now, duration), ip, now)
        BY <2>0, <2>1, <4>1, BanOps, Zenon
      <4> QED BY <2>1, <3>1, <3>2, <4>2
    <3>3. ASSUME offenders' = AfterUnban(offenders, other), other # ip PROVE FALSE
      <4>1. IsBanned(AfterUnban(offenders, other), ip, now)
        BY <2>0, <2>1, <3>3, BanOps, Zenon
      <4> QED BY <2>1, <3>1, <3>3, <4>1
    <3> QED BY <2>5, <3>2, <3>3, Zenon DEF ConsoleBan
  <2>6. ASSUME offenders' = AfterSweep(offenders, now), UNCHANGED now PROVE FALSE
    <3>1. IsBanned(AfterSweep(offenders, now), ip, now)
      BY <2>0, <2>1, BanOps, Zenon
    <3> QED BY <2>1, <2>6, <3>1
  <2>7. ASSUME NEW c \in Conns, CheckPeerBan(c) \/ CheckClientBan(c) PROVE FALSE
    <3>1. addr[c] \in IPs
      BY DEF TypeOK
    <3>2. /\ UNCHANGED now
          /\ \/ offenders' = AfterIsBanned(offenders, addr[c], now)
             \/ UNCHANGED offenders
      BY <2>7 DEF CheckPeerBan, CheckClientBan, BanCheck
    <3> QED BY <2>2, <2>3, <3>1, <3>2
  <2>8. ASSUME NEW c \in Conns,
               \/ AcquireGlobal(c) \/ UndoGlobal(c) \/ CheckRate(c) \/ AcquirePreLogin(c)
               \/ DropPreLogin(c) \/ DropGlobal(c) \/ External(c) \/ TimeOut(c)
        PROVE  FALSE
    <3>1. UNCHANGED <<now, offenders>>
      BY <2>8, Zenon
         DEF AcquireGlobal, UndoGlobal, CheckRate, AcquirePreLogin, DropPreLogin, DropGlobal,
             External, TimeOut, ReadHeader, ReadHandshake, ReadStatusRequest, ReadLoginStart,
             RefuseLogin, Finish, Accept, shared
    <3> QED BY <2>2, <3>1
  <2>9. ASSUME UNCHANGED vars \/ Reload \/ Tick \/ SweepTables PROVE FALSE
    <3>1. CASE UNCHANGED vars \/ Reload
      BY <2>2, <3>1 DEF vars, shared, Reload
    <3>2. CASE Tick
      BY <2>0, <3>2 DEF Tick
    <3>3. CASE SweepTables
      BY <2>2, <2>6, <3>3 DEF SweepTables
    <3> QED BY <2>9, <3>1, <3>2, <3>3
  <2> QED BY <2>4, <2>5, <2>7, <2>8, <2>9, Zenon DEF Next, Internal
<1> QED BY <1>1, TypeCorrect, PTL DEF Spec, BansHold
=============================================================================
