----------------------------- MODULE IpBanList -----------------------------
(***************************************************************************)
(* The offender table of src/net/ip_ban.rs as operations on its map.       *)
(* Each method of IpBanList runs under one mutex, so each is one operator  *)
(* from the table before the call to the table after it.  The table is a   *)
(* total function on addresses; Absent stands for a key the HashMap does   *)
(* not hold.  Instants are naturals, a banned_until of None is NoBan.      *)
(***************************************************************************)
EXTENDS Addresses

CONSTANTS MaxTrackedIps,  \* MAX_TRACKED_IPS
          ForgetAfter     \* FORGET_AFTER

ASSUME BanListAssumption ==
    /\ MaxTrackedIps \in Nat
    /\ ForgetAfter \in Nat

NoBan == -1

Offender == [since : Nat, count : Nat, until : Nat \cup {NoBan}]

Absent == [since |-> -1, count |-> 0, until |-> NoBan]

OffenderTables == [IPs -> Offender \cup {Absent}]

\* auto_ban as record_ip_violation passes it on: durations clamped at zero.
BanPolicies == [max : Nat, window : Nat, duration : Nat]

Tracked(tab, ip) == tab[ip] # Absent

TrackedIps(tab) == {ip \in IPs : Tracked(tab, ip)}

\* What is_banned answers at time t.
IsBanned(tab, ip, t) == Tracked(tab, ip) /\ tab[ip].until > t

\* What is_banned leaves behind: an entry whose ban ran out is dropped whole.
AfterIsBanned(tab, ip, t) ==
    IF Tracked(tab, ip) /\ tab[ip].until # NoBan /\ tab[ip].until <= t
      THEN [tab EXCEPT ![ip] = Absent]
      ELSE tab

\* The entry a method works on: the tracked one, or a fresh one made at t.
EntryAt(tab, ip, t) ==
    IF Tracked(tab, ip) THEN tab[ip]
                        ELSE [since |-> t, count |-> 0, until |-> NoBan]

\* A manual ban; it is not subject to the tracking cap.
AfterBan(tab, ip, t, duration) ==
    [tab EXCEPT ![ip] = [EntryAt(tab, ip, t) EXCEPT !.until = t + duration]]

AfterUnban(tab, ip) == [tab EXCEPT ![ip] = Absent]

\* M: the violation window never restarts.
M_WindowElapsed(e, t, policy) == FALSE

\* The violation window of entry e is over at t.
WindowElapsed(e, t, policy) == t - e.since >= policy.window

\* The entry after counting one more violation at t, before the verdict.
Counted(e, t, policy) ==
    IF WindowElapsed(e, t, policy)
      THEN [e EXCEPT !.since = t, !.count = 1]
      ELSE [e EXCEPT !.count = @ + 1]

\* The caller's max_violations.max(1) changes nothing here: a counted entry has
\* at least one violation.
ReachesLimit(e, policy) == e.count >= policy.max

\* The table is full and the address unknown: record_violation fails open.
CannotTrack(tab, ip) ==
    ~Tracked(tab, ip) /\ Cardinality(TrackedIps(tab)) >= MaxTrackedIps

\* record_violation returns TRUE: this violation brings a ban.
BringsBan(tab, ip, t, policy) ==
    /\ ~CannotTrack(tab, ip)
    /\ ReachesLimit(Counted(EntryAt(tab, ip, t), t, policy), policy)

AfterViolation(tab, ip, t, policy) ==
    IF CannotTrack(tab, ip) THEN tab
    ELSE LET e == Counted(EntryAt(tab, ip, t), t, policy)
         IN  [tab EXCEPT ![ip] =
               IF ReachesLimit(e, policy)
                 THEN [since |-> t, count |-> 0, until |-> t + policy.duration]
                 ELSE e]

KeptBySweep(e, t) == e.until > t \/ t - e.since < ForgetAfter

AfterSweep(tab, t) ==
    [ip \in IPs |-> IF Tracked(tab, ip) /\ KeptBySweep(tab[ip], t)
                      THEN tab[ip] ELSE Absent]
=============================================================================
