---------------------------- MODULE AddressTables ----------------------------
(***************************************************************************)
(* The two tables keyed by client address, driven by their callers over    *)
(* time: the offender table of ip_ban.rs and the rate windows of           *)
(* flood_control.rs.  Callers are connections that check, count and report *)
(* an address, the console's ban and unban, and the periodic sweeps.  A    *)
(* reporter need not have been checked recently: a connection admitted     *)
(* before a ban still reports its violation after it.                      *)
(***************************************************************************)
EXTENDS IpBanList, ConnectionRates, Sequences

CONSTANTS Policies,     \* the autoBan settings in force from time to time
          Durations,    \* durations given to the console's ban command
          MaxPerWindow, \* connectionThrottle.maxPerIpPerWindow
          Window,       \* connectionThrottle.window
          MaxTime,      \* bound of the clock
          MaxReports    \* bound of violations remembered per address

VARIABLES now,
          offenders,
          windows,
          reports,      \* history: times of the violations since the last
                        \* ban, per address
          accepted      \* history: times, less than Window ago, at which a
                        \* tracked address was let through
vars == <<now, offenders, windows, reports, accepted>>
bans == <<offenders, reports>>
rates == <<windows, accepted>>

Recent(times, t, span) == SelectSeq(times, LAMBDA a : t - a < span)

Init ==
    /\ now = 0
    /\ offenders = [ip \in IPs |-> Absent]
    /\ windows = [ip \in IPs |-> NoWindow]
    /\ reports = [ip \in IPs |-> <<>>]
    /\ accepted = [ip \in IPs |-> <<>>]

Tick ==
    /\ now < MaxTime
    /\ now' = now + 1
    /\ accepted' = [ip \in IPs |-> Recent(accepted[ip], now', Window)]
    /\ UNCHANGED <<bans, windows>>

\* is_banned, at the top of handle_connection.
Check(ip) ==
    /\ offenders' = AfterIsBanned(offenders, ip, now)
    /\ UNCHANGED <<now, reports, rates>>

\* record_violation, from record_ip_violation.
Violation(ip, policy) ==
    /\ Len(reports[ip]) < MaxReports
    /\ offenders' = AfterViolation(offenders, ip, now, policy)
    /\ reports' = [reports EXCEPT ![ip] =
                     IF BringsBan(offenders, ip, now, policy)
                       THEN <<>> ELSE Append(@, now)]
    /\ UNCHANGED <<now, rates>>

\* The console's ban command.
Ban(ip, duration) ==
    /\ offenders' = AfterBan(offenders, ip, now, duration)
    /\ UNCHANGED <<now, reports, rates>>

\* The console's unban command.
Unban(ip) ==
    /\ offenders' = AfterUnban(offenders, ip)
    /\ UNCHANGED <<now, reports, rates>>

SweepBans ==
    /\ offenders' = AfterSweep(offenders, now)
    /\ UNCHANGED <<now, reports, rates>>

\* A connection attempt is counted and let through or not.  The count of a window
\* saturates in the model: past the limit every further attempt is refused alike.
TryAcquire(ip) ==
    /\ CountedWindow(windows, ip, now, Window).count <= MaxPerWindow + 1
    /\ windows' = AfterTryAcquire(windows, ip, now, MaxPerWindow, Window)
    /\ accepted' =
         IF RateAllows(windows, ip, now, MaxPerWindow, Window) /\ ~FailsOpen(windows, ip)
           THEN [accepted EXCEPT ![ip] = Recent(Append(@, now), now, Window)]
           ELSE accepted
    /\ UNCHANGED <<now, bans>>

SweepRates ==
    /\ windows' = AfterRateSweep(windows, now)
    /\ UNCHANGED <<now, bans, accepted>>

BanStep ==
    \/ \E ip \in IPs : Check(ip) \/ Unban(ip)
    \/ \E ip \in IPs, policy \in Policies : Violation(ip, policy)
    \/ \E ip \in IPs, duration \in Durations : Ban(ip, duration)
    \/ SweepBans

RateStep == SweepRates \/ \E ip \in IPs : TryAcquire(ip)

Next == Tick \/ BanStep \/ RateStep

Spec == Init /\ [][Next]_vars

-----------------------------------------------------------------------------
\* Offenders and windows are well formed: a counted entry never has a ban that
\* ends before it began, nor a window that starts before the clock.
TypeOK ==
    /\ now \in Nat
    /\ offenders \in OffenderTables
    /\ windows \in RateTables
    /\ reports \in [IPs -> Seq(Nat)]
    /\ accepted \in [IPs -> Seq(Nat)]

\* record_violation bans an address only when that address was reported
\* max_violations times since its last ban, all of them inside one violation
\* window: a window restart, an unban, an expiry and the sweep never let an
\* old violation count twice.
BanHasCause ==
    \A ip \in IPs, policy \in Policies :
      BringsBan(offenders, ip, now, policy) /\ Violation(ip, policy) =>
        Len(Recent(reports[ip], now, policy.window)) + 1 >= policy.max

\* A ban in force ends only by the passage of time or by unban: no check, no
\* further violation, no sweep and no second ban lifts it on the way.
BanHolds ==
    \A ip \in IPs :
      IsBanned(offenders, ip, now) /\ ~IsBanned(offenders, ip, now)' =>
        now' > now \/ Unban(ip)

\* No step bans without its violations, and none ends a ban early.
BansJust == [][BanHasCause /\ BanHolds]_vars

\* Within any stretch of length Window, at most twice MaxPerWindow connections
\* of one tracked address pass try_acquire: the fixed window's boundary costs a
\* factor of two and no more, for a window no longer than the sweep's cutoff.
AtMostTwiceTheRate ==
    \A ip \in IPs : Len(Recent(accepted[ip], now, Window)) <= 2 * MaxPerWindow
=============================================================================
