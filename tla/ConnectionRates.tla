-------------------------- MODULE ConnectionRates --------------------------
(***************************************************************************)
(* The per-address connection-rate windows of src/net/flood_control.rs as  *)
(* operations on their map.  try_acquire and sweep each run under one      *)
(* mutex.  NoWindow stands for an address the map does not hold.           *)
(***************************************************************************)
EXTENDS Addresses

CONSTANTS MaxTrackedRates, \* MAX_TRACKED_IPS
          SweepCutoff      \* SWEEP_CUTOFF

ASSUME RatesAssumption ==
    /\ MaxTrackedRates \in Nat
    /\ SweepCutoff \in Nat

NoWindow == [start |-> -1, count |-> 0]

RateTables == [IPs -> [start : Nat, count : Nat] \cup {NoWindow}]

\* The map is full and the address unknown: try_acquire fails open.
FailsOpen(win, ip) ==
    /\ win[ip] = NoWindow
    /\ Cardinality({i \in IPs : win[i] # NoWindow}) >= MaxTrackedRates

\* The window of ip after counting one more attempt at t: restarted when over.
CountedWindow(win, ip, t, window) ==
    IF win[ip] = NoWindow \/ t - win[ip].start >= window
      THEN [start |-> t, count |-> 1]
      ELSE [win[ip] EXCEPT !.count = @ + 1]

\* M: off by one at the limit.
M_WithinRate(w, max) == w.count <= max + 1

WithinRate(w, max) == w.count <= max

\* What try_acquire answers, and the map it leaves.
RateAllows(win, ip, t, max, window) ==
    FailsOpen(win, ip) \/ WithinRate(CountedWindow(win, ip, t, window), max)

AfterTryAcquire(win, ip, t, max, window) ==
    IF FailsOpen(win, ip) THEN win
    ELSE [win EXCEPT ![ip] = CountedWindow(win, ip, t, window)]

AfterRateSweep(win, t) ==
    [ip \in IPs |-> IF win[ip].start >= t - SweepCutoff THEN win[ip]
                                                        ELSE NoWindow]
=============================================================================
