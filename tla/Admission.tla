----------------------------- MODULE Admission -----------------------------
(***************************************************************************)
(* How server.rs admits a connection: handle_connection from accept to the *)
(* hand-over to the status or login handler, and the release of what the   *)
(* connection holds when its task returns.  The tasks of all connections   *)
(* share the offender table, the global connection counter, the rate       *)
(* windows and the pre-login counts; each access to one of them is a step  *)
(* of its own, since each takes its own lock or is one atomic instruction. *)
(*                                                                         *)
(* A configuration is snapshot once per connection; hot reloads change the *)
(* one in force.  What the client sends is a choice of outcome per read.   *)
(***************************************************************************)
EXTENDS IpBanList, ConnectionRates

CONSTANTS Conns,      \* connection tasks
          Configs,    \* the configurations loaded from time to time
          Durations,  \* durations given to the console's ban command
          MaxTime,    \* bound of the clock
          MaxAttempts \* bound of the attempts counted in one rate window

ConfigRecords ==
    [proxy : BOOLEAN,       \* proxyProtocol
     banOn : BOOLEAN,       \* autoBan.enabled
     policy : BanPolicies,  \* autoBan
     maxConn : Int,         \* connectionThrottle.maxConnections
     rateMax : Int,         \* connectionThrottle.maxPerIpPerWindow
     rateWindow : Nat,      \* connectionThrottle.window
     perIp : Nat,           \* maxConnectionsPerIp, clamped at zero
     deadline : BOOLEAN]    \* loginTimeout > 0

ASSUME AdmissionAssumption ==
    /\ IsFiniteSet(Conns)
    /\ Configs \subseteq ConfigRecords
    /\ Durations \subseteq Nat
    /\ MaxTime \in Nat
    /\ MaxAttempts \in Nat

VARIABLES
    cfg,         \* the configuration in force
    now,         \* the clock
    offenders,   \* ip_ban_list()
    windows,     \* connection_rates()
    count,       \* GlobalConnections.count
    prelogin,    \* PreLoginConnections.counts, zero for an absent key
    pc,          \* where each task is
    snap,        \* each task's configuration snapshot
    addr,        \* each task's effective_addr
    globalHeld,  \* tasks whose GlobalConnectionGuard owns a slot
    preHeld      \* tasks whose PreLoginGuard owns a slot
shared == <<cfg, now, offenders, windows>>
slots == <<count, prelogin, globalHeld, preHeld>>
task == <<pc, snap, addr>>
vars == <<shared, slots, task>>

\* Reads that wait for the client, all under the one pre-login deadline.
Waiting == {"header", "handshake", "status", "login"}

PCs == {"idle", "ban", "global", "undo", "rate", "banClient", "prelogin", "reply",
        "play", "violation", "dropPre", "dropGlobal"} \cup Waiting

Init ==
    /\ cfg \in Configs
    /\ now = 0
    /\ offenders = [ip \in IPs |-> Absent]
    /\ windows = [ip \in IPs |-> NoWindow]
    /\ count = 0
    /\ prelogin = [ip \in IPs |-> 0]
    /\ pc = [c \in Conns |-> "idle"]
    /\ snap \in {[c \in Conns |-> k] : k \in Configs}
    /\ addr \in {[c \in Conns |-> ip] : ip \in IPs}
    /\ globalHeld = {}
    /\ preHeld = {}

At(c, label) == pc[c] = label

Goto(c, label) == pc' = [pc EXCEPT ![c] = label]

-----------------------------------------------------------------------------
(* Accept and the guards in front of the first read.                         *)

\* The listener hands a socket to a new task, which snapshots the config.
Accept(c, ip) ==
    /\ At(c, "idle")
    /\ windows[ip].count < MaxAttempts
    /\ snap' = [snap EXCEPT ![c] = cfg]
    /\ addr' = [addr EXCEPT ![c] = ip]
    /\ Goto(c, "ban")
    /\ UNCHANGED <<shared, slots>>

\* is_banned on the address of task c, going on to `admitted` or `dropped`.
BanCheck(c, applies, admitted, dropped) ==
    /\ offenders' = IF applies THEN AfterIsBanned(offenders, addr[c], now) ELSE offenders
    /\ Goto(c, IF applies /\ IsBanned(offenders, addr[c], now) THEN dropped ELSE admitted)
    /\ UNCHANGED <<cfg, now, windows, slots, snap, addr>>

\* Behind a fronting proxy the peer is that proxy, and is not checked.
CheckPeerBan(c) ==
    /\ At(c, "ban")
    /\ BanCheck(c, ~snap[c].proxy /\ snap[c].banOn, "global", "idle")

\* M: off by one at the cap.
M_OverCap(n, max) == n > max + 1

OverCap(n, max) == n > max

\* GlobalConnectionGuard::acquire: the fetch_add and its verdict.
AcquireGlobal(c) ==
    /\ At(c, "global")
    /\ IF snap[c].maxConn <= 0
         THEN Goto(c, "rate") /\ UNCHANGED <<count, globalHeld>>
         ELSE /\ count' = count + 1
              /\ IF OverCap(count + 1, snap[c].maxConn)
                   THEN Goto(c, "undo") /\ UNCHANGED globalHeld
                   ELSE Goto(c, "rate") /\ globalHeld' = globalHeld \cup {c}
    /\ UNCHANGED <<shared, prelogin, preHeld, snap, addr>>

\* The fetch_sub that undoes a refused fetch_add.
UndoGlobal(c) ==
    /\ At(c, "undo")
    /\ count' = count - 1
    /\ Goto(c, "idle")
    /\ UNCHANGED <<shared, prelogin, globalHeld, preHeld, snap, addr>>

CheckRate(c) ==
    LET applies == ~snap[c].proxy /\ snap[c].rateMax > 0
        allowed == RateAllows(windows, addr[c], now, snap[c].rateMax, snap[c].rateWindow)
    IN  /\ At(c, "rate")
        /\ windows' = IF applies
             THEN AfterTryAcquire(windows, addr[c], now, snap[c].rateMax, snap[c].rateWindow)
             ELSE windows
        /\ Goto(c, IF applies /\ ~allowed THEN "violation"
                   ELSE IF snap[c].proxy THEN "header" ELSE "prelogin")
        /\ UNCHANGED <<cfg, now, offenders, slots, snap, addr>>

\* The PROXY header arrives: it names the client (any address, the peer's own
\* included for a v2 LOCAL header) or is malformed.
ReadHeader(c) ==
    /\ At(c, "header")
    /\ \/ \E ip \in IPs : addr' = [addr EXCEPT ![c] = ip] /\ Goto(c, "banClient")
       \/ UNCHANGED addr /\ Goto(c, "dropGlobal")
    /\ UNCHANGED <<shared, slots, snap>>

CheckClientBan(c) ==
    /\ At(c, "banClient")
    /\ BanCheck(c, snap[c].banOn, "prelogin", "dropGlobal")

\* PreLoginGuard::acquire, whose count and verdict share one lock.
AcquirePreLogin(c) ==
    LET ip == addr[c]
    IN  /\ At(c, "prelogin")
        /\ IF snap[c].perIp > 0 /\ ~OverCap(prelogin[ip] + 1, snap[c].perIp)
             THEN /\ prelogin' = [prelogin EXCEPT ![ip] = @ + 1]
                  /\ preHeld' = preHeld \cup {c}
             ELSE UNCHANGED <<prelogin, preHeld>>
        /\ Goto(c, IF snap[c].perIp > 0 /\ OverCap(prelogin[ip] + 1, snap[c].perIp)
                     THEN "violation" ELSE "handshake")
        /\ UNCHANGED <<shared, count, globalHeld, snap, addr>>

-----------------------------------------------------------------------------
(* The reads of the pre-login phase.                                         *)

\* The handshake is malformed (a violation); the client went away or asks for a
\* host without a route; or the connection goes on to its handler.
ReadHandshake(c) ==
    /\ At(c, "handshake")
    /\ \E next \in {"violation", "dropPre", "status", "login"} : Goto(c, next)
    /\ UNCHANGED <<shared, slots, snap, addr>>

\* The status request arrives, or something that is not one.
ReadStatusRequest(c) ==
    /\ At(c, "status")
    /\ \E next \in {"reply", "dropPre"} : Goto(c, next)
    /\ UNCHANGED <<shared, slots, snap, addr>>

\* The status exchange after the request, or the relay of a login, is over.
Finish(c) ==
    /\ pc[c] \in {"reply", "play"}
    /\ Goto(c, "dropPre")
    /\ UNCHANGED <<shared, slots, snap, addr>>

\* M: the guard forgets that it has released.
M_ReleasePreLogin(c) ==
    /\ prelogin' = IF c \in preHeld
                     THEN [prelogin EXCEPT ![addr[c]] = IF @ <= 1 THEN 0 ELSE @ - 1]
                     ELSE prelogin
    /\ UNCHANGED preHeld

\* PreLoginGuard::release: once, and only if the guard owns a slot.
ReleasePreLogin(c) ==
    /\ prelogin' = IF c \in preHeld
                     THEN [prelogin EXCEPT ![addr[c]] = IF @ <= 1 THEN 0 ELSE @ - 1]
                     ELSE prelogin
    /\ preHeld' = preHeld \ {c}

\* The Login Start arrives and proves the client real: done() frees the slot.
ReadLoginStart(c) ==
    /\ At(c, "login")
    /\ ReleasePreLogin(c)
    /\ Goto(c, "play")
    /\ UNCHANGED <<shared, count, globalHeld, snap, addr>>

\* The route is over its traffic limit, or the Login Start is unreadable.
RefuseLogin(c) ==
    /\ At(c, "login")
    /\ Goto(c, "dropPre")
    /\ UNCHANGED <<shared, slots, snap, addr>>

\* M: the status request is read without the deadline.
M_TimeOut(c) ==
    /\ snap[c].deadline
    /\ \/ At(c, "header") /\ Goto(c, "dropGlobal") /\ UNCHANGED snap
       \/ At(c, "handshake") /\ Goto(c, "violation") /\ UNCHANGED snap
       \/ At(c, "login") /\ Goto(c, "violation") /\ snap' = [snap EXCEPT ![c] = cfg]
    /\ UNCHANGED <<shared, slots, addr>>

\* The deadline passes while the task waits for the client.  A silent client is
\* a violation only where its address is known and a login was due; the login
\* handler judges it by the configuration now in force.
TimeOut(c) ==
    /\ snap[c].deadline
    /\ \/ At(c, "header") /\ Goto(c, "dropGlobal") /\ UNCHANGED snap
       \/ At(c, "handshake") /\ Goto(c, "violation") /\ UNCHANGED snap
       \/ At(c, "status") /\ Goto(c, "dropPre") /\ UNCHANGED snap
       \/ At(c, "login") /\ Goto(c, "violation") /\ snap' = [snap EXCEPT ![c] = cfg]
    /\ UNCHANGED <<shared, slots, addr>>

-----------------------------------------------------------------------------
(* The way out.                                                              *)

\* record_ip_violation
RecordViolation(c) ==
    /\ At(c, "violation")
    /\ offenders' = IF snap[c].banOn
                      THEN AfterViolation(offenders, addr[c], now, snap[c].policy)
                      ELSE offenders
    /\ Goto(c, "dropPre")
    /\ UNCHANGED <<cfg, now, windows, slots, snap, addr>>

\* The task returns: its guards are dropped, the pre-login guard first.
DropPreLogin(c) ==
    /\ At(c, "dropPre")
    /\ ReleasePreLogin(c)
    /\ Goto(c, "dropGlobal")
    /\ UNCHANGED <<shared, count, globalHeld, snap, addr>>

\* M: a guard of an unlimited pool releases as well.
M_DropGlobal(c) ==
    /\ At(c, "dropGlobal")
    /\ count' = count - 1
    /\ globalHeld' = globalHeld \ {c}
    /\ Goto(c, "idle")
    /\ UNCHANGED <<shared, prelogin, preHeld, snap, addr>>

DropGlobal(c) ==
    /\ At(c, "dropGlobal")
    /\ count' = IF c \in globalHeld THEN count - 1 ELSE count
    /\ globalHeld' = globalHeld \ {c}
    /\ Goto(c, "idle")
    /\ UNCHANGED <<shared, prelogin, preHeld, snap, addr>>

-----------------------------------------------------------------------------
(* What goes on beside the connections.                                      *)

Reload ==
    /\ cfg' \in Configs
    /\ UNCHANGED <<now, offenders, windows, slots, task>>

Tick ==
    /\ now < MaxTime
    /\ now' = now + 1
    /\ UNCHANGED <<cfg, offenders, windows, slots, task>>

SweepTables ==
    /\ \/ offenders' = AfterSweep(offenders, now) /\ UNCHANGED windows
       \/ windows' = AfterRateSweep(windows, now) /\ UNCHANGED offenders
    /\ UNCHANGED <<cfg, now, slots, task>>

ConsoleBan(ip) ==
    /\ \/ \E duration \in Durations : offenders' = AfterBan(offenders, ip, now, duration)
       \/ offenders' = AfterUnban(offenders, ip)
    /\ UNCHANGED <<cfg, now, windows, slots, task>>

\* Steps a task takes by itself.
Internal(c) ==
    \/ CheckPeerBan(c) \/ AcquireGlobal(c) \/ UndoGlobal(c) \/ CheckRate(c)
    \/ CheckClientBan(c) \/ AcquirePreLogin(c)
    \/ RecordViolation(c) \/ DropPreLogin(c) \/ DropGlobal(c)

\* Steps that wait for the client or the backend.
External(c) ==
    \/ ReadHeader(c) \/ ReadHandshake(c) \/ ReadStatusRequest(c)
    \/ ReadLoginStart(c) \/ RefuseLogin(c) \/ Finish(c)
    \/ \E ip \in IPs : Accept(c, ip)

Next ==
    \/ \E c \in Conns : Internal(c) \/ External(c) \/ TimeOut(c)
    \/ Reload \/ Tick \/ SweepTables
    \/ \E ip \in IPs : ConsoleBan(ip)

Spec == Init /\ [][Next]_vars

\* The runtime polls a ready task, and fires its timer, eventually; nothing
\* makes a client send, a backend answer or a relay end.
FairSpec ==
    /\ Spec
    /\ \A c \in Conns : WF_vars(Internal(c)) /\ WF_vars(TimeOut(c))

-----------------------------------------------------------------------------
(* Properties.                                                               *)

\* Every variable has its type; the shared counters never go below zero.
TypeOK ==
    /\ cfg \in Configs
    /\ now \in Nat
    /\ offenders \in OffenderTables
    /\ windows \in RateTables
    /\ count \in Nat
    /\ prelogin \in [IPs -> Nat]
    /\ pc \in [Conns -> PCs]
    /\ snap \in [Conns -> Configs]
    /\ addr \in [Conns -> IPs]
    /\ globalHeld \subseteq Conns
    /\ preHeld \subseteq Conns

\* Tasks between a refused fetch_add and its fetch_sub.
Undoing == {c \in Conns : pc[c] = "undo"}

\* The tasks that own a pre-login slot of address ip.
PreHeldFor(ip) == {c \in preHeld : addr[c] = ip}

\* The counters count exactly what is out: the global counter the slots held
\* and the refused attempts not yet undone, the pre-login count of an address
\* the slots held for it.  No path of handle_connection leaks a slot or
\* releases one twice, whatever the configurations do meanwhile.
SlotAccounting ==
    /\ count = Cardinality(globalHeld \cup Undoing)
    /\ \A ip \in IPs : prelogin[ip] = Cardinality(PreHeldFor(ip))

\* A slot is owned only by a task that is past the guard and has not returned;
\* a pre-login slot only by one that has not finished its login.
SlotsHaveOwners ==
    /\ \A c \in globalHeld : pc[c] \notin {"idle", "ban", "global", "undo"}
    /\ \A c \in preHeld :
         pc[c] \in {"handshake", "status", "login", "reply", "violation", "dropPre"}

\* Both: what the guards keep, and what no step of a task may break.
SlotsExact == SlotAccounting /\ SlotsHaveOwners

\* The global cap and the pre-login cap of each address are slot pools.
GlobalPool == INSTANCE SlotPool WITH
    Clients <- Conns, Caps <- {k.maxConn : k \in {j \in Configs : j.maxConn > 0}},
    held <- globalHeld

PreLoginPool(ip) == INSTANCE SlotPool WITH
    Clients <- Conns, Caps <- {k.perIp : k \in Configs},
    held <- PreHeldFor(ip)

\* The global connection counter implements a slot pool although its test and
\* its undo are two atomic steps: holders never exceed the largest cap loaded.
GlobalCapHolds == GlobalPool!Spec

\* PreLoginGuard implements one slot pool per source address, the client's own one from
\* the PROXY header where proxyProtocol is on, over reloads of the cap.  This is what the
\* code does and tests/e2e.rs:304 asks for; resources/default-config.yml:81-82 still has
\* the cap "Ignored when proxyProtocol is on" and taken from the file "on (re)start" only.
PreLoginCapHolds ==
    /\ \A ip \in IPs : PreHeldFor(ip) = {}
    /\ [][\A ip \in IPs : PreLoginPool(ip)!Next \/ UNCHANGED PreHeldFor(ip)]_vars

\* With a login timeout, a connection whose client goes silent during the
\* pre-login phase leaves it: no silent socket holds its slots for ever.
SilentClientsLeave ==
    \A c \in Conns :
      pc[c] \in Waiting /\ snap[c].deadline ~> pc[c] \in {"idle", "reply", "play"}
=============================================================================
