------------------------------ MODULE Routing ------------------------------
(***************************************************************************)
(* From a host name to a backend: the route that matches, its backend      *)
(* templates filled in, the order the route's strategy puts them in        *)
(* (net/backend_selector.rs) and the dials that feed the next order        *)
(* (RouteRuntime in state.rs), for logins and status pings that run at the *)
(* same time.  A sort reads the live counts or latencies at every          *)
(* comparison (here the two keys of one comparison at once), while other   *)
(* connections change them.  One route and its runtime are observed; a     *)
(* resolved address is the text it was resolved from, and a connection     *)
(* whose host name makes match_host panic, or whose resolution fails,      *)
(* leaves nothing behind.                                                  *)
(***************************************************************************)
EXTENDS HostPattern, Functions

CONSTANTS Routes,      \* the routes in order of priority: [patterns, templates]
          Strategies,  \* the strategies the observed route may have
          Hosts,       \* host names of handshakes
          Tasks,       \* connections
          Millis,      \* latencies measured
          LatencyTtl,  \* LATENCY_TTL
          Width,       \* bits of the round-robin counter
          MaxTime      \* bound of the clock

VARIABLES
    route, strategy,  \* the observed route and its strategy
    now,
    active,    \* active_connections, without the entries that are absent
    latency,   \* latencies: address -> [ms, at]
    counter,   \* round_robin_counter
    starts,    \* history: how often a rotation began at each backend since the counter wrapped
    task       \* per connection: [pc, resolved, list, i, j, undisturbed]
vars == <<route, strategy, now, active, latency, counter, starts, task>>

Idle == [pc |-> "idle", resolved |-> <<>>, list |-> <<>>, i |-> 0, j |-> 0, undisturbed |-> TRUE]

\* Route::match_host: the captures of the first pattern that matches, by route and host.
Captures ==
    [i \in 1..Len(Routes), host \in Hosts |->
        LET found == [k \in 1..Len(Routes[i].patterns) |-> match_host(Routes[i].patterns[k], host)]
            hits == {k \in DOMAIN found : found[k] # None}
        IN  IF hits = {} THEN None ELSE found[Min(hits)]]

\* The first route with a match, or the number after the last.
Matched(host) ==
    Min({i \in 1..Len(Routes) : Captures[i, host] # None} \cup {Len(Routes) + 1})

\* resolve_backends.
Resolved(host) ==
    LET r == Routes[route]
    IN  [i \in 1..Len(r.templates) |-> substitute_params(r.templates[i], Captures[route, host])]

Size == Len(Routes[route].templates)

Init ==
    /\ route \in 1..Len(Routes)
    /\ strategy \in Strategies
    /\ now = 0
    /\ active = <<>>
    /\ latency = <<>>
    /\ counter = 0
    /\ starts = [s \in 0..Size - 1 |-> 0]
    /\ task = [t \in Tasks |-> Idle]

-----------------------------------------------------------------------------
(* RouteRuntime.                                                             *)

active_connections_of(a) == IF a \in DOMAIN active THEN active[a] ELSE 0

Opened(a) == [x \in DOMAIN active \cup {a} |-> active_connections_of(x) + (IF x = a THEN 1 ELSE 0)]

\* An entry whose count reaches zero is removed.
Closed(a) ==
    IF a \notin DOMAIN active THEN active
    ELSE IF active[a] <= 1 THEN Restrict(active, DOMAIN active \ {a})
    ELSE [active EXCEPT ![a] = @ - 1]

Fresh(a) == a \in DOMAIN latency /\ now - latency[a].at <= LatencyTtl

\* record_latency sweeps every reading that has expired.
Measured(a, ms) ==
    [x \in {y \in DOMAIN latency : Fresh(y)} \cup {a} |->
        IF x = a THEN [ms |-> ms, at |-> now] ELSE latency[x]]

\* latency_of evicts the readings it finds expired.
Asked(addrs) == Restrict(latency, {x \in DOMAIN latency : x \in addrs => Fresh(x)})

\* The sort key; a backend without a fresh reading comes last.
Key(a) ==
    IF strategy = "least-connections" THEN active_connections_of(a)
    ELSE IF Fresh(a) THEN latency[a].ms ELSE Max(Millis) + 1

\* M: an equal one moves down too.
M_Before(x, y) == Key(x) <= Key(y)

\* What sort_by_key compares.
Before(x, y) == Key(x) < Key(y)

-----------------------------------------------------------------------------
(* order_backends.                                                           *)

\* The counter is a signed integer of Width bits.
Wrapped(c) == ((c + 2^(Width - 1)) % 2^Width) - 2^(Width - 1)

\* M: the remainder of the absolute value.
M_Start(n) == (IF counter < 0 THEN -counter ELSE counter) % n

\* rem_euclid
Start(n) == counter % n

Rotated(list, s) == SubSeq(list, s + 1, Len(list)) \o SubSeq(list, 1, s)

Sorts == strategy \in {"least-connections", "lowest-latency"} /\ Size > 1

\* A login or a status ping has resolved its backends and puts them in order.
Dispatch(t, host) ==
    LET b == Resolved(host)
        Ordered(list) == [Idle EXCEPT !.pc = "dial", !.resolved = b, !.list = list]
    IN  /\ task[t].pc = "idle"
        /\ Matched(host) = route /\ Captures[route, host] # Panic
        /\ \/ /\ strategy = "sequential" \/ Size <= 1
              /\ task' = [task EXCEPT ![t] = Ordered(b)]
              /\ UNCHANGED <<counter, starts>>
           \/ /\ strategy = "random" /\ Size > 1
              /\ \E p \in Bijection(1..Size, 1..Size) :
                   task' = [task EXCEPT ![t] = Ordered([i \in 1..Size |-> b[p[i]]])]
              /\ UNCHANGED <<counter, starts>>
           \/ /\ strategy = "round-robin" /\ Size > 1
              /\ task' = [task EXCEPT ![t] = Ordered(Rotated(b, Start(Size)))]
              /\ counter' = Wrapped(counter + 1)
              /\ starts' = IF counter' < counter THEN [s \in DOMAIN starts |-> 0]
                           ELSE [starts EXCEPT ![Start(Size)] = @ + 1]
           \/ /\ Sorts
              /\ task' = [task EXCEPT ![t] = [Ordered(b) EXCEPT !.pc = "sort", !.i = 2, !.j = 2]]
              /\ UNCHANGED <<counter, starts>>
        /\ UNCHANGED <<route, strategy, now, active, latency>>

\* One comparison of the insertion sort: the element at j moves down or stays.
Compare(t) ==
    LET k == task[t]
        x == k.list[k.j]
        y == k.list[k.j - 1]
        down == Before(x, y)
        next == IF down /\ k.j > 2
                  THEN [k EXCEPT !.list = [@ EXCEPT ![k.j] = y, ![k.j - 1] = x], !.j = @ - 1]
                  ELSE [k EXCEPT !.list = IF down THEN [@ EXCEPT ![k.j] = y, ![k.j - 1] = x] ELSE @,
                                 !.i = @ + 1, !.j = k.i + 1,
                                 !.pc = IF k.i = Len(k.list) THEN "dial" ELSE "sort"]
    IN  /\ k.pc = "sort"
        /\ task' = [task EXCEPT ![t] = next]
        /\ latency' = IF strategy = "lowest-latency" THEN Asked({x, y}) ELSE latency
        /\ UNCHANGED <<route, strategy, now, active, counter, starts>>

\* What the change of a count or a reading means to those who have ordered by it.
Disturb(tasks) == [u \in Tasks |-> [tasks[u] EXCEPT !.undisturbed = task[u].pc = "idle"]]

-----------------------------------------------------------------------------
(* Dials.                                                                    *)

\* The first backend takes the connection: it is counted and its latency kept.
Connect(t, ms) ==
    LET a == Head(task[t].list)
    IN  /\ task[t].pc = "dial"
        /\ active' = Opened(a)
        /\ latency' = Measured(a, ms)
        /\ task' = Disturb([task EXCEPT ![t] = [Idle EXCEPT !.pc = "open", !.list = <<a>>]])
        /\ UNCHANGED <<route, strategy, now, counter, starts>>

\* A status ping's dial only leaves its latency.
Ping(t, ms) ==
    /\ task[t].pc = "dial"
    /\ latency' = Measured(Head(task[t].list), ms)
    /\ task' = Disturb([task EXCEPT ![t] = Idle])
    /\ UNCHANGED <<route, strategy, now, active, counter, starts>>

\* It does not: the next one is tried, and after the last the player is kicked.
Failover(t) ==
    LET rest == Tail(task[t].list)
    IN  /\ task[t].pc = "dial"
        /\ task' = [task EXCEPT ![t] = IF rest = <<>> THEN Idle
                                       ELSE [@ EXCEPT !.list = rest, !.undisturbed = FALSE]]
        /\ UNCHANGED <<route, strategy, now, active, latency, counter, starts>>

\* A status answer is in the cache: no dial, no reading.
FromCache(t) ==
    /\ task[t].pc = "dial"
    /\ task' = [task EXCEPT ![t] = Idle]
    /\ UNCHANGED <<route, strategy, now, active, latency, counter, starts>>

Disconnect(t) ==
    /\ task[t].pc = "open"
    /\ active' = Closed(task[t].list[1])
    /\ task' = Disturb([task EXCEPT ![t] = Idle])
    /\ UNCHANGED <<route, strategy, now, latency, counter, starts>>

Tick ==
    /\ now < MaxTime
    /\ now' = now + 1
    /\ task' = Disturb(task)
    /\ UNCHANGED <<route, strategy, active, latency, counter, starts>>

Next ==
    \/ \E t \in Tasks, h \in Hosts : Dispatch(t, h)
    \/ \E t \in Tasks : Compare(t) \/ Failover(t) \/ FromCache(t) \/ Disconnect(t)
    \/ \E t \in Tasks, ms \in Millis : Connect(t, ms) \/ Ping(t, ms)
    \/ Tick

Spec == Init /\ [][Next]_vars

-----------------------------------------------------------------------------
TypeOK ==
    /\ now \in 0..MaxTime
    /\ \A a \in DOMAIN active : active[a] \in 1..Cardinality(Tasks)
    /\ \A a \in DOMAIN latency : latency[a].ms \in Millis /\ latency[a].at \in 0..now
    /\ counter \in -(2^(Width - 1))..2^(Width - 1) - 1

\* "caller should try each in order until one connects": whatever other connections
\* open, close or measure during a sort, every backend stays in the order once, and
\* one who fails over tries each; and unless something was changed meanwhile, the
\* backends with fewer open connections, or a lower latency of the last LatencyTtl,
\* come first, those without a reading last, equal ones as configured.
OrderSound ==
    \A t \in Tasks :
        LET k == task[t]
            Open(a) == Cardinality({u \in Tasks : task[u].pc = "open" /\ task[u].list[1] = a})
            Rank(a) == IF strategy = "least-connections" THEN Open(a)
                       ELSE IF Fresh(a) THEN latency[a].ms ELSE Max(Millis) + 1
            At(a) == CHOOSE i \in 1..Len(k.resolved) : k.resolved[i] = a
        IN  /\ k.pc = "sort" => Range(k.list) = Range(k.resolved)
            /\ k.pc = "dial" => /\ \A i, j \in 1..Len(k.list) : i # j => k.list[i] # k.list[j]
                                /\ k.undisturbed => Range(k.list) = Range(k.resolved)
            /\ k.pc = "dial" /\ Sorts /\ k.undisturbed =>
                 \A i, j \in 1..Len(k.list) : i < j =>
                   \/ Rank(k.list[i]) < Rank(k.list[j])
                   \/ Rank(k.list[i]) = Rank(k.list[j]) /\ At(k.list[i]) < At(k.list[j])

\* The rotation is even over logins and pings together: between two overflows of the
\* counter each backend comes first as often as any other, give or take one, and an
\* overflow only makes it start over.
RotationEven ==
    \A a, b \in 0..Size - 1 : starts[a] <= starts[b] + 1
=============================================================================
