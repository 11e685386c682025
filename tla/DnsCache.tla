------------------------------ MODULE DnsCache ------------------------------
(***************************************************************************)
(* The cache of backend host names (net/dns_cache.rs): callers that        *)
(* resolve, background refreshes and warm-ups, each of which awaits a      *)
(* lookup and then takes the cache's mutex, and the idle sweep.  IP        *)
(* literals never reach the cache and are left out; of an answer only      *)
(* whether it is an address is kept.                                       *)
(***************************************************************************)
EXTENDS Integers, FiniteSets

CONSTANTS Keys,         \* host:port
          Tasks,        \* tasks that resolve, refresh or warm at the same time
          Ttl,          \* CACHE_TTL
          NegativeTtl,  \* NEGATIVE_TTL
          IdleEvict,    \* ENTRY_IDLE_EVICT
          MaxEntries,   \* MAX_CACHE_ENTRIES
          LookupMax,    \* the longest the resolver takes to answer or give up
          MaxTime,      \* bound on the clock
          None

VARIABLES
    now,         \* the clock
    cache,       \* per key, None or [ok, exp]
    refreshing,  \* keys marked as being refreshed
    task,        \* per task: [pc, as, key, since]
    sweep,       \* the sweep between its locks: None or the keys it kept
    cleared      \* history: keys the sweep took the mark of
vars == <<now, cache, refreshing, task, sweep, cleared>>

Idle == [pc |-> "idle", as |-> None, key |-> None, since |-> 0]

Init ==
    /\ now = 0
    /\ cache = [k \in Keys |-> None]
    /\ refreshing = {}
    /\ task = [t \in Tasks |-> Idle]
    /\ sweep = None
    /\ cleared = {}

Cached == {k \in Keys : cache[k] # None}
Expired(k) == now >= cache[k].exp

LookUp(t, as, k) ==
    task' = [task EXCEPT ![t] = [pc |-> "lookup", as |-> as, key |-> k, since |-> now]]

-----------------------------------------------------------------------------
\* resolve: what is cached is returned, whether an address or a failure, and if it is
\* stale refreshed too; only an unknown host is looked up by the caller.  (A fresh
\* entry changes nothing and is no step.)
Resolve(t, k) ==
    /\ task[t].pc = "idle"
    /\ IF cache[k] = None
         THEN LookUp(t, "resolve", k)
         ELSE /\ Expired(k)
              /\ task' = [task EXCEPT ![t] = [pc |-> "stale", as |-> "resolve", key |-> k,
                                              since |-> now]]
    /\ UNCHANGED <<now, cache, refreshing, sweep, cleared>>

\* refresh_async: one refresh of a key at a time; the spawned task takes over from the
\* caller, which returns.
RefreshAsync(t) ==
    LET k == task[t].key
    IN  /\ task[t].pc = "stale"
        /\ refreshing' = refreshing \cup {k}
        /\ IF k \in refreshing THEN task' = [task EXCEPT ![t] = Idle] ELSE LookUp(t, "refresh", k)
        /\ UNCHANGED <<now, cache, sweep, cleared>>

Warm(t, k) ==
    /\ task[t].pc = "idle"
    /\ LookUp(t, "warm", k)
    /\ UNCHANGED <<now, cache, refreshing, sweep, cleared>>

\* M: the cap is off by one.
M_HasRoom == Cardinality(Cached) <= MaxEntries

HasRoom == Cardinality(Cached) < MaxEntries

\* M: every lookup's failure is cached.
M_Stores(as, ok) == TRUE

\* A failure is cached only for the caller of an unknown host.
Stores(as, ok) == ok \/ as = "resolve"

\* A lookup has answered: its result is cached if there is room.
Answered(t, ok) ==
    LET k == task[t].key
        ttl == IF ok THEN Ttl ELSE NegativeTtl
    IN  /\ task[t].pc = "lookup"
        /\ cache' = IF HasRoom /\ Stores(task[t].as, ok)
                      THEN [cache EXCEPT ![k] = [ok |-> ok, exp |-> now + ttl]]
                      ELSE cache
        /\ task' = [task EXCEPT ![t] = IF task[t].as = "refresh"
                                         THEN [Idle EXCEPT !.pc = "unmark", !.key = k]
                                         ELSE Idle]
        /\ UNCHANGED <<now, refreshing, sweep, cleared>>

\* M: the mark stays.
M_Unmark(t) ==
    /\ task[t].pc = "unmark"
    /\ task' = [task EXCEPT ![t] = Idle]
    /\ UNCHANGED <<now, cache, refreshing, sweep, cleared>>

\* The end of a refresh, successful or not.
Unmark(t) ==
    /\ task[t].pc = "unmark"
    /\ refreshing' = refreshing \ {task[t].key}
    /\ task' = [task EXCEPT ![t] = Idle]
    /\ UNCHANGED <<now, cache, sweep, cleared>>

Kept(k) == cache[k].exp >= now - IdleEvict

\* evict_idle_entries: the entries first, then, under the other mutex, the marks.
Evict ==
    /\ sweep = None
    /\ sweep' = {k \in Cached : Kept(k)}
    /\ cache' = [k \in Keys |-> IF k \in sweep' THEN cache[k] ELSE None]
    /\ UNCHANGED <<now, refreshing, task, cleared>>

EvictMarks ==
    /\ sweep # None
    /\ refreshing' = refreshing \cap sweep
    /\ cleared' = cleared \cup (refreshing \ sweep)
    /\ sweep' = None
    /\ UNCHANGED <<now, cache, task>>

\* Time passes; only a lookup keeps anybody waiting, and no longer than LookupMax.
Tick ==
    /\ now < MaxTime
    /\ sweep = None
    /\ \A t \in Tasks : task[t].pc \in {"idle", "lookup"}
    /\ \A t \in Tasks : task[t].pc = "lookup" => now - task[t].since < LookupMax
    /\ now' = now + 1
    /\ UNCHANGED <<cache, refreshing, task, sweep, cleared>>

Next ==
    \/ \E t \in Tasks, k \in Keys : Resolve(t, k) \/ Warm(t, k)
    \/ \E t \in Tasks : RefreshAsync(t) \/ Unmark(t)
    \/ \E t \in Tasks, ok \in BOOLEAN : Answered(t, ok)
    \/ Evict \/ EvictMarks
    \/ Tick

Spec == Init /\ [][Next]_vars

-----------------------------------------------------------------------------
\* Types, and the size cap: at most MAX_CACHE_ENTRIES hosts, however many lookups for
\* new hosts end at the same time.
TypeOK ==
    /\ now \in 0 .. MaxTime
    /\ \A k \in Cached : cache[k] \in [ok : BOOLEAN, exp : Nat]
    /\ Cardinality(Cached) <= MaxEntries
    /\ refreshing \subseteq Keys
    /\ \A t \in Tasks : task[t].pc \in {"idle", "stale", "lookup", "unmark"}

Refreshes(k) == {t \in Tasks : task[t].key = k
                    /\ (task[t].pc = "unmark" \/ (task[t].pc = "lookup" /\ task[t].as = "refresh"))}

\* A mark in `refreshing` has a refresh behind it that will remove it, so that no host
\* stays marked, and its entry stale, for ever; and a host has at most one refresh in
\* flight ("a refresh for this key is already in flight"), unless the sweep took the
\* mark of a running one.
MarksAreRefreshes ==
    /\ \A k \in refreshing : Refreshes(k) # {}
    /\ \A k \in Keys \ cleared : Cardinality(Refreshes(k)) <= 1

\* A good entry that has not expired stays: a failed refresh or warm-up, or the sweep,
\* never costs it, and it only gets younger.  Only the caller of a then unknown host,
\* whose lookup fails late, replaces it.
FreshKept ==
    \A k \in Keys : cache[k] # None /\ cache[k].ok /\ ~Expired(k)
      => \/ cache'[k] # None /\ cache'[k].ok /\ cache'[k].exp >= cache[k].exp
         \/ \E t \in Tasks : Answered(t, FALSE) /\ task[t].as = "resolve"

\* FreshKept is true of every step.
FreshStays == [][FreshKept]_vars
=============================================================================
