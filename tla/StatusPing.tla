----------------------------- MODULE StatusPing -----------------------------
(***************************************************************************)
(* Server list pings: handle_status with its response cache and memory of  *)
(* failed backends (ping_cache.rs) and the cap on concurrent status dials  *)
(* (RouteRuntime in state.rs).  Every access to a map takes its own lock   *)
(* and is a step of its own.  The strategy's order of backends is any      *)
(* order here.                                                             *)
(***************************************************************************)
EXTENDS Integers, FiniteSets

CONSTANTS Conns,       \* status connections
          Routes,      \* routes, each with a RouteRuntime of its own
          Backends,    \* backend addresses, reached from every route
          Requests,    \* what clients ask for: [host, proto] records
          TTL,         \* cachePingTTL, negative for no caching
          FailureTTL,  \* FAILURE_TTL
          MaxDials,    \* MAX_CONCURRENT_STATUS_DIALS
          MaxPolls,    \* polls within STATUS_SLOT_WAIT
          MaxEntries,  \* MAX_ENTRIES
          MaxTime,     \* bound of the clock
          None

ASSUME StatusAssumption ==
    /\ IsFiniteSet(Conns)
    /\ TTL \in Int
    /\ {FailureTTL, MaxDials, MaxPolls, MaxEntries, MaxTime} \subseteq Nat

\* status_cache_key, and the bare key of a backend's last-known response.
ResponseKey(b, request) == <<b, request>>
LastKnownKey(b) == <<b>>

Keys == {ResponseKey(b, r) : b \in Backends, r \in Requests} \cup
        {LastKnownKey(b) : b \in Backends}

VARIABLES
    now,
    entries,    \* PingCache.entries: key to None or [resp, expires]
    downUntil,  \* PingCache.down_until, by backend
    dials,      \* status_dials_in_flight, by route and backend
    pc,
    route, request,   \* what each task serves
    left,       \* backends it has still to try
    at,         \* the one it is trying
    polls,      \* rounds of wait_for_status_slot
    got,        \* the response it fetched
    answer      \* history: the backend's response it served
cache == <<entries, downUntil>>
task == <<route, request, left, at>>
vars == <<now, cache, dials, pc, task, polls, got, answer>>

\* A response is known by the request it answers: a version-multiplexing backend
\* echoes the protocol, a forced-host one answers by host.
Init ==
    /\ now = 0
    /\ entries = [k \in Keys |-> None]
    /\ downUntil = [b \in Backends |-> None]
    /\ dials = [r \in Routes |-> [b \in Backends |-> 0]]
    /\ pc = [c \in Conns |-> "idle"]
    /\ route = [c \in Conns |-> None]
    /\ request = [c \in Conns |-> None]
    /\ left = [c \in Conns |-> {}]
    /\ at = [c \in Conns |-> None]
    /\ polls = [c \in Conns |-> 0]
    /\ got = [c \in Conns |-> None]
    /\ answer = [c \in Conns |-> None]

Goto(c, label) == pc' = [pc EXCEPT ![c] = label]

-----------------------------------------------------------------------------
(* PingCache.                                                                *)

Expired(k) == entries[k] # None /\ now > entries[k].expires

Hit(k) == entries[k] # None /\ ~Expired(k)

\* get: an expired entry is removed on the way.
Get(k) == entries' = IF Expired(k) THEN [entries EXCEPT ![k] = None] ELSE entries

\* evict_overflow: past the backstop, the soonest to expire go, down to 90%.
Bounded(tab) ==
    LET live == {k \in Keys : tab[k] # None}
        over == Cardinality(live) - (MaxEntries * 9) \div 10
    IN  IF Cardinality(live) <= MaxEntries THEN {tab}
        ELSE {[k \in Keys |-> IF k \in gone THEN None ELSE tab[k]] :
                gone \in {g \in SUBSET live :
                            /\ Cardinality(g) = over
                            /\ \A k \in g, j \in live \ g : tab[k].expires <= tab[j].expires}}

\* The second half of put: nothing is stored under a negative TTL.
Put(k, resp) ==
    IF TTL < 0 THEN entries' = entries
    ELSE entries' \in Bounded([entries EXCEPT ![k] = [resp |-> resp, expires |-> now + TTL]])

KnownDown(b) == downUntil[b] # None /\ now <= downUntil[b]

-----------------------------------------------------------------------------
(* handle_status.                                                            *)

\* A status request is read and the route's backends are resolved.
Begin(c, r, q) ==
    /\ pc[c] = "idle"
    /\ Goto(c, "next")
    /\ route' = [route EXCEPT ![c] = r]
    /\ request' = [request EXCEPT ![c] = q]
    /\ left' = [left EXCEPT ![c] = Backends]
    /\ UNCHANGED <<now, cache, dials, at, polls, got, answer>>

Serve(c, resp) ==
    /\ answer' = [answer EXCEPT ![c] = resp]
    /\ Goto(c, "served")

\* The next backend: is its response to this very request cached?
TryBackend(c, b) ==
    LET k == ResponseKey(b, request[c])
    IN  /\ pc[c] = "next"
        /\ b \in left[c]
        /\ at' = [at EXCEPT ![c] = b]
        /\ left' = [left EXCEPT ![c] = @ \ {b}]
        /\ Get(k)
        /\ IF Hit(k) THEN Serve(c, entries[k].resp)
                     ELSE Goto(c, "down") /\ UNCHANGED answer
        /\ UNCHANGED <<now, downUntil, dials, route, request, polls, got>>

\* is_known_down
CheckDown(c) ==
    LET b == at[c]
    IN  /\ pc[c] = "down"
        /\ downUntil' = IF KnownDown(b) THEN downUntil ELSE [downUntil EXCEPT ![b] = None]
        /\ Goto(c, IF KnownDown(b) THEN "next" ELSE "dial")
        /\ UNCHANGED <<now, entries, dials, task, polls, got, answer>>

\* try_begin_status_dial, going on to fetch or to `full`.
SlotFree(r, b) == dials[r][b] + 1 <= MaxDials

BeginDial(c, full) ==
    IF SlotFree(route[c], at[c])
      THEN /\ dials' = [dials EXCEPT ![route[c]][at[c]] = @ + 1]
           /\ Goto(c, "fetch")
      ELSE dials' = dials /\ Goto(c, full)

TryDial(c) ==
    /\ pc[c] = "dial"
    /\ BeginDial(c, "lastKnown")
    /\ UNCHANGED <<now, cache, task, polls, got, answer>>

\* M: the last-known response is served whatever protocol it was answered for.
M_Usable(c, resp) == TRUE

\* status_protocol of the last-known response is the client's.
Usable(c, resp) == resp.proto = request[c].proto

\* At the dial cap: the backend's last-known response, if it is usable.
TryLastKnown(c) ==
    LET k == LastKnownKey(at[c])
    IN  /\ pc[c] = "lastKnown"
        /\ Get(k)
        /\ IF Hit(k) /\ Usable(c, entries[k].resp)
             THEN Serve(c, entries[k].resp)
             ELSE Goto(c, "wait") /\ UNCHANGED answer
        /\ polls' = [polls EXCEPT ![c] = 0]
        /\ UNCHANGED <<now, downUntil, dials, task, got>>

\* wait_for_status_slot: every 50 ms first the cache, then the slots.
PollCache(c) ==
    LET k == ResponseKey(at[c], request[c])
    IN  /\ pc[c] = "wait"
        /\ polls[c] < MaxPolls
        /\ polls' = [polls EXCEPT ![c] = @ + 1]
        /\ Get(k)
        /\ IF Hit(k) THEN Serve(c, entries[k].resp)
                     ELSE Goto(c, "poll") /\ UNCHANGED answer
        /\ UNCHANGED <<now, downUntil, dials, task, got>>

PollSlot(c) ==
    /\ pc[c] = "poll"
    /\ BeginDial(c, "wait")
    /\ UNCHANGED <<now, cache, task, polls, got, answer>>

\* M: the wait starts over instead of failing over.
M_WaitTimesOut(c) ==
    /\ pc[c] = "wait"
    /\ polls[c] = MaxPolls
    /\ polls' = [polls EXCEPT ![c] = 0]
    /\ UNCHANGED <<now, cache, dials, pc, task, got, answer>>

WaitTimesOut(c) ==
    /\ pc[c] = "wait"
    /\ polls[c] = MaxPolls
    /\ Goto(c, "next")
    /\ UNCHANGED <<now, cache, dials, task, polls, got, answer>>

\* fetch_backend_status: a response to the handshake sent, which carries the client's
\* host and protocol version, or none (refused, timed out, cut off, not valid).
Fetched(c) == {request[c], None}

\* M: a failed dial keeps its slot.
M_FetchEnds(c, resp) ==
    /\ pc[c] = "fetch"
    /\ dials' = IF resp = None THEN dials ELSE [dials EXCEPT ![route[c]][at[c]] = @ - 1]
    /\ got' = [got EXCEPT ![c] = resp]
    /\ Goto(c, IF resp = None THEN "failed" ELSE "store")
    /\ UNCHANGED <<now, cache, task, polls, answer>>

\* fetch_backend_status answers or fails, and end_status_dial gives the slot back.
FetchEnds(c, resp) ==
    /\ pc[c] = "fetch"
    /\ dials' = [dials EXCEPT ![route[c]][at[c]] = @ - 1]
    /\ got' = [got EXCEPT ![c] = resp]
    /\ Goto(c, IF resp = None THEN "failed" ELSE "store")
    /\ UNCHANGED <<now, cache, task, polls, answer>>

\* put under the response key (which is never marked down) ...
StoreResponse(c) ==
    /\ pc[c] = "store"
    /\ Put(ResponseKey(at[c], request[c]), got[c])
    /\ Goto(c, "clear")
    /\ UNCHANGED <<now, downUntil, dials, task, polls, got, answer>>

\* ... and under the backend's key: first the down mark, then the entry.
ClearDown(c) ==
    /\ pc[c] = "clear"
    /\ downUntil' = [downUntil EXCEPT ![at[c]] = None]
    /\ Goto(c, "last")
    /\ UNCHANGED <<now, entries, dials, task, polls, got, answer>>

StoreLastKnown(c) ==
    /\ pc[c] = "last"
    /\ Put(LastKnownKey(at[c]), got[c])
    /\ Serve(c, got[c])
    /\ UNCHANGED <<now, downUntil, dials, task, polls, got>>

MarkDown(c) ==
    /\ pc[c] = "failed"
    /\ downUntil' = [downUntil EXCEPT ![at[c]] = now + FailureTTL]
    /\ Goto(c, "next")
    /\ UNCHANGED <<now, entries, dials, task, polls, got, answer>>

\* Every backend failed: the route's fallback status, if it has one, or nothing.
GiveUp(c) ==
    /\ pc[c] = "next"
    /\ left[c] = {}
    /\ Goto(c, "served")
    /\ UNCHANGED <<now, cache, dials, task, polls, got, answer>>

\* handle_ping answers the ping, if it comes, and the task returns.
End(c) ==
    /\ pc[c] = "served"
    /\ Goto(c, "idle")
    /\ route' = [route EXCEPT ![c] = None]
    /\ request' = [request EXCEPT ![c] = None]
    /\ left' = [left EXCEPT ![c] = {}]
    /\ at' = [at EXCEPT ![c] = None]
    /\ polls' = [polls EXCEPT ![c] = 0]
    /\ got' = [got EXCEPT ![c] = None]
    /\ answer' = [answer EXCEPT ![c] = None]
    /\ UNCHANGED <<now, cache, dials>>

-----------------------------------------------------------------------------
Sweep ==
    /\ entries' = [k \in Keys |-> IF Expired(k) THEN None ELSE entries[k]]
    /\ downUntil' = [b \in Backends |-> IF KnownDown(b) THEN downUntil[b] ELSE None]
    /\ UNCHANGED <<now, dials, pc, task, polls, got, answer>>

Tick ==
    /\ now < MaxTime
    /\ now' = now + 1
    /\ UNCHANGED <<cache, dials, pc, task, polls, got, answer>>

Step(c) ==
    \/ \E b \in Backends : TryBackend(c, b)
    \/ CheckDown(c) \/ TryDial(c) \/ TryLastKnown(c)
    \/ PollCache(c) \/ PollSlot(c) \/ WaitTimesOut(c)
    \/ \E resp \in Fetched(c) : FetchEnds(c, resp)
    \/ StoreResponse(c) \/ ClearDown(c) \/ StoreLastKnown(c) \/ MarkDown(c)
    \/ GiveUp(c) \/ End(c)

Next ==
    \/ \E c \in Conns : Step(c) \/ \E r \in Routes, q \in Requests : Begin(c, r, q)
    \/ Sweep \/ Tick

Spec == Init /\ [][Next]_vars

-----------------------------------------------------------------------------
\* Types, and the two bounds: the dial cap and the cache's backstop, however pings
\* interleave.
TypeOK ==
    /\ now \in Nat
    /\ Cardinality({k \in Keys : entries[k] # None}) <= MaxEntries
    /\ entries \in [Keys -> [resp : Requests, expires : Nat] \cup {None}]
    /\ downUntil \in [Backends -> Nat \cup {None}]
    /\ dials \in [Routes -> [Backends -> 0 .. MaxDials]]
    /\ pc \in [Conns -> {"idle", "next", "down", "dial", "lastKnown", "wait", "poll",
                         "fetch", "store", "clear", "last", "failed", "served"}]
    /\ route \in [Conns -> Routes \cup {None}]
    /\ request \in [Conns -> Requests \cup {None}]
    /\ left \in [Conns -> SUBSET Backends]
    /\ at \in [Conns -> Backends \cup {None}]
    /\ polls \in [Conns -> 0 .. MaxPolls]
    /\ got \in [Conns -> Requests \cup {None}]
    /\ answer \in [Conns -> Requests \cup {None}]

Dialing(r, b) == {c \in Conns : pc[c] = "fetch" /\ route[c] = r /\ at[c] = b}

\* The dial slots of a route's backend are those of the dials in flight: a slot
\* taken after a wait, and that of a failed dial, come back once.
DialsCounted ==
    \A r \in Routes, b \in Backends : dials[r][b] = Cardinality(Dialing(r, b))

\* A client is never shown a status answered for another protocol version, and one
\* answered for another host only where the dial cap made it take the last-known
\* one ("other versions then saw an 'incompatible' red version string").
AnsweredForProtocol ==
    \A c \in Conns : pc[c] = "served" /\ answer[c] # None =>
      answer[c].proto = request[c].proto

\* Every status request comes to its answer, the fallback or nothing to say, even with the
\* dial cap reached, other clients pinging on and every backend silent.  (Writing it to
\* the client has no timeout: a client that does not read is not waited for here.)
PingsAnswered == \A c \in Conns : pc[c] # "idle" ~> pc[c] \in {"served", "idle"}
=============================================================================
