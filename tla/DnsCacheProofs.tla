--------------------------- MODULE DnsCacheProofs ---------------------------
(***************************************************************************)
(* Proofs about DnsCache, for any host names, any number of tasks and any  *)
(* times to live.                                                          *)
(***************************************************************************)
EXTENDS DnsCache, FiniteSetTheorems, TLAPS

Entries == [ok : BOOLEAN, exp : Nat]

\* What the constants are.
DnsConstants ==
    /\ Ttl \in Nat /\ NegativeTtl \in Nat /\ IdleEvict \in Nat
    /\ MaxEntries \in Nat /\ MaxTime \in Nat
    /\ IsFiniteSet(Keys) /\ None \notin Entries

-----------------------------------------------------------------------------
(* The inductive invariant.                                                  *)

Lookups ==
    [pc : {"idle", "stale", "lookup", "unmark"}, as : {"resolve", "refresh", "warm", None},
     key : Keys \cup {None}, since : Nat]

\* Types; a task at work has a host.
Typed ==
    /\ now \in 0 .. MaxTime
    /\ cache \in [Keys -> Entries \cup {None}]
    /\ refreshing \subseteq Keys
    /\ task \in [Tasks -> Lookups]
    /\ \A t \in Tasks : task[t].pc # "idle" => task[t].key \in Keys

Capped == Cardinality(Cached) <= MaxEntries

\* No address outlives the one a lookup would bring now.
Young == \A k \in Keys : cache[k] # None /\ cache[k].ok => cache[k].exp <= now + Ttl

\* Every mark has a refresh.  Unless the sweep has taken its mark, a refresh has one,
\* and is the only one of its host.
Marked ==
    /\ \A k \in refreshing : \E t \in Tasks : t \in Refreshes(k)
    /\ \A k \in Keys \ cleared : \A t \in Refreshes(k) :
         k \in refreshing /\ \A u \in Refreshes(k) : u = t

IInv == Typed /\ Capped /\ Young /\ Marked

-----------------------------------------------------------------------------
(* What a step does to a task and to an entry.                               *)

TaskBecomes(t, pc, as, k) ==
    /\ task' \in [Tasks -> Lookups]
    /\ task'[t].pc = pc /\ task'[t].as = as /\ task'[t].key = k
    /\ \A u \in Tasks : u # t => task'[u] = task[u]

\* A task is done, looks a host up, finds a stale entry, or has a mark to remove.
LEMMA TaskEffects ==
    ASSUME DnsConstants, Typed, NEW t \in Tasks
    PROVE  /\ task' = [task EXCEPT ![t] = Idle] => TaskBecomes(t, "idle", None, None)
           /\ \A as \in {"resolve", "refresh", "warm"}, k \in Keys :
                LookUp(t, as, k) => TaskBecomes(t, "lookup", as, k)
           /\ \A k \in Keys :
                task' = [task EXCEPT ![t] = [pc |-> "stale", as |-> "resolve", key |-> k,
                                             since |-> now]] =>
                  TaskBecomes(t, "stale", "resolve", k)
           /\ \A k \in Keys :
                task' = [task EXCEPT ![t] = [Idle EXCEPT !.pc = "unmark", !.key = k]] =>
                  TaskBecomes(t, "unmark", None, k)
<1>1. task \in [Tasks -> Lookups] /\ now \in Nat
  BY DEF Typed, DnsConstants
<1>2. ASSUME NEW k \in Keys
      PROVE  [Idle EXCEPT !.pc = "unmark", !.key = k] =
               [pc |-> "unmark", as |-> None, key |-> k, since |-> 0]
  <2>1. [Idle EXCEPT !.pc = "unmark", !.key = k] =
          [[Idle EXCEPT !.pc = "unmark"] EXCEPT !.key = k]
    OBVIOUS
  <2>2. [Idle EXCEPT !.pc = "unmark"] =
          [pc |-> "unmark", as |-> None, key |-> None, since |-> 0]
    BY DEF Idle
  <2>3. [[pc |-> "unmark", as |-> None, key |-> None, since |-> 0] EXCEPT !.key = k] =
          [pc |-> "unmark", as |-> None, key |-> k, since |-> 0]
    OBVIOUS
  <2> QED BY <2>1, <2>2, <2>3, Zenon
<1>3. ASSUME NEW pc \in {"idle", "stale", "lookup", "unmark"},
             NEW as \in {"resolve", "refresh", "warm", None}, NEW k \in Keys \cup {None},
             NEW since \in Nat,
             task' = [task EXCEPT ![t] = [pc |-> pc, as |-> as, key |-> k, since |-> since]]
      PROVE  TaskBecomes(t, pc, as, k)
  BY <1>1, <1>3, Zenon DEF TaskBecomes, Lookups
<1> QED BY <1>1, <1>2, <1>3, Zenon DEF Idle, LookUp

\* The tasks that have a mark to remove are those that refresh.
Refreshing(t, k) ==
    task[t].key = k /\ (task[t].pc = "unmark" \/ (task[t].pc = "lookup" /\ task[t].as = "refresh"))

\* A task is among a key's refreshes exactly when it runs one for that key.
LEMMA RefreshesAre == \A t \in Tasks, k \in Keys : t \in Refreshes(k) <=> Refreshing(t, k)
  BY DEF Refreshes, Refreshing

\* Marks are sound for as long as tasks and marks stay.
LEMMA MarkedFrame ==
    ASSUME Typed, Marked, UNCHANGED <<refreshing, task, cleared>>
    PROVE  Marked'
<1>1. \A k \in Keys : Refreshes(k)' = Refreshes(k)
  BY Zenon DEF Refreshes
<1> QED BY <1>1 DEF Typed, Marked

-----------------------------------------------------------------------------
(* Every step keeps the invariant.                                           *)

\* A task finds a host unknown or stale, or warms it: no refresh yet.
LEMMA BeginStep ==
    ASSUME DnsConstants, IInv, NEW t \in Tasks, NEW k \in Keys, Resolve(t, k) \/ Warm(t, k)
    PROVE  IInv'
<1>1. /\ task[t].pc = "idle" /\ UNCHANGED <<now, cache, refreshing, sweep, cleared>>
      /\ \/ TaskBecomes(t, "lookup", "resolve", k)
         \/ TaskBecomes(t, "lookup", "warm", k)
         \/ TaskBecomes(t, "stale", "resolve", k)
  BY TaskEffects, Zenon DEF Resolve, Warm, IInv
<1>2. Typed'
  BY <1>1 DEF IInv, Typed, TaskBecomes
<1>3. \A u \in Tasks, j \in Keys : Refreshing(u, j)' <=> Refreshing(u, j)
  BY <1>1 DEF TaskBecomes, Refreshing
<1>4. \A j \in Keys : Refreshes(j)' = Refreshes(j)
  BY <1>3 DEF Refreshes, Refreshing
<1>5. Marked'
  BY <1>1, <1>4 DEF IInv, Typed, Marked
<1> QED BY <1>1, <1>2, <1>5 DEF IInv, Capped, Cached, Young

\* A refresh begins where the mark is not set, and sets it.
LEMMA RefreshAsyncStep ==
    ASSUME DnsConstants, IInv, NEW t \in Tasks, RefreshAsync(t)
    PROVE  IInv'
<1> DEFINE k == task[t].key
<1>1. /\ task[t].pc = "stale" /\ k \in Keys /\ UNCHANGED <<now, cache, sweep, cleared>>
      /\ refreshing' = refreshing \cup {k} /\ refreshing \subseteq Keys
      /\ \/ k \in refreshing /\ TaskBecomes(t, "idle", None, None)
         \/ k \notin refreshing /\ TaskBecomes(t, "lookup", "refresh", k)
  BY TaskEffects, Zenon DEF RefreshAsync, IInv, Typed
<1>2. Typed'
  BY <1>1 DEF IInv, Typed, TaskBecomes
<1>3. \A u \in Tasks, j \in Keys :
        Refreshing(u, j)' <=> Refreshing(u, j) \/ (u = t /\ j = k /\ k \notin refreshing)
  BY <1>1 DEF TaskBecomes, Refreshing
<1>4. Marked'
  <2>1. \A u \in Tasks, j \in Keys : u \in Refreshes(j)' <=> Refreshing(u, j)'
    BY DEF Refreshes, Refreshing
  <2>2. \A j \in Keys : Refreshes(j) \subseteq Tasks /\ Refreshes(j)' \subseteq Tasks
    BY DEF Refreshes
  <2>3. \A j \in Keys \ cleared : j \notin refreshing => \A u \in Tasks : ~Refreshing(u, j)
    BY RefreshesAre DEF IInv, Marked
  <2>4. \A j \in refreshing' : \E u \in Tasks : u \in Refreshes(j)'
    BY <1>1, <1>3, <2>1, RefreshesAre DEF IInv, Marked
  <2>5. ASSUME NEW j \in Keys \ cleared, NEW u \in Refreshes(j)'
        PROVE  j \in refreshing' /\ \A v \in Refreshes(j)' : v = u
    BY <1>1, <1>3, <2>1, <2>2, <2>3, <2>5, RefreshesAre DEF IInv, Marked
  <2> QED BY <1>1, <2>4, <2>5 DEF Marked
<1> QED BY <1>1, <1>2, <1>4 DEF IInv, Capped, Cached, Young

\* A refresh that ends removes the mark, whoever set it.
LEMMA UnmarkStep ==
    ASSUME DnsConstants, IInv, NEW t \in Tasks, Unmark(t)
    PROVE  IInv'
<1> DEFINE k == task[t].key
<1>1. /\ task[t].pc = "unmark" /\ k \in Keys /\ UNCHANGED <<now, cache, sweep, cleared>>
      /\ refreshing' = refreshing \ {k} /\ refreshing \subseteq Keys
      /\ TaskBecomes(t, "idle", None, None)
  BY TaskEffects, Zenon DEF Unmark, IInv, Typed
<1>2. Typed'
  BY <1>1 DEF IInv, Typed, TaskBecomes
<1>3. /\ Refreshing(t, k)
      /\ \A u \in Tasks, j \in Keys : Refreshing(u, j)' <=> Refreshing(u, j) /\ u # t
  BY <1>1 DEF TaskBecomes, Refreshing
<1>4. Marked'
  <2>1. \A u \in Tasks, j \in Keys : u \in Refreshes(j)' <=> Refreshing(u, j)'
    BY DEF Refreshes, Refreshing
  <2>2. \A j \in Keys : Refreshes(j) \subseteq Tasks /\ Refreshes(j)' \subseteq Tasks
    BY DEF Refreshes
  <2>3. \A j \in Keys : Refreshing(t, j) => j = k
    BY DEF Refreshing
  <2>4. \A j \in refreshing' : \E u \in Tasks : u \in Refreshes(j)'
    BY <1>1, <1>3, <2>1, <2>3, RefreshesAre DEF IInv, Marked
  <2>5. ASSUME NEW j \in Keys \ cleared, NEW u \in Refreshes(j)'
        PROVE  j \in refreshing' /\ \A v \in Refreshes(j)' : v = u
    BY <1>1, <1>3, <2>1, <2>2, <2>5, RefreshesAre DEF IInv, Marked
  <2> QED BY <1>1, <2>4, <2>5 DEF Marked
<1> QED BY <1>1, <1>2, <1>4 DEF IInv, Capped, Cached, Young

\* An answer is cached only where there is room, and a refresh stays one until its mark
\* is gone.
LEMMA AnsweredStep ==
    ASSUME DnsConstants, IInv, NEW t \in Tasks, NEW ok \in BOOLEAN, Answered(t, ok)
    PROVE  IInv'
<1> DEFINE k == task[t].key
           ttl == IF ok THEN Ttl ELSE NegativeTtl
<1>1. /\ task[t].pc = "lookup" /\ k \in Keys /\ UNCHANGED <<now, refreshing, sweep, cleared>>
      /\ \/ task[t].as = "refresh" /\ TaskBecomes(t, "unmark", None, k)
         \/ task[t].as # "refresh" /\ TaskBecomes(t, "idle", None, None)
  BY TaskEffects, Zenon DEF Answered, IInv, Typed
<1>2. /\ [ok |-> ok, exp |-> now + ttl] \in Entries /\ now \in Nat /\ Ttl \in Nat
      /\ cache \in [Keys -> Entries \cup {None}]
  BY DEF IInv, Typed, DnsConstants, Entries
<1>3. \/ cache' = cache
      \/ HasRoom /\ cache' = [cache EXCEPT ![k] = [ok |-> ok, exp |-> now + ttl]]
  BY DEF Answered
<1>4. Typed'
  <2>1. cache' \in [Keys -> Entries \cup {None}]
    BY <1>1, <1>2, <1>3
  <2> QED BY <1>1, <2>1 DEF IInv, Typed, TaskBecomes
<1>5. \A u \in Tasks, j \in Keys : Refreshing(u, j)' <=> Refreshing(u, j)
  BY <1>1 DEF TaskBecomes, Refreshing
<1>6. \A j \in Keys : Refreshes(j)' = Refreshes(j)
  BY <1>5 DEF Refreshes, Refreshing
<1>7. Marked'
  BY <1>1, <1>6 DEF IInv, Typed, Marked
<1>8. Capped'
  <2>1. CASE cache' = cache
    BY <2>1 DEF IInv, Capped, Cached
  <2>2. CASE HasRoom /\ cache' = [cache EXCEPT ![k] = [ok |-> ok, exp |-> now + ttl]]
    <3>1. Cached' = Cached \cup {k}
      BY <1>1, <1>2, <2>2 DEF Cached, DnsConstants
    <3>2. IsFiniteSet(Cached)
      BY FS_Subset DEF Cached, DnsConstants
    <3>3. Cardinality(Cached \cup {k}) \in {Cardinality(Cached), Cardinality(Cached) + 1}
      BY <3>2, FS_AddElement
    <3>4. Cardinality(Cached) \in Nat
      BY <3>2, FS_CardinalityType
    <3> QED BY <2>2, <3>1, <3>3, <3>4 DEF HasRoom, Capped, DnsConstants
  <2> QED BY <1>3, <2>1, <2>2
<1>9. Young'
  <2> SUFFICES ASSUME NEW j \in Keys, cache'[j] # None, cache'[j].ok
               PROVE  cache'[j].exp <= now + Ttl
    BY <1>1 DEF Young
  <2>1. CASE cache'[j] = cache[j]
    BY <2>1 DEF IInv, Young
  <2>2. CASE cache'[j] = [ok |-> ok, exp |-> now + ttl]
    BY <1>2, <2>2
  <2> QED BY <1>2, <1>3, <2>1, <2>2
<1> QED BY <1>4, <1>7, <1>8, <1>9 DEF IInv

\* The sweep takes entries, and then the marks of hosts it did not keep.
LEMMA SweepStep ==
    ASSUME DnsConstants, IInv, Evict \/ EvictMarks
    PROVE  IInv'
<1>1. CASE Evict
  <2>1. /\ \A k \in Keys : cache'[k] = cache[k] \/ cache'[k] = None
        /\ cache' \in [Keys -> Entries \cup {None}]
        /\ UNCHANGED <<now, refreshing, task, cleared>>
    BY <1>1 DEF Evict, IInv, Typed
  <2>2. Capped'
    <3>1. Cached' \subseteq Cached
      BY <2>1 DEF Cached
    <3>2. IsFiniteSet(Cached)
      BY FS_Subset DEF Cached, DnsConstants
    <3>3. /\ Cardinality(Cached') <= Cardinality(Cached)
          /\ Cardinality(Cached') \in Nat /\ Cardinality(Cached) \in Nat
      BY <3>1, <3>2, FS_Subset, FS_CardinalityType
    <3> QED BY <3>3 DEF IInv, Capped, DnsConstants
  <2>3. Typed' /\ Young'
    BY <2>1 DEF IInv, Typed, Young
  <2>4. Marked'
    BY <2>1, MarkedFrame, Zenon DEF IInv
  <2> QED BY <2>2, <2>3, <2>4 DEF IInv
<1>2. CASE EvictMarks
  <2>1. UNCHANGED <<now, cache, task>>
    BY <1>2 DEF EvictMarks
  <2>2. \A k \in Keys : Refreshes(k)' = Refreshes(k)
    BY <2>1, Zenon DEF Refreshes
  <2>3. Typed' /\ Capped' /\ Young'
    BY <1>2, <2>1 DEF EvictMarks, IInv, Typed, Capped, Cached, Young
  <2>4. Marked'
    BY <1>2, <2>2 DEF EvictMarks, IInv, Typed, Marked
  <2> QED BY <2>3, <2>4 DEF IInv
<1> QED BY <1>1, <1>2

\* Time makes no entry younger.
LEMMA TickStep ==
    ASSUME DnsConstants, IInv, Tick
    PROVE  IInv'
<1>1. Marked' /\ Capped'
  BY MarkedFrame, Zenon DEF Tick, IInv, Capped, Cached
<1>2. Typed'
  BY DEF Tick, IInv, Typed, DnsConstants
<1>3. Young'
  BY DEF Tick, IInv, Typed, Young, Entries, DnsConstants
<1> QED BY <1>1, <1>2, <1>3 DEF IInv

-----------------------------------------------------------------------------
(* The invariant holds, and what follows from it.                            *)

\* Every step of the cache, its tasks and the clock keeps the inductive invariant.
LEMMA StepKeeps ==
    ASSUME DnsConstants, IInv, [Next]_vars
    PROVE  IInv'
<1>1. CASE UNCHANGED vars
  <2>1. Marked'
    BY <1>1, MarkedFrame, Zenon DEF vars, IInv
  <2> QED BY <1>1, <2>1, Zenon DEF vars, IInv, Typed, Capped, Cached, Young
<1> QED BY <1>1, BeginStep, RefreshAsyncStep, UnmarkStep, AnsweredStep, SweepStep, TickStep, Zenon
        DEF Next

\* The inductive invariant holds in every state.
LEMMA Inductive ==
    ASSUME DnsConstants
    PROVE  Spec => []IInv
<1>1. Init => IInv
  <2> SUFFICES ASSUME Init PROVE IInv
    OBVIOUS
  <2>1. Cached = {}
    BY DEF Init, Cached
  <2>2. Cardinality({}) = 0
    BY FS_EmptySet, Zenon
  <2>3. Typed /\ Capped /\ Young
    BY <2>1, <2>2 DEF Init, DnsConstants, Typed, Idle, Lookups, Capped, Young
  <2>4. Marked
    BY DEF Init, Idle, Marked, Refreshes
  <2> QED BY <2>3, <2>4 DEF IInv
<1>2. IInv /\ [Next]_vars => IInv'
  BY StepKeeps
<1> QED BY <1>1, <1>2, PTL DEF Spec

\* The cache's entries and marks keep their types, and their number the cap, however many
\* lookups of new hosts end at the same time.
THEOREM CacheTyped ==
    ASSUME DnsConstants
    PROVE  Spec => []TypeOK
<1>1. IInv => TypeOK
  BY DEF IInv, Typed, Capped, Cached, Entries, Lookups, TypeOK
<1> QED BY <1>1, Inductive, PTL

\* No host stays marked without a refresh that will remove the mark, and none has two
\* refreshes unless the sweep took the mark of one.
THEOREM RefreshesMarked ==
    ASSUME DnsConstants
    PROVE  Spec => []MarksAreRefreshes
<1>1. IInv => MarksAreRefreshes
  <2> SUFFICES ASSUME IInv PROVE MarksAreRefreshes
    OBVIOUS
  <2>1. \A k \in refreshing : Refreshes(k) # {}
    BY DEF IInv, Marked
  <2>2. ASSUME NEW k \in Keys \ cleared
        PROVE  Cardinality(Refreshes(k)) <= 1
    <3>1. CASE Refreshes(k) = {}
      <4>1. Cardinality({}) = 0
        BY FS_EmptySet, Zenon
      <4> QED BY <3>1, <4>1
    <3>2. CASE Refreshes(k) # {}
      <4>1. PICK t : Refreshes(k) = {t}
        BY <3>2 DEF IInv, Marked
      <4>2. Cardinality({t}) = 1
        BY FS_Singleton, Zenon
      <4> QED BY <4>1, <4>2
    <3> QED BY <3>1, <3>2
  <2> QED BY <2>1, <2>2 DEF MarksAreRefreshes
<1> QED BY <1>1, Inductive, PTL

\* A fresh address is replaced only by a fresher one, and lost only to the caller of a then
\* unknown host whose lookup fails late: not to a refresh, a warm-up or the sweep.
THEOREM FreshAddressesStay ==
    ASSUME DnsConstants
    PROVE  Spec => FreshStays
<1>1. ASSUME IInv, [Next]_vars
      PROVE  [FreshKept]_vars
  <2> SUFFICES ASSUME NEW k \in Keys, cache[k] # None, cache[k].ok, ~Expired(k),
                      ~\E t \in Tasks : Answered(t, FALSE) /\ task[t].as = "resolve"
               PROVE  cache'[k] # None /\ cache'[k].ok /\ cache'[k].exp >= cache[k].exp
    BY Zenon DEF FreshKept
  <2>1. /\ cache \in [Keys -> Entries \cup {None}] /\ now \in Nat
        /\ cache[k] \in Entries /\ cache[k].exp \in Nat
        /\ cache[k].exp > now /\ cache[k].exp <= now + Ttl
    BY <1>1 DEF IInv, Typed, Young, Expired, Entries, DnsConstants
  <2>2. CASE cache' = cache
    BY <2>1, <2>2
  <2>3. CASE Evict
    BY <2>1, <2>3 DEF Evict, Kept, Cached, DnsConstants
  <2>4. ASSUME NEW t \in Tasks, NEW ok \in BOOLEAN, Answered(t, ok), cache' # cache
        PROVE  cache'[k] # None /\ cache'[k].ok /\ cache'[k].exp >= cache[k].exp
    <3>1. ok
      BY <2>4, Zenon DEF Answered, Stores
    <3>2. cache' = [cache EXCEPT ![task[t].key] = [ok |-> TRUE, exp |-> now + Ttl]]
      BY <2>4, <3>1, Zenon DEF Answered
    <3>3. [ok |-> TRUE, exp |-> now + Ttl] \in Entries
      BY <2>1 DEF Entries, DnsConstants
    <3>4. CASE k = task[t].key
      <4>1. cache'[k] = [ok |-> TRUE, exp |-> now + Ttl]
        BY <2>1, <3>2, <3>4
      <4>2. cache'[k].ok /\ cache'[k].exp = now + Ttl
        BY <4>1
      <4> QED BY <2>1, <3>3, <4>1, <4>2, Zenon DEF DnsConstants
    <3>5. CASE k # task[t].key
      <4>1. cache'[k] = cache[k]
        BY <2>1, <3>2, <3>5
      <4> QED BY <2>1, <4>1
    <3> QED BY <3>4, <3>5
  <2> QED BY <1>1, <2>2, <2>3, <2>4
          DEF Next, Resolve, Warm, RefreshAsync, Unmark, EvictMarks, Tick, vars
<1> QED BY <1>1, Inductive, PTL DEF Spec, FreshStays
=============================================================================
