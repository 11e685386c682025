-------------------------- MODULE StatusPingProofs --------------------------
(***************************************************************************)
(* Proofs about StatusPing, for any connections, routes and backends, any  *)
(* requests, any cache lifetimes and any bounds.                           *)
(***************************************************************************)
EXTENDS StatusPing, FiniteSetTheorems, TLAPS

-----------------------------------------------------------------------------
(* The inductive invariant.                                                  *)

Entries == [resp : Requests, expires : Nat]
Live(tab) == {k \in Keys : tab[k] # None}
Labels == {"idle", "next", "down", "dial", "lastKnown", "wait", "poll",
           "fetch", "store", "clear", "last", "failed", "served"}

\* A table the cache may be: within its backstop, and what is found under a response key
\* answers the request of that key.
Sound(tab) ==
    /\ tab \in [Keys -> Entries \cup {None}]
    /\ IsFiniteSet(Live(tab)) /\ Cardinality(Live(tab)) <= MaxEntries
    /\ \A b \in Backends, q \in Requests :
         tab[ResponseKey(b, q)] # None => tab[ResponseKey(b, q)].resp = q
CacheSound == Sound(entries)

\* Types of what the tasks keep, and of the clock.
TasksTyped ==
    /\ now \in Nat
    /\ downUntil \in [Backends -> Nat \cup {None}]
    /\ pc \in [Conns -> Labels]
    /\ route \in [Conns -> Routes \cup {None}]
    /\ request \in [Conns -> Requests \cup {None}]
    /\ left \in [Conns -> SUBSET Backends]
    /\ at \in [Conns -> Backends \cup {None}]
    /\ polls \in [Conns -> 0 .. MaxPolls]
    /\ got \in [Conns -> Requests \cup {None}]
    /\ answer \in [Conns -> Requests \cup {None}]

\* What a task knows at each of its steps; what it fetched answers its own request, and so
\* does, by protocol, what it serves.
Serving(c) ==
    /\ pc[c] # "idle" => route[c] \in Routes /\ request[c] \in Requests
    /\ pc[c] \notin {"idle", "next", "served"} => at[c] \in Backends
    /\ pc[c] \in {"store", "clear", "last"} => got[c] = request[c]
    /\ answer[c] # None => pc[c] = "served" /\ answer[c].proto = request[c].proto
Served == \A c \in Conns : Serving(c)

\* The dials are counted, within the cap.
DialsBound ==
    /\ dials \in [Routes -> [Backends -> 0 .. MaxDials]]
    /\ DialsCounted

IInv == CacheSound /\ TasksTyped /\ Served /\ DialsBound

-----------------------------------------------------------------------------
(* The cache.                                                                *)

\* A table with some entries dropped is sound if the table was.
LEMMA DropsSound ==
    ASSUME NEW tab, Sound(tab), NEW new \in [Keys -> Entries \cup {None}],
           \A k \in Keys : new[k] = tab[k] \/ new[k] = None
    PROVE  Sound(new)
<1>1. Live(new) \subseteq Live(tab)
  BY DEF Live
<1>2. /\ IsFiniteSet(Live(tab)) /\ Cardinality(Live(tab)) <= MaxEntries
      /\ Cardinality(Live(tab)) \in Nat
  BY FS_CardinalityType DEF Sound
<1>3. /\ IsFiniteSet(Live(new)) /\ Cardinality(Live(new)) <= Cardinality(Live(tab))
      /\ Cardinality(Live(new)) \in Nat
  BY <1>1, <1>2, FS_Subset, FS_CardinalityType
<1>4. Cardinality(Live(new)) <= MaxEntries
  BY <1>2, <1>3, StatusAssumption
<1>5. \A b \in Backends, q \in Requests :
         new[ResponseKey(b, q)] # None => new[ResponseKey(b, q)].resp = q
  BY DEF Sound, Keys
<1> QED BY <1>3, <1>4, <1>5 DEF Sound

\* evict_overflow only drops entries, as many as leave 90% of the backstop.
LEMMA BoundedDrops ==
    ASSUME NEW tab \in [Keys -> Entries \cup {None}], IsFiniteSet(Live(tab)),
           NEW new \in Bounded(tab)
    PROVE  /\ new \in [Keys -> Entries \cup {None}]
           /\ \A k \in Keys : new[k] = tab[k] \/ new[k] = None
           /\ IsFiniteSet(Live(new)) /\ Cardinality(Live(new)) <= MaxEntries
<1> DEFINE over == Cardinality(Live(tab)) - (MaxEntries * 9) \div 10
<1>0. Cardinality(Live(tab)) \in Nat /\ MaxEntries \in Nat
  BY FS_CardinalityType, StatusAssumption
<1>1. CASE Cardinality(Live(tab)) <= MaxEntries
  <2>1. new = tab
    BY <1>1 DEF Bounded, Live
  <2> QED BY <1>1, <2>1
<1>2. CASE ~(Cardinality(Live(tab)) <= MaxEntries)
  <2>1. PICK g \in SUBSET Live(tab) :
          /\ Cardinality(g) = over
          /\ new = [k \in Keys |-> IF k \in g THEN None ELSE tab[k]]
    BY <1>2 DEF Bounded, Live
  <2>2. Live(new) = Live(tab) \ g
    BY <2>1 DEF Live
  <2>3. IsFiniteSet(g) /\ Live(tab) \cap g = g
    BY <2>1, FS_Subset
  <2>4. /\ IsFiniteSet(Live(new))
        /\ Cardinality(Live(new)) = Cardinality(Live(tab)) - Cardinality(g)
    <3> DEFINE S == Live(tab)
    <3>1. IsFiniteSet(S)
      OBVIOUS
    <3> HIDE DEF S
    <3>2. /\ IsFiniteSet(S \ g)
          /\ Cardinality(S \ g) = Cardinality(S) - Cardinality(S \cap g)
      BY <3>1, FS_Difference, Zenon
    <3> QED BY <2>2, <2>3, <3>2, Zenon DEF S
  <2>5. (MaxEntries * 9) \div 10 <= MaxEntries /\ (MaxEntries * 9) \div 10 \in Int
    BY <1>0
  <2>6. Cardinality(Live(new)) = (MaxEntries * 9) \div 10
    BY <1>0, <2>1, <2>4, <2>5
  <2>7. new \in [Keys -> Entries \cup {None}] /\ \A k \in Keys : new[k] = tab[k] \/ new[k] = None
    BY <2>1
  <2> QED BY <2>4, <2>5, <2>6, <2>7
<1> QED BY <1>1, <1>2

\* get and the sweep drop entries.
LEMMA GetSound ==
    ASSUME CacheSound,
           \/ entries' = entries
           \/ \E k \in Keys : Get(k)
           \/ entries' = [k \in Keys |-> IF Expired(k) THEN None ELSE entries[k]]
    PROVE  CacheSound'
<1>1. entries \in [Keys -> Entries \cup {None}]
  BY DEF CacheSound, Sound
<1>2. /\ entries' \in [Keys -> Entries \cup {None}]
      /\ \A k \in Keys : entries'[k] = entries[k] \/ entries'[k] = None
  BY <1>1 DEF Get
<1>3. Sound(entries')
  BY <1>2, DropsSound, Zenon DEF CacheSound
<1> QED BY <1>3 DEF CacheSound, Sound, Live

\* put stores a response under the key of the request it answers, or as the last-known one.
LEMMA PutSound ==
    ASSUME CacheSound, now \in Nat, NEW b \in Backends, NEW q \in Requests,
           NEW k \in {ResponseKey(b, q), LastKnownKey(b)}, Put(k, q)
    PROVE  CacheSound'
<1>1. CASE TTL < 0
  BY <1>1, GetSound DEF Put
<1>2. CASE ~(TTL < 0)
  <2> DEFINE e == [resp |-> q, expires |-> now + TTL]
             tab == [entries EXCEPT ![k] = e]
  <2>1. e \in Entries /\ e.resp = q
    BY <1>2, StatusAssumption DEF Entries
  <2>2. k \in Keys /\ entries \in [Keys -> Entries \cup {None}]
    BY DEF CacheSound, Sound, Keys
  <2>3. entries' \in Bounded(tab)
    BY <1>2 DEF Put
  <2> HIDE DEF e
  <2>4. /\ tab \in [Keys -> Entries \cup {None}] /\ tab[k] = e
        /\ \A j \in Keys : j # k => tab[j] = entries[j]
    BY <2>1, <2>2
  <2>5. IsFiniteSet(Live(tab))
    <3>1. Live(tab) \subseteq Live(entries) \cup {k}
      BY <2>4 DEF Live
    <3>2. IsFiniteSet(Live(entries) \cup {k})
      BY FS_AddElement, SMTT(30) DEF CacheSound, Sound
    <3> QED BY <3>1, <3>2, FS_Subset, Zenon
  <2> HIDE DEF tab
  <2>6. /\ entries' \in [Keys -> Entries \cup {None}]
        /\ \A j \in Keys : entries'[j] = tab[j] \/ entries'[j] = None
        /\ IsFiniteSet(Live(entries')) /\ Cardinality(Live(entries')) <= MaxEntries
    BY <2>3, <2>4, <2>5, BoundedDrops, Zenon
  <2>7. ASSUME NEW a \in Backends, NEW r \in Requests, entries'[ResponseKey(a, r)] # None
        PROVE  entries'[ResponseKey(a, r)].resp = r
    <3>1. ResponseKey(a, r) \in Keys
      BY DEF Keys
    <3>2. CASE ResponseKey(a, r) = k
      <4>1. r = q
        BY <3>2 DEF ResponseKey, LastKnownKey
      <4> QED BY <2>1, <2>4, <2>6, <2>7, <3>1, <3>2, <4>1
    <3>3. CASE ResponseKey(a, r) # k
      BY <2>4, <2>6, <2>7, <3>1, <3>3 DEF CacheSound, Sound
    <3> QED BY <3>2, <3>3
  <2>8. Sound(entries')
    BY <2>6, <2>7 DEF Sound
  <2> QED BY <2>8 DEF CacheSound, Sound, Live
<1> QED BY <1>1, <1>2

-----------------------------------------------------------------------------
(* The dials in flight.                                                      *)

\* A step that begins and ends no dial.
NoDial ==
    /\ dials' = dials
    /\ \A c \in Conns : /\ pc'[c] = "fetch" <=> pc[c] = "fetch"
                        /\ pc[c] = "fetch" => route'[c] = route[c] /\ at'[c] = at[c]

\* Such a step leaves the dials counted.
LEMMA NoDialCounted ==
    ASSUME DialsBound, NoDial
    PROVE  DialsBound'
<1> SUFFICES ASSUME NEW r \in Routes, NEW b \in Backends
             PROVE  dials'[r][b] = Cardinality(Dialing(r, b)')
  BY DEF DialsBound, DialsCounted, NoDial
<1>1. Dialing(r, b)' = Dialing(r, b)
  BY DEF NoDial, Dialing
<1> QED BY <1>1 DEF DialsBound, DialsCounted, NoDial

\* try_begin_status_dial takes a slot only below the cap.
LEMMA BeginDialCounted ==
    ASSUME IInv, NEW c \in Conns, NEW full \in Labels \ {"fetch"}, BeginDial(c, full),
           pc[c] \in {"dial", "poll"}, UNCHANGED <<route, at>>
    PROVE  DialsBound'
<1>1. /\ route[c] \in Routes /\ at[c] \in Backends /\ MaxDials \in Nat
      /\ dials \in [Routes -> [Backends -> 0 .. MaxDials]] /\ pc \in [Conns -> Labels]
  BY StatusAssumption DEF IInv, Served, Serving, DialsBound, TasksTyped
<1>2. CASE ~SlotFree(route[c], at[c])
  <2>1. NoDial
    BY <1>1, <1>2 DEF BeginDial, Goto, NoDial
  <2> QED BY <2>1, NoDialCounted DEF IInv
<1>3. CASE SlotFree(route[c], at[c])
  <2>1. /\ \A r \in Routes, b \in Backends : dials'[r][b] =
             IF r = route[c] /\ b = at[c] THEN dials[r][b] + 1 ELSE dials[r][b]
        /\ pc' = [pc EXCEPT ![c] = "fetch"]
        /\ dials' \in [Routes -> [Backends -> 0 .. MaxDials]]
    BY <1>1, <1>3 DEF BeginDial, Goto, SlotFree
  <2>2. ASSUME NEW r \in Routes, NEW b \in Backends
        PROVE  dials'[r][b] = Cardinality(Dialing(r, b)')
    <3>1. IsFiniteSet(Dialing(r, b)) /\ dials[r][b] = Cardinality(Dialing(r, b))
      BY StatusAssumption, FS_Subset DEF Dialing, IInv, DialsBound, DialsCounted
    <3>2. CASE r = route[c] /\ b = at[c]
      <4>1. Dialing(r, b)' = Dialing(r, b) \cup {c} /\ c \notin Dialing(r, b)
        BY <1>1, <2>1, <3>2 DEF Dialing
      <4>2. Cardinality(Dialing(r, b)') = Cardinality(Dialing(r, b)) + 1
        BY <3>1, <4>1, FS_AddElement, Zenon
      <4> QED BY <2>1, <3>1, <3>2, <4>2
    <3>3. CASE ~(r = route[c] /\ b = at[c])
      <4>1. Dialing(r, b)' = Dialing(r, b)
        BY <1>1, <2>1, <3>3 DEF Dialing
      <4> QED BY <2>1, <3>1, <3>3, <4>1
    <3> QED BY <3>2, <3>3
  <2> QED BY <2>1, <2>2 DEF DialsBound, DialsCounted
<1> QED BY <1>2, <1>3

\* end_status_dial gives back the slot of a dial that is in flight.
LEMMA EndDialCounted ==
    ASSUME IInv, NEW c \in Conns, pc[c] = "fetch", NEW label \in Labels \ {"fetch"},
           pc' = [pc EXCEPT ![c] = label], UNCHANGED <<route, at>>,
           dials' = [dials EXCEPT ![route[c]][at[c]] = @ - 1]
    PROVE  DialsBound'
<1>1. /\ route[c] \in Routes /\ at[c] \in Backends /\ MaxDials \in Nat
      /\ dials \in [Routes -> [Backends -> 0 .. MaxDials]] /\ pc \in [Conns -> Labels]
  BY StatusAssumption, SMTT(30) DEF IInv, Served, Serving, DialsBound, TasksTyped
<1>2. ASSUME NEW r \in Routes, NEW b \in Backends
      PROVE  /\ IsFiniteSet(Dialing(r, b)) /\ dials[r][b] = Cardinality(Dialing(r, b))
             /\ Cardinality(Dialing(r, b)) \in Nat
             /\ c \in Dialing(r, b) => Cardinality(Dialing(r, b)) # 0
  BY StatusAssumption, FS_Subset, FS_CardinalityType, FS_EmptySet
, Zenon DEF Dialing, IInv, DialsBound, DialsCounted
<1>3. dials[route[c]][at[c]] # 0
  <2>1. c \in Dialing(route[c], at[c])
    BY DEF Dialing
  <2> QED BY <1>1, <1>2, <2>1
<1>4. /\ \A r \in Routes, b \in Backends : dials'[r][b] =
           IF r = route[c] /\ b = at[c] THEN dials[r][b] - 1 ELSE dials[r][b]
      /\ dials' \in [Routes -> [Backends -> 0 .. MaxDials]]
  <2>1. dials[route[c]][at[c]] - 1 \in 0 .. MaxDials
    <3> DEFINE n == dials[route[c]][at[c]]
    <3>1. n \in 0 .. MaxDials
      BY <1>1
    <3>2. n # 0
      BY <1>3
    <3> HIDE DEF n
    <3>3. n - 1 \in 0 .. MaxDials
      BY <1>1, <3>1, <3>2
    <3> QED BY <3>3 DEF n
  <2>2. \A r \in Routes : dials[r] \in [Backends -> 0 .. MaxDials]
    BY <1>1
  <2>3. /\ dials'[route[c]] = [dials[route[c]] EXCEPT ![at[c]] = @ - 1]
        /\ \A r \in Routes : r # route[c] => dials'[r] = dials[r]
    BY <1>1
  <2>4. \A r \in Routes : dials'[r] \in [Backends -> 0 .. MaxDials]
    BY <1>1, <2>1, <2>2, <2>3
  <2>5. dials' = [r \in Routes |-> dials'[r]]
    BY <1>1, Zenon
  <2> QED BY <1>1, <2>2, <2>3, <2>4, <2>5
<1>5. ASSUME NEW r \in Routes, NEW b \in Backends
      PROVE  dials'[r][b] = Cardinality(Dialing(r, b)')
  <2>1. CASE r = route[c] /\ b = at[c]
    <3>1. Dialing(r, b)' = Dialing(r, b) \ {c} /\ c \in Dialing(r, b)
      BY <1>1, <2>1 DEF Dialing
    <3>2. Cardinality(Dialing(r, b)') = Cardinality(Dialing(r, b)) - 1
      BY <1>2, <3>1, FS_RemoveElement, Zenon
    <3> QED BY <1>2, <1>4, <2>1, <3>2
  <2>2. CASE ~(r = route[c] /\ b = at[c])
    <3>1. Dialing(r, b)' = Dialing(r, b)
      BY <1>1, <2>2 DEF Dialing
    <3> QED BY <1>2, <1>4, <2>2, <3>1
  <2> QED BY <2>1, <2>2
<1> QED BY <1>4, <1>5 DEF DialsBound, DialsCounted

-----------------------------------------------------------------------------
(* Every step keeps the invariant.                                           *)

\* What a task that is served is sure to have, and what it finds in the cache.
LEMMA Known ==
    ASSUME IInv, NEW c \in Conns
    PROVE  /\ TasksTyped /\ CacheSound /\ Serving(c) /\ \A d \in Conns : Serving(d)
           /\ pc[c] \in Labels /\ (pc[c] # "idle" => request[c] \in Requests)
           /\ \A b \in Backends :
                /\ LastKnownKey(b) \in Keys
                /\ Hit(LastKnownKey(b)) => entries[LastKnownKey(b)].resp \in Requests
           /\ \A b \in Backends, q \in Requests :
                /\ ResponseKey(b, q) \in Keys
                /\ Hit(ResponseKey(b, q)) => entries[ResponseKey(b, q)].resp = q
  BY DEF IInv, Served, Serving, TasksTyped, CacheSound, Sound, Keys, Hit, Entries

\* A connection asks: its task begins with every backend to try.
LEMMA BeginStep ==
    ASSUME IInv, NEW c \in Conns, NEW r \in Routes, NEW q \in Requests, Begin(c, r, q)
    PROVE  IInv'
<1>1. TasksTyped /\ CacheSound /\ Serving(c) /\ \A d \in Conns : Serving(d)
  BY Known
<1>2. CacheSound'
  BY <1>1, GetSound DEF Begin, cache
<1>3. TasksTyped'
  BY <1>1, StatusAssumption
     DEF TasksTyped, Labels, Serving, Begin, Goto, cache, task
<1>4. Served'
  <2> SUFFICES ASSUME NEW d \in Conns PROVE Serving(d)'
    BY DEF Served
  <2>1. Serving(d)
    BY <1>1
  <2> QED BY <1>1, <2>1 DEF TasksTyped, Serving, Begin, Goto, task
<1>5. DialsBound'
  <2>1. NoDial
    BY <1>1 DEF TasksTyped, NoDial, Begin, Goto, task
  <2> QED BY <2>1, NoDialCounted, Zenon DEF IInv
<1> QED BY <1>2, <1>3, <1>4, <1>5 DEF IInv

\* What is cached under the request's own key answers the request.
LEMMA TryBackendStep ==
    ASSUME IInv, NEW c \in Conns, NEW b \in Backends, TryBackend(c, b)
    PROVE  IInv'
<1>1. TasksTyped /\ CacheSound /\ Serving(c) /\ \A d \in Conns : Serving(d)
  BY Known
<1>2. /\ ResponseKey(b, request[c]) \in Keys /\ request[c] \in Requests
      /\ Hit(ResponseKey(b, request[c])) => entries[ResponseKey(b, request[c])].resp = request[c]
  BY <1>1, Known DEF TryBackend, Serving
<1>3. CacheSound'
  BY <1>1, <1>2, GetSound, Zenon DEF TryBackend
<1>4. TasksTyped'
  BY <1>1, <1>2, StatusAssumption
     DEF TasksTyped, Labels, Serving, TryBackend, Goto, Serve, cache, task
<1>5. Served'
  <2> SUFFICES ASSUME NEW d \in Conns PROVE Serving(d)'
    BY DEF Served
  <2>1. Serving(d)
    BY <1>1
  <2> QED BY <1>1, <1>2, <2>1 DEF TasksTyped, Serving, TryBackend, Goto, Serve, task
<1>6. DialsBound'
  <2>1. NoDial
    BY <1>1 DEF TasksTyped, NoDial, TryBackend, Goto, Serve, task
  <2> QED BY <2>1, NoDialCounted, Zenon DEF IInv
<1> QED BY <1>3, <1>4, <1>5, <1>6 DEF IInv

\* The failure memory is consulted.
LEMMA CheckDownStep ==
    ASSUME IInv, NEW c \in Conns, CheckDown(c)
    PROVE  IInv'
<1>1. TasksTyped /\ CacheSound /\ Serving(c) /\ \A d \in Conns : Serving(d)
  BY Known
<1>2. CacheSound'
  BY <1>1, GetSound DEF CheckDown, cache
<1>3. TasksTyped'
  BY <1>1, StatusAssumption
     DEF TasksTyped, Labels, Serving, CheckDown, Goto, KnownDown, cache, task
<1>4. Served'
  <2> SUFFICES ASSUME NEW d \in Conns PROVE Serving(d)'
    BY DEF Served
  <2>1. Serving(d)
    BY <1>1
  <2> QED BY <1>1, <2>1 DEF TasksTyped, Serving, CheckDown, Goto, KnownDown, task
<1>5. DialsBound'
  <2>1. NoDial
    BY <1>1 DEF TasksTyped, NoDial, CheckDown, Goto, KnownDown, task
  <2> QED BY <2>1, NoDialCounted, Zenon DEF IInv
<1> QED BY <1>2, <1>3, <1>4, <1>5 DEF IInv

\* A slot is taken, or the last-known response looked at.
LEMMA TryDialStep ==
    ASSUME IInv, NEW c \in Conns, TryDial(c)
    PROVE  IInv'
<1>1. TasksTyped /\ CacheSound /\ Serving(c) /\ \A d \in Conns : Serving(d)
  BY Known
<1>2. CacheSound'
  BY <1>1, GetSound DEF TryDial, cache
<1>3. TasksTyped'
  BY <1>1, StatusAssumption
     DEF TasksTyped, Labels, Serving, TryDial, Goto, BeginDial, cache, task
<1>4. Served'
  <2> SUFFICES ASSUME NEW d \in Conns PROVE Serving(d)'
    BY DEF Served
  <2>1. Serving(d)
    BY <1>1
  <2> QED BY <1>1, <2>1 DEF TasksTyped, Serving, TryDial, Goto, BeginDial, task
<1>5. DialsBound'
  <2>1. /\ BeginDial(c, "lastKnown") /\ pc[c] \in {"dial", "poll"}
        /\ UNCHANGED <<route, at>>
    BY DEF TryDial, task
  <2> QED BY <2>1, BeginDialCounted DEF Labels
<1> QED BY <1>2, <1>3, <1>4, <1>5 DEF IInv

\* The last-known response is served only to a client of its protocol.
LEMMA TryLastKnownStep ==
    ASSUME IInv, NEW c \in Conns, TryLastKnown(c)
    PROVE  IInv'
<1>1. TasksTyped /\ CacheSound /\ Serving(c) /\ \A d \in Conns : Serving(d)
  BY Known
<1>2. /\ LastKnownKey(at[c]) \in Keys /\ request[c] \in Requests
      /\ Hit(LastKnownKey(at[c])) => entries[LastKnownKey(at[c])].resp \in Requests
  BY <1>1, Known DEF TryLastKnown, Serving
<1>3. CacheSound'
  BY <1>1, <1>2, GetSound, Zenon DEF TryLastKnown
<1>4. TasksTyped'
  BY <1>1, <1>2, StatusAssumption
     DEF TasksTyped, Labels, Serving, TryLastKnown, Goto, Serve, Usable, cache, task
<1>5. Served'
  <2> SUFFICES ASSUME NEW d \in Conns PROVE Serving(d)'
    BY DEF Served
  <2>1. Serving(d)
    BY <1>1
  <2> QED BY <1>1, <1>2, <2>1 DEF TasksTyped, Serving, TryLastKnown, Goto, Serve, Usable, task
<1>6. DialsBound'
  <2>1. NoDial
    BY <1>1 DEF TasksTyped, NoDial, TryLastKnown, Goto, Serve, Usable, task
  <2> QED BY <2>1, NoDialCounted, Zenon DEF IInv
<1> QED BY <1>3, <1>4, <1>5, <1>6 DEF IInv

\* A waiting task is served what another one stored for the same request.
LEMMA PollCacheStep ==
    ASSUME IInv, NEW c \in Conns, PollCache(c)
    PROVE  IInv'
<1>1. TasksTyped /\ CacheSound /\ Serving(c) /\ \A d \in Conns : Serving(d)
  BY Known
<1>2. /\ ResponseKey(at[c], request[c]) \in Keys /\ request[c] \in Requests
      /\ Hit(ResponseKey(at[c], request[c])) =>
           entries[ResponseKey(at[c], request[c])].resp = request[c]
  BY <1>1, Known DEF PollCache, Serving
<1>3. CacheSound'
  BY <1>1, <1>2, GetSound, Zenon DEF PollCache
<1>4. TasksTyped'
  BY <1>1, <1>2, StatusAssumption
     DEF TasksTyped, Labels, Serving, PollCache, Goto, Serve, cache, task
<1>5. Served'
  <2> SUFFICES ASSUME NEW d \in Conns PROVE Serving(d)'
    BY DEF Served
  <2>1. Serving(d)
    BY <1>1
  <2> QED BY <1>1, <1>2, <2>1 DEF TasksTyped, Serving, PollCache, Goto, Serve, task
<1>6. DialsBound'
  <2>1. NoDial
    BY <1>1 DEF TasksTyped, NoDial, PollCache, Goto, Serve, task
  <2> QED BY <2>1, NoDialCounted, Zenon DEF IInv
<1> QED BY <1>3, <1>4, <1>5, <1>6 DEF IInv

\* A waiting task takes the slot another one gave back.
LEMMA PollSlotStep ==
    ASSUME IInv, NEW c \in Conns, PollSlot(c)
    PROVE  IInv'
<1>1. TasksTyped /\ CacheSound /\ Serving(c) /\ \A d \in Conns : Serving(d)
  BY Known
<1>2. CacheSound'
  BY <1>1, GetSound DEF PollSlot, cache
<1>3. TasksTyped'
  BY <1>1, StatusAssumption
     DEF TasksTyped, Labels, Serving, PollSlot, Goto, BeginDial, cache, task
<1>4. Served'
  <2> SUFFICES ASSUME NEW d \in Conns PROVE Serving(d)'
    BY DEF Served
  <2>1. Serving(d)
    BY <1>1
  <2> QED BY <1>1, <2>1 DEF TasksTyped, Serving, PollSlot, Goto, BeginDial, task
<1>5. DialsBound'
  <2>1. /\ BeginDial(c, "wait") /\ pc[c] \in {"dial", "poll"}
        /\ UNCHANGED <<route, at>>
    BY DEF PollSlot, task
  <2> QED BY <2>1, BeginDialCounted DEF Labels
<1> QED BY <1>2, <1>3, <1>4, <1>5 DEF IInv

\* The wait ends without a slot.
LEMMA WaitTimesOutStep ==
    ASSUME IInv, NEW c \in Conns, WaitTimesOut(c)
    PROVE  IInv'
<1>1. TasksTyped /\ CacheSound /\ Serving(c) /\ \A d \in Conns : Serving(d)
  BY Known
<1>2. CacheSound'
  BY <1>1, GetSound DEF WaitTimesOut, cache
<1>3. TasksTyped'
  BY <1>1, StatusAssumption
     DEF TasksTyped, Labels, Serving, WaitTimesOut, Goto, cache, task
<1>4. Served'
  <2> SUFFICES ASSUME NEW d \in Conns PROVE Serving(d)'
    BY DEF Served
  <2>1. Serving(d)
    BY <1>1
  <2> QED BY <1>1, <2>1 DEF TasksTyped, Serving, WaitTimesOut, Goto, task
<1>5. DialsBound'
  <2>1. NoDial
    BY <1>1 DEF TasksTyped, NoDial, WaitTimesOut, Goto, task
  <2> QED BY <2>1, NoDialCounted, Zenon DEF IInv
<1> QED BY <1>2, <1>3, <1>4, <1>5 DEF IInv

\* The dial ends, answered or not, and its slot comes back.
LEMMA FetchEndsStep ==
    ASSUME IInv, NEW c \in Conns, NEW resp \in Fetched(c), FetchEnds(c, resp)
    PROVE  IInv'
<1>1. TasksTyped /\ CacheSound /\ Serving(c) /\ \A d \in Conns : Serving(d)
  BY Known
<1>2. CacheSound'
  BY <1>1, GetSound DEF FetchEnds, cache
<1>3. TasksTyped'
  BY <1>1, StatusAssumption
     DEF TasksTyped, Labels, Serving, FetchEnds, Goto, Fetched, cache, task
<1>4. Served'
  <2> SUFFICES ASSUME NEW d \in Conns PROVE Serving(d)'
    BY DEF Served
  <2>1. Serving(d)
    BY <1>1
  <2> QED BY <1>1, <2>1 DEF TasksTyped, Serving, FetchEnds, Goto, Fetched, task
<1>5. DialsBound'
  <2> DEFINE label == IF resp = None THEN "failed" ELSE "store"
  <2>1. /\ pc[c] = "fetch" /\ pc' = [pc EXCEPT ![c] = label] /\ UNCHANGED <<route, at>>
        /\ dials' = [dials EXCEPT ![route[c]][at[c]] = @ - 1]
    BY DEF FetchEnds, Goto, task
  <2>2. label \in Labels \ {"fetch"}
    BY DEF Labels
  <2> HIDE DEF label
  <2> QED BY <2>1, <2>2, EndDialCounted, Zenon
<1> QED BY <1>2, <1>3, <1>4, <1>5 DEF IInv

\* The response is stored under the request it answers.
LEMMA StoreResponseStep ==
    ASSUME IInv, NEW c \in Conns, StoreResponse(c)
    PROVE  IInv'
<1>1. TasksTyped /\ CacheSound /\ Serving(c) /\ \A d \in Conns : Serving(d)
  BY Known
<1>2. CacheSound'
  <2>1. /\ at[c] \in Backends /\ got[c] \in Requests /\ got[c] = request[c] /\ now \in Nat
        /\ Put(ResponseKey(at[c], request[c]), got[c])
    BY <1>1 DEF StoreResponse, Serving, TasksTyped
  <2> QED BY <1>1, <2>1, PutSound
<1>3. TasksTyped'
  BY <1>1, StatusAssumption
     DEF TasksTyped, Labels, Serving, StoreResponse, Goto, cache, task
<1>4. Served'
  <2> SUFFICES ASSUME NEW d \in Conns PROVE Serving(d)'
    BY DEF Served
  <2>1. Serving(d)
    BY <1>1
  <2> QED BY <1>1, <2>1 DEF TasksTyped, Serving, StoreResponse, Goto, task
<1>5. DialsBound'
  <2>1. NoDial
    BY <1>1 DEF TasksTyped, NoDial, StoreResponse, Goto, task
  <2> QED BY <2>1, NoDialCounted, Zenon DEF IInv
<1> QED BY <1>2, <1>3, <1>4, <1>5 DEF IInv

\* The backend is down no more.
LEMMA ClearDownStep ==
    ASSUME IInv, NEW c \in Conns, ClearDown(c)
    PROVE  IInv'
<1>1. TasksTyped /\ CacheSound /\ Serving(c) /\ \A d \in Conns : Serving(d)
  BY Known
<1>2. CacheSound'
  BY <1>1, GetSound DEF ClearDown, cache
<1>3. TasksTyped'
  BY <1>1, StatusAssumption
     DEF TasksTyped, Labels, Serving, ClearDown, Goto, cache, task
<1>4. Served'
  <2> SUFFICES ASSUME NEW d \in Conns PROVE Serving(d)'
    BY DEF Served
  <2>1. Serving(d)
    BY <1>1
  <2> QED BY <1>1, <2>1 DEF TasksTyped, Serving, ClearDown, Goto, task
<1>5. DialsBound'
  <2>1. NoDial
    BY <1>1 DEF TasksTyped, NoDial, ClearDown, Goto, task
  <2> QED BY <2>1, NoDialCounted, Zenon DEF IInv
<1> QED BY <1>2, <1>3, <1>4, <1>5 DEF IInv

\* The response becomes the last-known one, and is served.
LEMMA StoreLastKnownStep ==
    ASSUME IInv, NEW c \in Conns, StoreLastKnown(c)
    PROVE  IInv'
<1>1. TasksTyped /\ CacheSound /\ Serving(c) /\ \A d \in Conns : Serving(d)
  BY Known
<1>2. CacheSound'
  <2>1. /\ at[c] \in Backends /\ got[c] \in Requests /\ got[c] = request[c] /\ now \in Nat
        /\ Put(LastKnownKey(at[c]), got[c])
    BY <1>1 DEF StoreLastKnown, Serving, TasksTyped
  <2> QED BY <1>1, <2>1, PutSound
<1>3. TasksTyped'
  BY <1>1, StatusAssumption
     DEF TasksTyped, Labels, Serving, StoreLastKnown, Goto, Serve, cache, task
<1>4. Served'
  <2> SUFFICES ASSUME NEW d \in Conns PROVE Serving(d)'
    BY DEF Served
  <2>1. Serving(d)
    BY <1>1
  <2> QED BY <1>1, <2>1 DEF TasksTyped, Serving, StoreLastKnown, Goto, Serve, task
<1>5. DialsBound'
  <2>1. NoDial
    BY <1>1 DEF TasksTyped, NoDial, StoreLastKnown, Goto, Serve, task
  <2> QED BY <2>1, NoDialCounted, Zenon DEF IInv
<1> QED BY <1>2, <1>3, <1>4, <1>5 DEF IInv

\* A failed backend is remembered.
LEMMA MarkDownStep ==
    ASSUME IInv, NEW c \in Conns, MarkDown(c)
    PROVE  IInv'
<1>1. TasksTyped /\ CacheSound /\ Serving(c) /\ \A d \in Conns : Serving(d)
  BY Known
<1>2. CacheSound'
  BY <1>1, GetSound DEF MarkDown, cache
<1>3. TasksTyped'
  BY <1>1, StatusAssumption
     DEF TasksTyped, Labels, Serving, MarkDown, Goto, cache, task
<1>4. Served'
  <2> SUFFICES ASSUME NEW d \in Conns PROVE Serving(d)'
    BY DEF Served
  <2>1. Serving(d)
    BY <1>1
  <2> QED BY <1>1, <2>1 DEF TasksTyped, Serving, MarkDown, Goto, task
<1>5. DialsBound'
  <2>1. NoDial
    BY <1>1 DEF TasksTyped, NoDial, MarkDown, Goto, task
  <2> QED BY <2>1, NoDialCounted, Zenon DEF IInv
<1> QED BY <1>2, <1>3, <1>4, <1>5 DEF IInv

\* No backend is left: nothing of a backend's is served.
LEMMA GiveUpStep ==
    ASSUME IInv, NEW c \in Conns, GiveUp(c)
    PROVE  IInv'
<1>1. TasksTyped /\ CacheSound /\ Serving(c) /\ \A d \in Conns : Serving(d)
  BY Known
<1>2. CacheSound'
  BY <1>1, GetSound DEF GiveUp, cache
<1>3. TasksTyped'
  BY <1>1, StatusAssumption
     DEF TasksTyped, Labels, Serving, GiveUp, Goto, cache, task
<1>4. Served'
  <2> SUFFICES ASSUME NEW d \in Conns PROVE Serving(d)'
    BY DEF Served
  <2>1. Serving(d)
    BY <1>1
  <2> QED BY <1>1, <2>1 DEF TasksTyped, Serving, GiveUp, Goto, task
<1>5. DialsBound'
  <2>1. NoDial
    BY <1>1 DEF TasksTyped, NoDial, GiveUp, Goto, task
  <2> QED BY <2>1, NoDialCounted, Zenon DEF IInv
<1> QED BY <1>2, <1>3, <1>4, <1>5 DEF IInv

\* The connection ends and its task forgets everything.
LEMMA EndStep ==
    ASSUME IInv, NEW c \in Conns, End(c)
    PROVE  IInv'
<1>1. TasksTyped /\ CacheSound /\ Serving(c) /\ \A d \in Conns : Serving(d)
  BY Known
<1>2. CacheSound'
  BY <1>1, GetSound DEF End, cache
<1>3. TasksTyped'
  BY <1>1, StatusAssumption
     DEF TasksTyped, Labels, Serving, End, Goto, cache, task
<1>4. Served'
  <2> SUFFICES ASSUME NEW d \in Conns PROVE Serving(d)'
    BY DEF Served
  <2>1. Serving(d)
    BY <1>1
  <2> QED BY <1>1, <2>1 DEF TasksTyped, Serving, End, Goto, task
<1>5. DialsBound'
  <2>1. NoDial
    BY <1>1 DEF TasksTyped, NoDial, End, Goto, task
  <2> QED BY <2>1, NoDialCounted, Zenon DEF IInv
<1> QED BY <1>2, <1>3, <1>4, <1>5 DEF IInv

\* The sweep drops what has expired; the clock advances.
LEMMA BackgroundStep ==
    ASSUME IInv, Sweep \/ Tick \/ UNCHANGED vars
    PROVE  IInv'
<1>1. CacheSound'
  BY GetSound DEF IInv, Sweep, Tick, vars, cache
<1>2. UNCHANGED <<dials, pc, task, polls, got, answer>>
  BY DEF Sweep, Tick, vars
<1>3. TasksTyped'
  <2>1. now' \in Nat /\ downUntil' \in [Backends -> Nat \cup {None}]
    BY DEF IInv, TasksTyped, Sweep, Tick, vars, cache
  <2> QED BY <1>2, <2>1 DEF IInv, TasksTyped, task
<1>4. Served'
  BY <1>2 DEF IInv, Served, Serving, task
<1>5. DialsBound'
  <2>1. NoDial
    BY <1>2 DEF NoDial, task
  <2> QED BY <2>1, NoDialCounted, Zenon DEF IInv
<1> QED BY <1>1, <1>3, <1>4, <1>5 DEF IInv

\* IInv is an invariant of the status connections.
LEMMA Inductive == Spec => []IInv
<1>1. Init => IInv
  <2> SUFFICES ASSUME Init PROVE IInv
    OBVIOUS
  <2>1. CacheSound
    <3>1. Live(entries) = {}
      BY DEF Init, Live
    <3>2. IsFiniteSet({}) /\ Cardinality({}) = 0
      BY FS_EmptySet, Zenon
    <3>3. \A b \in Backends, q \in Requests : entries[ResponseKey(b, q)] = None
      BY DEF Init, Keys
    <3> QED BY <3>1, <3>2, <3>3, StatusAssumption, SMTT(30) DEF Init, CacheSound, Sound
  <2>2. TasksTyped
    BY StatusAssumption DEF Init, TasksTyped, Labels
  <2>3. Served
    BY DEF Init, Served, Serving
  <2>4. ASSUME NEW r \in Routes, NEW b \in Backends
        PROVE  dials[r][b] = Cardinality(Dialing(r, b))
    <3>1. Dialing(r, b) = {} /\ dials[r][b] = 0
      BY DEF Init, Dialing
    <3>2. Cardinality({}) = 0
      BY FS_EmptySet, Zenon
    <3> QED BY <3>1, <3>2
  <2>5. DialsBound
    BY <2>4, StatusAssumption DEF Init, DialsBound, DialsCounted
  <2> QED BY <2>1, <2>2, <2>3, <2>5 DEF IInv
<1>2. IInv /\ [Next]_vars => IInv'
  BY BeginStep, TryBackendStep, CheckDownStep, TryDialStep, TryLastKnownStep, PollCacheStep,
     PollSlotStep, WaitTimesOutStep, FetchEndsStep, StoreResponseStep, ClearDownStep,
     StoreLastKnownStep, MarkDownStep, GiveUpStep, EndStep, BackgroundStep, Zenon DEF Next, Step
<1> QED BY <1>1, <1>2, PTL DEF Spec

-----------------------------------------------------------------------------
(* What the status connections keep.                                         *)

\* The state keeps its shape, no backend of a route is ever dialed by more status
\* connections at a time than MAX_CONCURRENT_STATUS_DIALS, and the cache never holds more
\* than MAX_ENTRIES.
THEOREM StatusTyped == Spec => []TypeOK
<1>1. IInv => TypeOK
  BY DEF IInv, CacheSound, Sound, Live, Entries, TasksTyped, Labels, DialsBound, TypeOK
<1> QED BY <1>1, Inductive, PTL

\* Every status dial in flight holds one slot of its backend and every slot taken is that
\* of a dial in flight, through waits, failures and timeouts.
THEOREM DialSlotsExact == Spec => []DialsCounted
<1>1. IInv => DialsCounted
  BY DEF IInv, DialsBound
<1> QED BY <1>1, Inductive, PTL

\* No client is shown a status that was answered for another protocol version, whichever
\* of its steps found it in the cache.
THEOREM StatusMatchesProtocol == Spec => []AnsweredForProtocol
<1>1. IInv => AnsweredForProtocol
  BY DEF IInv, Served, Serving, AnsweredForProtocol
<1> QED BY <1>1, Inductive, PTL
=============================================================================
