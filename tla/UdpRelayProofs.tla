--------------------------- MODULE UdpRelayProofs ---------------------------
(***************************************************************************)
(* Proofs about UdpRelay, for any finite sets of clients, logins and       *)
(* sessions, any addresses, any proxies and any caps.                      *)
(***************************************************************************)
EXTENDS UdpRelay, FiniteSetTheorems, TLAPS

-----------------------------------------------------------------------------
(* The inductive invariant.                                                  *)

\* The steps in which the receiving task sets a session up.
Starting == {"open", "link", "spawn"}

\* The records the receiving task, a session and a closer are.
ReceiverStates ==
    [pc : {"idle", "find", "repoint", "resolve", "cap", "slot"} \cup Starting,
     from : Sources \cup {None}, client : Clients \cup {None}, id : Ids \cup {None},
     caps : [max : Int, perIp : Int]]
SessionRecords ==
    [client : Clients \cup {None}, via : Sources \cup {None}, dead : BOOLEAN, reading : BOOLEAN]
Jobs ==
    [pc : {"idle", "hook", "next", "unlink", "release", "abort"}, ip : IPs \cup {None},
     todo : SUBSET Clients, id : Ids \cup {None}]

\* Types.
ReceiverTyped == recv \in ReceiverStates
SessionsTyped == sess \in [Ids -> SessionRecords]
JobsTyped == job \in [Closers -> Jobs]
MapsTyped ==
    /\ kind \in Kinds /\ throttle \in Throttles
    /\ refs \in [IPs -> Nat] /\ player \in [Players -> IPs \cup {None}]
    /\ table \in [Clients -> Ids \cup {None}]
    /\ byVia \in [Vias -> Ids \cup {None}]
    /\ perIp \in [IPs -> Nat]
    /\ owners \subseteq Ids /\ evicted \subseteq IPs
Typed == ReceiverTyped /\ SessionsTyped /\ JobsTyped /\ MapsTyped

\* What the receiving task and the closers hold at each of their steps.
Phases ==
    /\ recv.pc # "idle" => recv.client \in Clients /\ recv.from \in Sources
    /\ recv.pc \in {"repoint"} \cup Starting <=> recv.id # None
    /\ kind = "proxied" /\ recv.pc # "idle" => recv.from \in Vias
    /\ recv.pc = "link" => kind = "proxied"
    /\ \A x \in Closers :
         /\ job[x].pc \in {"unlink", "release", "abort"} <=> job[x].id # None
         /\ job[x].pc = "idle" => job[x].todo = {}
         /\ x \in Players /\ player[x] # None => job[x].pc = "idle"

\* Session s is listed; is being closed.
Taken(s) == \E c \in Clients : table[c] = s
Closing(s) == \E x \in Closers : job[x].id = s

\* A listed session is its client's, and is not dead.
Listed == \A c \in Open : sess[table[c]].client = c /\ ~sess[table[c]].dead

\* A session that is being closed is listed no more and has one closer, and is dead once
\* it has given its slot back.
ClosedOnce ==
    \A x \in Closers : job[x].id # None =>
      /\ ~Taken(job[x].id)
      /\ \A y \in Closers : job[y].id = job[x].id => y = x
      /\ sess[job[x].id].client \in Clients
      /\ sess[job[x].id].dead <=> job[x].pc = "abort"

\* Until it is inserted, only the receiving task knows the session it sets up, and its
\* client has no other.
SetUp ==
    /\ recv.pc \in {"resolve", "cap", "slot", "open"} => table[recv.client] = None
    /\ recv.pc \in Starting => sess[recv.id].client = recv.client
    /\ recv.pc \in {"open", "link"} => sess[recv.id].via = recv.from
    /\ recv.pc = "open" =>
         /\ ~Taken(recv.id) /\ ~Closing(recv.id)
         /\ ~sess[recv.id].dead /\ ~sess[recv.id].reading
         /\ \A v \in Vias : byVia[v] # recv.id

\* Session s will give a slot back: it is being set up, is listed or is being closed.
Owes(s) ==
    \/ recv.pc = "open" /\ recv.id = s
    \/ Taken(s)
    \/ \E x \in Closers : job[x].id = s /\ job[x].pc # "abort"

\* Every slot taken is still owed.
Owned == \A s \in owners : sess[s].client \in Clients /\ Owes(s)

\* No count exceeds what it counts, and that of logins is exact unless the idle sweep
\* dropped the entry.
SlotsBound == \A ip \in IPs : perIp[ip] <= Cardinality(Holders(ip))
RefsBound == RefsCounted /\ \A ip \in IPs : refs[ip] <= Cardinality(At(ip))

\* Flows lead to sessions that reply there, and only a proxied relay has any.
Linked == ViaMatches /\ (kind # "proxied" => \A v \in Vias : byVia[v] = None)

\* A voice session belongs to a login, or to one that has ended and will close it.
Hooked ==
    kind # "forward" /\ ~raced =>
      /\ recv.pc \in {"cap", "slot", "open"} => At(IpOf[recv.client]) # {}
      /\ \A c \in Open : At(IpOf[c]) = {} =>
           \E p \in Players : job[p].ip = IpOf[c] /\ (job[p].pc = "hook" \/ c \in job[p].todo)

\* A session that is being set up is listed, and a dead one is read only until its closer
\* aborts it.
Watched ==
    ~raced =>
      /\ recv.pc \in {"link", "spawn"} => table[recv.client] = recv.id
      /\ ReadersEnd

\* All of it.  No part is inductive without the ones before it.
IInv ==
    /\ Typed /\ Phases /\ Listed /\ ClosedOnce /\ SetUp
    /\ Owned /\ SlotsBound /\ RefsBound /\ Linked /\ Hooked /\ Watched

-----------------------------------------------------------------------------
(* What the actions do to the three records, field by field.                 *)

ReceiverBecomes(pc, from, client, id, max, perip) ==
    /\ recv' \in ReceiverStates
    /\ recv'.pc = pc /\ recv'.from = from /\ recv'.client = client /\ recv'.id = id
    /\ recv'.caps.max = max /\ recv'.caps.perIp = perip

SessionBecomes(s, client, via, dead, reading) ==
    /\ sess' \in [Ids -> SessionRecords]
    /\ sess'[s].client = client /\ sess'[s].via = via
    /\ (sess'[s].dead <=> dead) /\ (sess'[s].reading <=> reading)
    /\ \A u \in Ids : u # s => sess'[u] = sess[u]

JobBecomes(x, pc, ip, todo, id) ==
    /\ job' \in [Closers -> Jobs]
    /\ job'[x].pc = pc /\ job'[x].ip = ip /\ job'[x].todo = todo /\ job'[x].id = id
    /\ \A y \in Closers : y # x => job'[y] = job[y]

\* The receiving task moves through its steps with what it has received.
LEMMA ReceiverEffects ==
    ASSUME Typed, Phases
    PROVE  /\ recv' = Idle => ReceiverBecomes("idle", None, None, None, 0, 0)
           /\ \A from \in Sources, c \in Clients :
                Receive(from, c) => ReceiverBecomes("find", from, c, None, 0, 0)
           /\ Find => \/ /\ table[recv.client] # None
                         /\ ReceiverBecomes("repoint", recv.from, recv.client, table[recv.client],
                                            recv.caps.max, recv.caps.perIp)
                      \/ /\ table[recv.client] = None
                         /\ ReceiverBecomes(IF kind = "forward" THEN "cap" ELSE "resolve",
                              recv.from, recv.client, None, recv.caps.max, recv.caps.perIp)
           /\ Resolve /\ recv' # Idle =>
                ReceiverBecomes("cap", recv.from, recv.client, None, recv.caps.max, recv.caps.perIp)
           /\ CheckCap /\ recv' # Idle =>
                ReceiverBecomes("slot", recv.from, recv.client, None, throttle.max, recv.caps.perIp)
           /\ \A s \in Ids : AcquireSlot(s) /\ recv' # Idle =>
                ReceiverBecomes("open", recv.from, recv.client, s, recv.caps.max, throttle.perIp)
           /\ Insert => ReceiverBecomes(IF kind = "proxied" THEN "link" ELSE "spawn", recv.from,
                                        recv.client, recv.id, recv.caps.max, recv.caps.perIp)
           /\ Link => ReceiverBecomes("spawn", recv.from, recv.client, recv.id,
                                      recv.caps.max, recv.caps.perIp)
<1> USE UdpAssumption DEF Typed, Phases, ReceiverTyped, MapsTyped, ReceiverStates,
        ReceiverBecomes, Starting
<1>1. recv' = Idle => ReceiverBecomes("idle", None, None, None, 0, 0)
  BY DEF Idle, NoCaps
<1>2. ASSUME NEW from \in Sources, NEW c \in Clients, Receive(from, c)
      PROVE  ReceiverBecomes("find", from, c, None, 0, 0)
  <2>1. recv' = [pc |-> "find", from |-> from, client |-> c, id |-> None, caps |-> NoCaps]
    BY <1>2, Zenon DEF Receive, Idle
  <2> QED BY <2>1 DEF NoCaps
<1>3. ASSUME Find, table[recv.client] # None
      PROVE  ReceiverBecomes("repoint", recv.from, recv.client, table[recv.client],
                             recv.caps.max, recv.caps.perIp)
  BY <1>3, Zenon DEF Find
<1>4. ASSUME Find, table[recv.client] = None
      PROVE  ReceiverBecomes(IF kind = "forward" THEN "cap" ELSE "resolve",
                              recv.from, recv.client, None, recv.caps.max, recv.caps.perIp)
  BY <1>4 DEF Find
<1>5. Resolve /\ recv' # Idle =>
         ReceiverBecomes("cap", recv.from, recv.client, None, recv.caps.max, recv.caps.perIp)
  BY DEF Resolve
<1>6. ASSUME CheckCap, recv' # Idle
      PROVE  ReceiverBecomes("slot", recv.from, recv.client, None, throttle.max, recv.caps.perIp)
  <2>1. recv' = [pc |-> "slot", from |-> recv.from, client |-> recv.client, id |-> None,
                 caps |-> [max |-> throttle.max, perIp |-> recv.caps.perIp]]
    BY <1>6, Zenon DEF CheckCap
  <2> QED BY <2>1
<1>7. ASSUME NEW s \in Ids, AcquireSlot(s), recv' # Idle
      PROVE  ReceiverBecomes("open", recv.from, recv.client, s, recv.caps.max, throttle.perIp)
  <2>1. recv' = [pc |-> "open", from |-> recv.from, client |-> recv.client, id |-> s,
                 caps |-> [max |-> recv.caps.max, perIp |-> throttle.perIp]]
    BY <1>7, Zenon DEF AcquireSlot
  <2> QED BY <2>1
<1>8. Insert => ReceiverBecomes(IF kind = "proxied" THEN "link" ELSE "spawn", recv.from,
                                recv.client, recv.id, recv.caps.max, recv.caps.perIp)
  BY DEF Insert, Goto
<1>9. Link => ReceiverBecomes("spawn", recv.from, recv.client, recv.id,
                              recv.caps.max, recv.caps.perIp)
  BY DEF Link, Goto
<1> QED BY <1>1, <1>2, <1>3, <1>4, <1>5, <1>6, <1>7, <1>8, <1>9 DEF Find

\* A session is set up, repointed, watched, declared dead and aborted, one field at a time.
LEMMA SessionEffects ==
    ASSUME Typed, Phases
    PROVE  /\ Repoint => SessionBecomes(recv.id, sess[recv.id].client, recv.from,
                                        sess[recv.id].dead, sess[recv.id].reading)
           /\ \A s \in Ids : AcquireSlot(s) /\ recv' # Idle =>
                SessionBecomes(s, recv.client, recv.from, FALSE, FALSE)
           /\ Spawn => SessionBecomes(recv.id, sess[recv.id].client, sess[recv.id].via,
                                      sess[recv.id].dead, TRUE)
           /\ \A s \in Ids : ReaderEnds(s) =>
                SessionBecomes(s, sess[s].client, sess[s].via, sess[s].dead, FALSE)
           /\ \A x \in Closers : LET s == job[x].id
              IN /\ Release(x) =>
                      SessionBecomes(s, sess[s].client, sess[s].via, TRUE, sess[s].reading)
                 /\ Abort(x) => SessionBecomes(s, sess[s].client, sess[s].via, sess[s].dead, FALSE)
<1> USE UdpAssumption DEF SessionBecomes
<1>0. /\ sess \in [Ids -> SessionRecords]
      /\ recv.pc \in {"repoint"} \cup Starting => recv.id \in Ids
      /\ recv.pc # "idle" => recv.from \in Sources /\ recv.client \in Clients
      /\ \A x \in Closers : job[x].pc \in {"release", "abort"} => job[x].id \in Ids
  BY DEF Typed, Phases, SessionsTyped, ReceiverTyped, ReceiverStates, JobsTyped, Jobs
<1>1. ASSUME NEW s \in Ids
      PROVE  /\ sess' = [sess EXCEPT ![s].reading = TRUE] =>
                SessionBecomes(s, sess[s].client, sess[s].via, sess[s].dead, TRUE)
             /\ sess' = [sess EXCEPT ![s].reading = FALSE] =>
                SessionBecomes(s, sess[s].client, sess[s].via, sess[s].dead, FALSE)
             /\ sess' = [sess EXCEPT ![s].dead = TRUE] =>
                SessionBecomes(s, sess[s].client, sess[s].via, TRUE, sess[s].reading)
  <2>1. /\ [sess[s] EXCEPT !.reading = TRUE] \in SessionRecords
        /\ [sess[s] EXCEPT !.reading = FALSE] \in SessionRecords
        /\ [sess[s] EXCEPT !.dead = TRUE] \in SessionRecords
    BY <1>0, Zenon DEF SessionRecords
  <2>2. /\ sess' = [sess EXCEPT ![s].reading = TRUE] => sess' \in [Ids -> SessionRecords]
        /\ sess' = [sess EXCEPT ![s].reading = FALSE] => sess' \in [Ids -> SessionRecords]
        /\ sess' = [sess EXCEPT ![s].dead = TRUE] => sess' \in [Ids -> SessionRecords]
    BY <1>0, <2>1, Zenon
  <2>3. sess' = [sess EXCEPT ![s].reading = TRUE] =>
                SessionBecomes(s, sess[s].client, sess[s].via, sess[s].dead, TRUE)
    BY <1>0, <2>2 DEF SessionRecords
  <2>4. sess' = [sess EXCEPT ![s].reading = FALSE] =>
                SessionBecomes(s, sess[s].client, sess[s].via, sess[s].dead, FALSE)
    BY <1>0, <2>2 DEF SessionRecords
  <2>5. sess' = [sess EXCEPT ![s].dead = TRUE] =>
                SessionBecomes(s, sess[s].client, sess[s].via, TRUE, sess[s].reading)
    BY <1>0, <2>2 DEF SessionRecords
  <2> QED BY <2>3, <2>4, <2>5
<1>2. ASSUME Repoint
      PROVE  SessionBecomes(recv.id, sess[recv.id].client, recv.from,
                            sess[recv.id].dead, sess[recv.id].reading)
  <2> DEFINE s == recv.id
  <2>1. s \in Ids /\ recv.from \in Sources /\ sess' = [sess EXCEPT ![s].via = recv.from]
    BY <1>0, <1>2 DEF Repoint
  <2>2. [sess[s] EXCEPT !.via = recv.from] \in SessionRecords
    BY <1>0, <2>1, Zenon DEF SessionRecords
  <2>3. sess' \in [Ids -> SessionRecords]
    BY <1>0, <2>1, <2>2
  <2> QED BY <1>0, <2>1, <2>3, Zenon DEF SessionRecords
<1>3. ASSUME NEW s \in Ids, AcquireSlot(s), recv' # Idle
      PROVE  SessionBecomes(s, recv.client, recv.from, FALSE, FALSE)
  <2> DEFINE r == [NoSession EXCEPT !.client = recv.client, !.via = recv.from]
  <2>0. /\ r.client = recv.client /\ r.via = recv.from /\ ~r.dead /\ ~r.reading
        /\ recv.client \in Clients /\ recv.from \in Sources => r \in SessionRecords
    BY Zenon DEF NoSession, SessionRecords
  <2>1. recv.client \in Clients /\ recv.from \in Sources
        /\ sess' = [sess EXCEPT ![s] = r]
    BY <1>0, <1>3 DEF AcquireSlot
  <2> HIDE DEF r
  <2> QED BY <1>0, <2>0, <2>1
<1>4. Spawn => SessionBecomes(recv.id, sess[recv.id].client, sess[recv.id].via,
                              sess[recv.id].dead, TRUE)
  BY <1>0, <1>1, Zenon DEF Spawn, Starting
<1>5. ASSUME NEW s \in Ids, ReaderEnds(s)
      PROVE  SessionBecomes(s, sess[s].client, sess[s].via, sess[s].dead, FALSE)
  BY <1>1, <1>5, Zenon DEF ReaderEnds
<1>6. ASSUME NEW x \in Closers
      PROVE  LET s == job[x].id
              IN /\ Release(x) =>
                      SessionBecomes(s, sess[s].client, sess[s].via, TRUE, sess[s].reading)
                 /\ Abort(x) => SessionBecomes(s, sess[s].client, sess[s].via, sess[s].dead, FALSE)
  BY <1>0, <1>1, Zenon DEF Release, Abort, Aborted
<1> QED BY <1>2, <1>3, <1>4, <1>5, <1>6

\* A closer's job.
LEMMA JobEffects ==
    ASSUME Typed
    PROVE  /\ \A p \in Players :
                /\ Unregister(p) /\ IsLast(player[p]) => JobBecomes(p, "hook", player[p], {}, None)
                /\ DisconnectClient(p) =>
                     JobBecomes(p, "next", job[p].ip, OpenAt(job[p].ip), job[p].id)
           /\ \A stale \in SUBSET Clients :
                EvictStale(stale) => JobBecomes("reaper", "next", None, stale, None)
           /\ \A x \in Closers :
                /\ \A c \in Clients : RemoveNext(x, c) =>
                     JobBecomes(x, IF table[c] = None THEN "next" ELSE "unlink", job[x].ip,
                                job[x].todo \ {c}, table[c])
                /\ Done(x) => JobBecomes(x, "idle", None, {}, None)
                /\ Unlink(x) => JobBecomes(x, "release", job[x].ip, job[x].todo, job[x].id)
                /\ Release(x) => JobBecomes(x, "abort", job[x].ip, job[x].todo, job[x].id)
                /\ Abort(x) => JobBecomes(x, "next", job[x].ip, job[x].todo, None)
<1> USE DEF JobBecomes, Jobs
<1>0. /\ job \in [Closers -> Jobs]
      /\ \A c \in Clients : table[c] \in Ids \cup {None}
      /\ \A p \in Players : player[p] \in IPs \cup {None}
      /\ "reaper" \in Closers /\ Players \subseteq Closers
  BY DEF Typed, JobsTyped, MapsTyped, Closers
<1>1. ASSUME NEW p \in Players, Unregister(p), IsLast(player[p])
      PROVE  JobBecomes(p, "hook", player[p], {}, None)
  <2> DEFINE j == [NoJob EXCEPT !.pc = "hook", !.ip = player[p]]
  <2>1. j \in Jobs /\ j.pc = "hook" /\ j.ip = player[p] /\ j.todo = {} /\ j.id = None
    BY <1>0, Zenon DEF NoJob
  <2>2. job' = [job EXCEPT ![p] = j]
    BY <1>1 DEF Unregister
  <2> HIDE DEF j
  <2> QED BY <1>0, <2>1, <2>2
<1>2. ASSUME NEW p \in Players, DisconnectClient(p)
      PROVE  JobBecomes(p, "next", job[p].ip, OpenAt(job[p].ip), job[p].id)
  <2>1. p \in Closers /\ OpenAt(job[p].ip) \in SUBSET Clients
    BY <1>0 DEF OpenAt, Open
  <2>2. /\ job'[p] = [pc |-> "next", ip |-> job[p].ip, todo |-> OpenAt(job[p].ip), id |-> job[p].id]
        /\ \A y \in Closers : y # p => job'[y] = job[y]
    BY <1>0, <1>2, <2>1, Zenon DEF DisconnectClient, ToClose
  <2>3. job' = [y \in Closers |-> job'[y]]
    BY <1>0, <1>2, Zenon DEF DisconnectClient
  <2>4. \A y \in Closers : job'[y] \in Jobs
    BY <1>0, <2>1, <2>2
  <2> QED BY <2>1, <2>2, <2>3, <2>4
<1>3. ASSUME NEW stale \in SUBSET Clients, EvictStale(stale)
      PROVE  JobBecomes("reaper", "next", None, stale, None)
  <2> DEFINE j == [NoJob EXCEPT !.pc = "next", !.todo = stale]
  <2>1. j \in Jobs /\ j.pc = "next" /\ j.ip = None /\ j.todo = stale /\ j.id = None
    BY Zenon DEF NoJob
  <2>2. job' = [job EXCEPT !["reaper"] = j]
    BY <1>3 DEF EvictStale
  <2> HIDE DEF j
  <2> QED BY <1>0, <2>1, <2>2
<1>4. ASSUME NEW x \in Closers, NEW c \in Clients, RemoveNext(x, c)
      PROVE  JobBecomes(x, IF table[c] = None THEN "next" ELSE "unlink", job[x].ip,
                        job[x].todo \ {c}, table[c])
  <2>1. /\ job'[x] = [pc |-> IF table[c] = None THEN "next" ELSE "unlink", ip |-> job[x].ip,
                      todo |-> job[x].todo \ {c}, id |-> table[c]]
        /\ \A y \in Closers : y # x => job'[y] = job[y]
    BY <1>0, <1>4, Zenon DEF RemoveNext
  <2>2. job' = [y \in Closers |-> job'[y]]
    BY <1>0, <1>4, Zenon DEF RemoveNext
  <2>3. \A y \in Closers : job'[y] \in Jobs
    BY <1>0, <2>1
  <2> QED BY <2>1, <2>2, <2>3
<1>5. ASSUME NEW x \in Closers, Done(x)
      PROVE  JobBecomes(x, "idle", None, {}, None)
  BY <1>0, <1>5 DEF Done, NoJob
<1>6. ASSUME NEW x \in Closers, Unlink(x)
      PROVE  JobBecomes(x, "release", job[x].ip, job[x].todo, job[x].id)
  BY <1>0, <1>6, SMTT(30) DEF Unlink
<1>7. ASSUME NEW x \in Closers, Release(x)
      PROVE  JobBecomes(x, "abort", job[x].ip, job[x].todo, job[x].id)
  BY <1>0, <1>7, SMTT(30) DEF Release
<1>8. ASSUME NEW x \in Closers, Abort(x)
      PROVE  JobBecomes(x, "next", job[x].ip, job[x].todo, None)
  <2>1. /\ job'[x] = [pc |-> "next", ip |-> job[x].ip, todo |-> job[x].todo, id |-> None]
        /\ \A y \in Closers : y # x => job'[y] = job[y]
    BY <1>0, <1>8, Zenon DEF Abort
  <2>2. job' = [y \in Closers |-> job'[y]]
    BY <1>0, <1>8, Zenon DEF Abort
  <2>3. \A y \in Closers : job'[y] \in Jobs
    BY <1>0, <2>1
  <2> QED BY <2>1, <2>2, <2>3
<1> QED BY <1>1, <1>2, <1>3, <1>4, <1>5, <1>6, <1>7, <1>8

SlotRefused ==
    /\ recv.pc = "slot"
    /\ ReceiverBecomes("idle", None, None, None, 0, 0)
    /\ UNCHANGED <<kind, throttle, routing, maps, sess, job, owners, raced>>

SlotTaken(s) ==
    /\ recv.pc = "slot"
    /\ \A c \in Clients : table[c] # s
    /\ \A v \in Vias : byVia[v] # s
    /\ \A x \in Closers : job[x].id # s
    /\ ReceiverBecomes("open", recv.from, recv.client, s, recv.caps.max, throttle.perIp)
    /\ SessionBecomes(s, recv.client, recv.from, FALSE, FALSE)
    /\ IF throttle.perIp > 0
         THEN /\ perIp' = [perIp EXCEPT ![IpOf[recv.client]] = @ + 1]
              /\ perIp[IpOf[recv.client]] + 1 <= throttle.perIp
              /\ owners' = owners \cup {s}
         ELSE UNCHANGED <<perIp, owners>>
    /\ UNCHANGED <<kind, throttle, routing, table, byVia, job, raced>>

\* acquire_ip_slot refuses and the datagram is dropped, or a session nobody else has is
\* set up, with a slot if sessions are counted.
LEMMA SlotEffects ==
    ASSUME Typed, Phases, NEW s \in Ids, AcquireSlot(s)
    PROVE  SlotRefused \/ SlotTaken(s)
<1> DEFINE over == throttle.perIp > 0 /\ OverIpCap(perIp[IpOf[recv.client]] + 1, throttle.perIp)
<1>1. CASE over
  BY <1>1, ReceiverEffects, Zenon DEF AcquireSlot, SlotRefused, maps
<1>2. CASE ~over
  <2>1. recv' = [recv EXCEPT !.pc = "open", !.id = s, !.caps.perIp = throttle.perIp]
    BY <1>2 DEF AcquireSlot
  <2>2. recv'.pc = "open"
    BY <2>1 DEF Typed, ReceiverTyped, ReceiverStates
  <2>3. recv' # Idle
    BY <2>2 DEF Idle
  <2>4. /\ ReceiverBecomes("open", recv.from, recv.client, s, recv.caps.max, throttle.perIp)
        /\ SessionBecomes(s, recv.client, recv.from, FALSE, FALSE)
    BY <2>3, ReceiverEffects, SessionEffects, Zenon
  <2>5. /\ perIp \in [IPs -> Nat] /\ throttle.perIp \in Int
        /\ IpOf[recv.client] \in IPs
    BY UdpAssumption DEF Typed, MapsTyped, Phases, AcquireSlot
  <2>6. IF throttle.perIp > 0
          THEN /\ perIp' = [perIp EXCEPT ![IpOf[recv.client]] = @ + 1]
               /\ perIp[IpOf[recv.client]] + 1 <= throttle.perIp
               /\ owners' = owners \cup {s}
          ELSE UNCHANGED <<perIp, owners>>
    BY <1>2, <2>5 DEF AcquireSlot, OverIpCap
  <2> QED BY <2>4, <2>6, Zenon DEF SlotTaken, AcquireSlot, InUse, routing
<1> QED BY <1>1, <1>2

-----------------------------------------------------------------------------
(* Every step keeps the invariant.                                           *)

\* Who is who, from the types.
Facts ==
    /\ None \notin Ids /\ None \notin IPs
    /\ \A c \in Clients : IpOf[c] \in IPs
    /\ table \in [Clients -> Ids \cup {None}] /\ byVia \in [Vias -> Ids \cup {None}]
    /\ sess \in [Ids -> SessionRecords] /\ recv.id \in Ids \cup {None}
    /\ recv.pc \in {"repoint", "open", "link", "spawn"} => recv.id \in Ids
    /\ recv.pc # "idle" => recv.client \in Clients /\ recv.from \in Sources
    /\ job \in [Closers -> Jobs]
    /\ \A x \in Closers : /\ job[x].id \in Ids \cup {None}
                          /\ job[x].pc \in {"unlink", "release", "abort"} => job[x].id \in Ids
    /\ perIp \in [IPs -> Nat] /\ refs \in [IPs -> Nat] /\ owners \subseteq Ids
    /\ player \in [Players -> IPs \cup {None}]
    /\ Players \subseteq Closers /\ "reaper" \in Closers /\ "reaper" \notin Players

\* The facts about types that the steps below use.
LEMMA Known == IInv => Facts
  BY UdpAssumption DEF IInv, Facts, Typed, ReceiverTyped, SessionsTyped, JobsTyped, MapsTyped,
     ReceiverStates, Jobs, Phases, Closers, Starting

\* A conjunct holds as long as what it speaks of stays as it is.
LEMMA Frames ==
    ASSUME IInv
    PROVE  /\ UNCHANGED recv => ReceiverTyped'
           /\ UNCHANGED sess => SessionsTyped'
           /\ UNCHANGED job => JobsTyped'
           /\ UNCHANGED <<kind, throttle, refs, player, table, byVia, perIp, owners, evicted>>
                => MapsTyped'
           /\ UNCHANGED <<kind, recv, job, player>> => Phases'
           /\ UNCHANGED <<table, sess>> => Listed'
           /\ UNCHANGED <<table, sess, job>> => ClosedOnce'
           /\ UNCHANGED <<recv, table, byVia, sess, job>> => SetUp'
           /\ UNCHANGED <<owners, recv, table, job, sess>> => Owned'
           /\ UNCHANGED <<perIp, owners, sess>> => SlotsBound'
           /\ UNCHANGED <<refs, player, evicted>> => RefsBound'
           /\ UNCHANGED <<kind, byVia, sess>> => Linked'
           /\ UNCHANGED <<kind, raced, recv, player, table, job>> => Hooked'
           /\ UNCHANGED <<raced, recv, table, sess, job>> => Watched'
<1>1. /\ UNCHANGED recv => ReceiverTyped'
      /\ UNCHANGED sess => SessionsTyped'
      /\ UNCHANGED job => JobsTyped'
      /\ UNCHANGED <<kind, throttle, refs, player, table, byVia, perIp, owners, evicted>>
           => MapsTyped'
      /\ UNCHANGED <<kind, recv, job, player>> => Phases'
  BY Zenon DEF IInv, Typed, ReceiverTyped, SessionsTyped, JobsTyped, MapsTyped, Phases
<1>2. /\ UNCHANGED <<table, sess>> => Listed'
      /\ UNCHANGED <<recv, table, byVia, sess, job>> => SetUp'
  BY DEF IInv, Listed, SetUp, Taken, Closing, Open
<1>9. UNCHANGED <<table, sess, job>> => ClosedOnce'
  BY DEF IInv, ClosedOnce, Taken
<1>3. UNCHANGED <<owners, recv, table, job, sess>> => Owned'
  BY Zenon DEF IInv, Owned, Owes, Taken
<1>4. UNCHANGED <<perIp, owners, sess>> => SlotsBound'
  BY Zenon DEF IInv, SlotsBound, Holders
<1>5. UNCHANGED <<refs, player, evicted>> => RefsBound'
  BY Zenon DEF IInv, RefsBound, RefsCounted, At
<1>6. UNCHANGED <<kind, byVia, sess>> => Linked'
  BY Zenon DEF IInv, Linked, ViaMatches
<1>7. UNCHANGED <<kind, raced, recv, player, table, job>> => Hooked'
  BY DEF IInv, Hooked, At, Open
<1>8. UNCHANGED <<raced, recv, table, sess, job>> => Watched'
  BY DEF IInv, Watched, ReadersEnd
<1> QED BY <1>1, <1>2, <1>3, <1>4, <1>5, <1>6, <1>7, <1>8, <1>9, Zenon

\* A session that gives a slot back: the count of its address stays within the slots.
LEMMA SlotReturned ==
    ASSUME IInv, NEW s \in Ids, sess[s].client \in Clients, ReleaseSlot(s),
           \A u \in Ids : sess'[u].client = sess[u].client
    PROVE  perIp' \in [IPs -> Nat] /\ owners' \subseteq Ids /\ SlotsBound'
<1>1. Facts /\ SlotsBound
  BY Known, Zenon DEF IInv
<1>2. /\ perIp' \in [IPs -> Nat] /\ owners' = owners \ {s}
      /\ \A ip \in IPs : perIp'[ip] = IF ip # IpOf[sess[s].client] THEN perIp[ip]
                                      ELSE IF perIp[ip] > 0 THEN perIp[ip] - 1 ELSE 0
  BY <1>1 DEF Facts, ReleaseSlot
<1>3. ASSUME NEW ip \in IPs
      PROVE  perIp'[ip] <= Cardinality(Holders(ip)')
  <2>1. IsFiniteSet(Holders(ip)) /\ Cardinality(Holders(ip)) \in Nat
    BY <1>1, UdpAssumption, FS_Subset, FS_CardinalityType DEF Holders, Facts
  <2>2. Holders(ip)' = Holders(ip) \ {s}
    BY <1>1, <1>2 DEF Holders, Facts
  <2>3. s \notin Holders(ip) => Holders(ip)' = Holders(ip)
    BY <2>2
  <2>4. s \in Holders(ip) => /\ Cardinality(Holders(ip)') = Cardinality(Holders(ip)) - 1
                             /\ Cardinality(Holders(ip)') \in Nat
                             /\ ip = IpOf[sess[s].client]
    BY <2>1, <2>2, FS_RemoveElement, FS_CardinalityType, Zenon DEF Holders
  <2>5. perIp[ip] <= Cardinality(Holders(ip)) /\ perIp[ip] \in Nat
    BY <1>1 DEF SlotsBound, Facts
  <2> QED BY <1>2, <2>1, <2>3, <2>4, <2>5
<1> QED BY <1>1, <1>2, <1>3 DEF SlotsBound, Facts

\* The logins at an address are finitely many.
LEMMA LoginsFinite ==
    ASSUME NEW ip
    PROVE  /\ IsFiniteSet(At(ip)) /\ Cardinality(At(ip)) \in Nat
           /\ At(ip) = {} => Cardinality(At(ip)) = 0
           /\ \A p : At(ip) = {p} => Cardinality(At(ip)) = 1
  BY UdpAssumption, FS_Subset, FS_CardinalityType, FS_EmptySet, FS_Singleton, Zenon DEF At

\* A datagram arrives: the receiving task only notes whose it is.
LEMMA ReceiveStep ==
    ASSUME IInv, NEW from \in Sources, NEW c \in Clients, Receive(from, c)
    PROVE  IInv'
<1>1. Facts
  BY Known
<1>2. ReceiverBecomes("find", from, c, None, 0, 0)
  BY ReceiverEffects, Zenon DEF IInv
<1>3. ReceiverTyped'
  BY <1>2 DEF ReceiverBecomes, ReceiverTyped
<1>4. Phases'
  BY <1>1, <1>2 DEF IInv, Facts, Receive, routing, maps, ReceiverBecomes, Phases,
     Starting, Closers, Sources
<1>5. SetUp'
  BY DEF Receive, SetUp, Starting
<1>6. Owned'
  BY <1>1, <1>2 DEF IInv, Facts, Receive, routing, maps, ReceiverBecomes, Owned, Owes,
     Taken, Listed, Open, Closing, ClosedOnce, SetUp, Starting
<1>7. Hooked'
  BY <1>1, <1>2 DEF IInv, Facts, Receive, routing, maps, ReceiverBecomes, Hooked, At,
     Open, OpenAt
<1>8. Watched'
  BY <1>1, <1>2 DEF IInv, Facts, Receive, routing, maps, ReceiverBecomes, Watched,
     ReadersEnd, Listed, Open, Taken, Closing, ClosedOnce, SetUp, Starting
<1>9. SessionsTyped' /\ JobsTyped' /\ MapsTyped' /\ Listed' /\ ClosedOnce' /\
   SlotsBound' /\ RefsBound' /\ Linked'
  BY Frames, Zenon DEF Receive, routing, maps
<1> QED BY <1>3, <1>4, <1>5, <1>6, <1>7, <1>8, <1>9, Zenon DEF IInv, Typed

\* The lookup finds the client's session, which nobody is setting up, or none.
LEMMA FindStep ==
    ASSUME IInv, Find
    PROVE  IInv'
<1>1. Facts
  BY Known
<1>2. \/ /\ table[recv.client] # None
         /\ ReceiverBecomes("repoint", recv.from, recv.client, table[recv.client],
                            recv.caps.max, recv.caps.perIp)
      \/ /\ table[recv.client] = None
         /\ ReceiverBecomes(IF kind = "forward" THEN "cap" ELSE "resolve", recv.from,
                            recv.client, None, recv.caps.max, recv.caps.perIp)
  BY ReceiverEffects, Zenon DEF IInv
<1>3. ReceiverTyped'
  BY <1>2 DEF ReceiverBecomes, ReceiverTyped
<1>4. Phases'
  BY DEF IInv, Find, routing, Phases, Starting, Closers
<1>5. SetUp'
  BY DEF IInv, Find, maps, SetUp, Starting, Taken
<1>6. Owned'
  BY <1>1, <1>2 DEF IInv, Facts, Find, routing, maps, ReceiverBecomes, Owned, Owes,
     Taken, Listed, Open, Closing, ClosedOnce, SetUp, Starting
<1>7. Hooked'
  BY <1>1, <1>2 DEF IInv, Facts, Find, routing, maps, ReceiverBecomes, Hooked, At, Open,
     OpenAt
<1>8. Watched'
  BY <1>1, <1>2 DEF IInv, Facts, Find, routing, maps, ReceiverBecomes, Watched,
     ReadersEnd, Listed, Open, Taken, Closing, ClosedOnce, SetUp, Starting
<1>9. SessionsTyped' /\ JobsTyped' /\ MapsTyped' /\ Listed' /\ ClosedOnce' /\
   SlotsBound' /\ RefsBound' /\ Linked'
  BY Frames, Zenon DEF Find, routing, maps
<1> QED BY <1>3, <1>4, <1>5, <1>6, <1>7, <1>8, <1>9, Zenon DEF IInv, Typed

\* The session's replies and its flow move to the new source together.
LEMMA RepointStep ==
    ASSUME IInv, Repoint
    PROVE  IInv'
<1>1. Facts
  BY Known
<1>2. ReceiverBecomes("idle", None, None, None, 0, 0)
  BY ReceiverEffects, Zenon DEF IInv, Repoint
<1>3. SessionBecomes(recv.id, sess[recv.id].client, recv.from, sess[recv.id].dead,
                     sess[recv.id].reading)
  BY SessionEffects, Zenon DEF IInv
<1>4. ReceiverTyped'
  BY <1>2, <1>3 DEF ReceiverBecomes, SessionBecomes, ReceiverTyped
<1>5. SessionsTyped'
  BY <1>2, <1>3, Zenon DEF ReceiverBecomes, SessionBecomes, SessionsTyped
<1>6. MapsTyped'
  BY <1>1, <1>2, <1>3, Zenon DEF IInv, Facts, Repoint, Repointed, routing, maps,
     ReceiverBecomes, SessionBecomes, MapsTyped, Typed
<1>7. Phases'
  BY <1>1, <1>2, <1>3 DEF IInv, Facts, Repoint, Repointed, routing, maps,
     ReceiverBecomes, SessionBecomes, Phases, Starting, Closers, Sources
<1>8. Listed'
  BY DEF IInv, Facts, Repoint, Repointed, Listed, Open
<1>9. ClosedOnce'
  BY <1>1, <1>2, <1>3 DEF IInv, Facts, Repoint, Repointed, routing, maps,
     ReceiverBecomes, SessionBecomes, ClosedOnce, Taken, Closing, Open, Listed, SetUp,
     Starting
<1>10. SetUp'
  BY <1>2, Zenon DEF ReceiverBecomes, SessionBecomes, SetUp, Starting
<1>11. Owned'
  BY <1>1, <1>2, <1>3 DEF IInv, Facts, Repoint, Repointed, routing, maps,
     ReceiverBecomes, SessionBecomes, Owned, Owes, Taken, Listed, Open, Closing,
     ClosedOnce, SetUp, Starting
<1>12. SlotsBound'
  BY <1>2 DEF IInv, Repoint, SlotsBound, Holders
<1>13. Linked'
  BY <1>1, <1>2, <1>3 DEF IInv, Facts, Repoint, Repointed, routing, maps,
     ReceiverBecomes, SessionBecomes, Linked, ViaMatches, SetUp, Starting, Taken,
     Closing, Open
<1>14. Hooked'
  BY <1>1, <1>2, <1>3 DEF IInv, Facts, Repoint, Repointed, routing, maps,
     ReceiverBecomes, SessionBecomes, Hooked, At, Open, OpenAt
<1>15. Watched'
  BY <1>1, <1>2, <1>3 DEF IInv, Facts, Repoint, Repointed, routing, maps,
     ReceiverBecomes, SessionBecomes, Watched, ReadersEnd, Listed, Open, Taken, Closing,
     ClosedOnce, SetUp, Starting
<1>16. JobsTyped' /\ RefsBound'
  BY Frames, Zenon DEF Repoint, Repointed, routing, maps
<1> QED BY <1>4, <1>5, <1>6, <1>7, <1>8, <1>9, <1>10, <1>11, <1>12, <1>13, <1>14, <1>15,
   <1>16, Zenon DEF IInv, Typed

\* An entry for the address means that a login is there.
LEMMA ResolveStep ==
    ASSUME IInv, Resolve
    PROVE  IInv'
<1>1. Facts
  BY Known
<1>2. \/ ReceiverBecomes("idle", None, None, None, 0, 0)
      \/ /\ refs[IpOf[recv.client]] # 0
         /\ ReceiverBecomes("cap", recv.from, recv.client, None, recv.caps.max, recv.caps.perIp)
  BY ReceiverEffects, Zenon DEF IInv, Resolve
<1>3. ReceiverTyped'
  BY <1>2, Zenon DEF ReceiverBecomes, ReceiverTyped
<1>4. Phases'
  BY <1>1, <1>2 DEF IInv, Resolve, routing, ReceiverBecomes, Phases, Starting, Closers,
     Sources
<1>5. SetUp'
  BY <1>1, <1>2, Zenon DEF IInv, Resolve, routing, maps, ReceiverBecomes, SetUp,
     Starting, Taken, ClosedOnce
<1>6. Owned'
  BY Zenon DEF IInv, Resolve, routing, maps, ReceiverBecomes, Owned, Owes, Taken, Listed
<1>7. Hooked'
  <2>1. recv.pc = "resolve" /\ refs[IpOf[recv.client]] # 0 => At(IpOf[recv.client]) # {}
    BY <1>1, LoginsFinite DEF IInv, Facts, RefsBound
  <2> QED BY <1>1, <1>2, <2>1 DEF IInv, Resolve, routing, maps, ReceiverBecomes, Hooked, At, Open
<1>8. Watched'
  BY <1>1, <1>2 DEF IInv, Facts, Resolve, routing, maps, ReceiverBecomes, Watched,
     ReadersEnd, Listed, Open, Taken, Closing, ClosedOnce, SetUp, Starting
<1>9. SessionsTyped' /\ JobsTyped' /\ MapsTyped' /\ Listed' /\ ClosedOnce' /\
   SlotsBound' /\ RefsBound' /\ Linked'
  BY Frames, Zenon DEF Resolve, routing, maps
<1> QED BY <1>3, <1>4, <1>5, <1>6, <1>7, <1>8, <1>9, Zenon DEF IInv, Typed

\* The session cap is looked at, nothing else.
LEMMA CheckCapStep ==
    ASSUME IInv, CheckCap
    PROVE  IInv'
<1>1. Facts
  BY Known
<1>2. \/ ReceiverBecomes("idle", None, None, None, 0, 0)
      \/ /\ ~Full(throttle.max)
         /\ ReceiverBecomes("slot", recv.from, recv.client, None, throttle.max, recv.caps.perIp)
  BY ReceiverEffects, Zenon DEF IInv, CheckCap
<1>3. ReceiverTyped'
  BY <1>2 DEF ReceiverBecomes, ReceiverTyped
<1>4. Phases'
  BY <1>1, <1>2 DEF IInv, Facts, CheckCap, routing, maps, ReceiverBecomes, Phases,
     Starting, Closers, Sources
<1>5. SetUp'
  BY <1>2, Zenon DEF IInv, CheckCap, maps, ReceiverBecomes, SetUp, Starting
<1>6. Owned'
  BY <1>1, <1>2 DEF IInv, Facts, CheckCap, routing, maps, ReceiverBecomes, Owned, Owes,
     Taken, Listed, Open, Closing, ClosedOnce, SetUp, Starting
<1>7. Hooked'
  BY <1>2 DEF IInv, CheckCap, routing, maps, ReceiverBecomes, Hooked, At, Open
<1>8. Watched'
  BY <1>1, <1>2 DEF IInv, Facts, CheckCap, routing, maps, ReceiverBecomes, Watched,
     ReadersEnd, Listed, Open, Taken, Closing, ClosedOnce, SetUp, Starting
<1>9. SessionsTyped' /\ JobsTyped' /\ MapsTyped' /\ Listed' /\ ClosedOnce' /\
   SlotsBound' /\ RefsBound' /\ Linked'
  BY Frames, Zenon DEF CheckCap, routing, maps
<1> QED BY <1>3, <1>4, <1>5, <1>6, <1>7, <1>8, <1>9, Zenon DEF IInv, Typed

\* A slot is refused: the datagram is dropped and nothing else happens.
LEMMA SlotRefusedStep ==
    ASSUME IInv, SlotRefused
    PROVE  IInv'
<1>1. /\ recv' \in ReceiverStates /\ recv.pc = "slot" /\ recv'.pc = "idle" /\ recv'.id = None
      /\ UNCHANGED <<kind, throttle, refs, player, evicted, table, byVia, perIp, sess, job,
                     owners, raced>>
  BY Zenon DEF SlotRefused, ReceiverBecomes, routing, maps
<1>2. ReceiverTyped' /\ Phases'
  BY <1>1 DEF IInv, ReceiverTyped, Phases, Starting
<1>3. SetUp' /\ Owned'
  BY <1>1 DEF IInv, SetUp, Owned, Owes, Taken, Starting
<1>4. Hooked' /\ Watched'
  BY <1>1 DEF IInv, Hooked, At, Open, Watched, ReadersEnd
<1>5. /\ SessionsTyped' /\ JobsTyped' /\ MapsTyped' /\ Listed' /\ ClosedOnce' /\ SlotsBound'
      /\ RefsBound' /\ Linked'
  BY <1>1, Frames, Zenon
<1> QED BY <1>2, <1>3, <1>4, <1>5, Zenon DEF IInv, Typed

\* A slot is taken for a session object nobody else has.
LEMMA SlotTakenStep ==
    ASSUME IInv, NEW s \in Ids, SlotTaken(s)
    PROVE  IInv'
<1>1. Facts
  BY Known
<1>2. /\ recv' \in ReceiverStates /\ recv.pc = "slot" /\ recv'.pc = "open" /\ recv'.id = s
      /\ recv'.client = recv.client /\ recv'.from = recv.from
      /\ recv.client \in Clients /\ recv.from \in Sources
      /\ UNCHANGED <<kind, throttle, refs, player, evicted, table, byVia, job, raced>>
  BY <1>1, Zenon DEF SlotTaken, ReceiverBecomes, Facts, routing
<1>3. /\ sess' \in [Ids -> SessionRecords]
      /\ sess'[s].client = recv.client /\ sess'[s].via = recv.from
      /\ ~sess'[s].dead /\ ~sess'[s].reading
      /\ \A u \in Ids : u # s => sess'[u] = sess[u]
  BY Zenon DEF SlotTaken, SessionBecomes
<1>4. ~Taken(s) /\ ~Closing(s) /\ \A v \in Vias : byVia[v] # s
  BY Zenon DEF SlotTaken, Taken, Closing
<1>5. s \notin owners
  BY <1>2, <1>4, Zenon DEF IInv, Owned, Owes, Taken, Closing
<1>6. \/ UNCHANGED <<perIp, owners>>
      \/ /\ perIp' = [perIp EXCEPT ![IpOf[recv.client]] = perIp[IpOf[recv.client]] + 1]
         /\ owners' = owners \cup {s}
  BY Zenon DEF SlotTaken
<1>7. ReceiverTyped' /\ SessionsTyped'
  BY <1>2, <1>3, Zenon DEF ReceiverTyped, SessionsTyped
<1>8. MapsTyped'
  <2>1. perIp' \in [IPs -> Nat] /\ owners' \subseteq Ids
    BY <1>1, <1>6 DEF Facts
  <2> QED BY <1>2, <2>1, Zenon DEF IInv, Typed, MapsTyped
<1>9. Phases'
  BY <1>1, <1>2 DEF IInv, Facts, Phases, Starting
<1>10. Listed' /\ ClosedOnce'
  <2>1. \A u \in Ids : Taken(u) \/ Closing(u) => sess'[u] = sess[u]
    BY <1>3, <1>4, Zenon
  <2>2. Listed'
    BY <1>1, <1>2, <2>1 DEF IInv, Facts, Listed, Open, Taken
  <2>3. ClosedOnce'
    BY <1>1, <1>2, <2>1, Zenon DEF IInv, Facts, ClosedOnce, Taken, Closing
  <2> QED BY <2>2, <2>3
<1>11. SetUp'
  <2>1. table[recv.client] = None
    BY <1>2, Zenon DEF IInv, SetUp
  <2> QED BY <1>2, <1>3, <1>4, <2>1 DEF SetUp, Starting, Taken, Closing
<1>12. Owned'
  <2> SUFFICES ASSUME NEW u \in owners'
               PROVE  sess'[u].client \in Clients /\ Owes(u)'
    BY DEF Owned
  <2>1. CASE u = s
    BY <1>2, <1>3, <2>1, Zenon DEF Owes
  <2>2. CASE u # s
    <3>1. u \in owners /\ u \in Ids
      <4>1. owners' = owners \/ owners' = owners \cup {s}
        BY <1>6, Zenon
      <4> QED BY <1>1, <2>2, <4>1 DEF Facts
    <3>2. sess[u].client \in Clients /\ Owes(u) /\ sess'[u] = sess[u]
      BY <1>3, <2>2, <3>1, Zenon DEF IInv, Owned
    <3> QED BY <1>2, <3>2, Zenon DEF Owes, Taken
  <2> QED BY <2>1, <2>2
<1>13. SlotsBound'
  <2> SUFFICES ASSUME NEW ip \in IPs
               PROVE  perIp'[ip] <= Cardinality(Holders(ip)')
    BY Zenon DEF SlotsBound
  <2>1. IsFiniteSet(Holders(ip)) /\ Cardinality(Holders(ip)) \in Nat
    BY <1>1, UdpAssumption, FS_Subset, FS_CardinalityType, Zenon DEF Holders, Facts
  <2>2. perIp[ip] <= Cardinality(Holders(ip)) /\ perIp[ip] \in Nat
    BY <1>1, Zenon DEF IInv, SlotsBound, Facts
  <2>3. \A u \in owners : sess'[u] = sess[u]
    BY <1>1, <1>3, <1>5, Zenon DEF Facts
  <2>4. CASE owners' = owners \cup {s} /\ ip = IpOf[recv.client]
    <3>1. Holders(ip)' = Holders(ip) \cup {s}
      BY <1>3, <2>3, <2>4 DEF Holders
    <3>2. Cardinality(Holders(ip)') = Cardinality(Holders(ip)) + 1
      BY <1>5, <2>1, <3>1, FS_AddElement, Zenon DEF Holders
    <3>3. perIp'[ip] <= perIp[ip] + 1 /\ perIp'[ip] \in Nat
      BY <1>1, <1>6, <2>2 DEF Facts
    <3> QED BY <2>1, <2>2, <3>2, <3>3
  <2>5. CASE ~(owners' = owners \cup {s} /\ ip = IpOf[recv.client])
    <3>1. Holders(ip)' = Holders(ip)
      BY <1>3, <1>6, <2>3, <2>5, Zenon DEF Holders
    <3>2. perIp'[ip] = perIp[ip]
      BY <1>1, <1>6, <2>5, Zenon DEF Facts
    <3> QED BY <2>2, <3>1, <3>2, Zenon
  <2> QED BY <2>4, <2>5, Zenon
<1>14. Linked'
  BY <1>1, <1>2, <1>3, <1>4 DEF IInv, Facts, Linked, ViaMatches
<1>15. Hooked'
  BY <1>2 DEF IInv, Hooked, At, Open
<1>16. Watched'
  BY <1>2, <1>3 DEF IInv, Watched, ReadersEnd
<1>17. JobsTyped' /\ RefsBound'
  BY <1>2, Frames, Zenon
<1> QED BY <1>7, <1>8, <1>9, <1>10, <1>11, <1>12, <1>13, <1>14, <1>15, <1>16, <1>17, Zenon
   DEF IInv, Typed

\* A slot is refused, or taken.
LEMMA AcquireSlotStep ==
    ASSUME IInv, NEW s \in Ids, AcquireSlot(s)
    PROVE  IInv'
  BY SlotEffects, SlotRefusedStep, SlotTakenStep, Zenon DEF IInv

\* A session that could not be opened gives its slot back.
LEMMA OpenFailsStep ==
    ASSUME IInv, OpenFails
    PROVE  IInv'
<1>1. Facts
  BY Known
<1>2. ReceiverBecomes("idle", None, None, None, 0, 0)
  BY ReceiverEffects, Zenon DEF IInv, OpenFails
<1>3. ReceiverTyped'
  BY <1>2 DEF ReceiverBecomes, ReceiverTyped
<1>4. MapsTyped'
  <2>1. perIp' \in [IPs -> Nat] /\ owners' \subseteq Ids
    <3>1. recv.id \in Ids /\ sess[recv.id].client \in Clients /\ ReleaseSlot(recv.id)
      BY <1>1 DEF IInv, Facts, OpenFails, SetUp, Starting
    <3>2. \A u \in Ids : sess'[u].client = sess[u].client
      BY DEF OpenFails
    <3> QED BY <3>1, <3>2, SlotReturned, Zenon
  <2> QED BY <2>1 DEF IInv, Typed, MapsTyped, OpenFails, routing
<1>5. Phases'
  BY <1>1, <1>2, Zenon DEF IInv, Facts, OpenFails, ReleaseSlot, routing, maps, ReceiverBecomes,
     Phases, Starting, Closers, Sources
<1>6. SetUp'
  BY <1>1, <1>2, Zenon DEF IInv, Facts, OpenFails, ReleaseSlot, routing, maps, ReceiverBecomes,
     SetUp, Starting, Taken, Closing, Open, Listed, ClosedOnce
<1>7. Owned'
  BY DEF IInv, Facts, OpenFails, ReleaseSlot, Owned, Owes, Taken
<1>8. SlotsBound'
  <2>1. recv.id \in Ids /\ sess[recv.id].client \in Clients /\ ReleaseSlot(recv.id)
    BY <1>1 DEF IInv, Facts, OpenFails, SetUp, Starting
  <2>2. \A u \in Ids : sess'[u].client = sess[u].client
    BY DEF OpenFails
  <2> QED BY <2>1, <2>2, SlotReturned, Zenon
<1>9. Hooked'
  BY <1>1, <1>2 DEF IInv, Facts, OpenFails, ReleaseSlot, routing, maps, ReceiverBecomes,
     Hooked, At, Open, OpenAt
<1>10. Watched'
  BY <1>2 DEF IInv, OpenFails, ReceiverBecomes, Watched, ReadersEnd
<1>11. SessionsTyped' /\ JobsTyped' /\ Listed' /\ ClosedOnce' /\ RefsBound' /\ Linked'
  BY Frames, Zenon DEF OpenFails, ReleaseSlot, routing, maps
<1> QED BY <1>3, <1>4, <1>5, <1>6, <1>7, <1>8, <1>9, <1>10, <1>11, Zenon DEF IInv, Typed

\* The session is listed under its client, which had none.
LEMMA InsertStep ==
    ASSUME IInv, Insert
    PROVE  IInv'
<1>1. Facts
  BY Known
<1>2. ReceiverBecomes(IF kind = "proxied" THEN "link" ELSE "spawn", recv.from, recv.client,
                      recv.id, recv.caps.max, recv.caps.perIp)
  BY ReceiverEffects, Zenon DEF IInv
<1>3. ReceiverTyped'
  BY <1>2 DEF ReceiverBecomes, ReceiverTyped
<1>4. MapsTyped'
  BY <1>1, <1>2 DEF IInv, Facts, Insert, Goto, routing, maps, ReceiverBecomes,
     MapsTyped, Typed
<1>5. Phases'
  BY <1>1, <1>2 DEF IInv, Facts, Insert, Goto, routing, maps, ReceiverBecomes, Phases,
     Starting, Closers, Sources
<1>6. Listed'
  BY <1>1, <1>2 DEF IInv, Facts, Insert, Goto, routing, maps, ReceiverBecomes, Listed,
     Open, Taken, Closing, ClosedOnce, SetUp, Starting
<1>7. ClosedOnce'
  BY <1>1, <1>2 DEF IInv, Facts, Insert, Goto, routing, maps, ReceiverBecomes,
     ClosedOnce, Taken, Closing, Open, Listed, SetUp, Starting
<1>8. SetUp'
  BY <1>1, <1>2 DEF IInv, Facts, Insert, Goto, routing, maps, ReceiverBecomes, SetUp,
     Starting, Taken, Closing, Open, Listed, ClosedOnce
<1>9. Owned'
  BY <1>1, <1>2 DEF IInv, Facts, Insert, Goto, routing, maps, ReceiverBecomes, Owned,
     Owes, Taken, Listed, Open, Closing, ClosedOnce, SetUp, Starting
<1>10. Hooked'
  BY <1>1, <1>2 DEF IInv, Facts, Insert, Goto, routing, maps, ReceiverBecomes, Hooked,
     At, Open, OpenAt
<1>11. Watched'
  BY <1>1, <1>2 DEF IInv, Facts, Insert, Goto, routing, maps, ReceiverBecomes, Watched,
     ReadersEnd, Listed, Open, Taken, Closing, ClosedOnce, SetUp, Starting
<1>12. SessionsTyped' /\ JobsTyped' /\ SlotsBound' /\ RefsBound' /\ Linked'
  BY Frames, Zenon DEF Insert, Goto, routing, maps
<1> QED BY <1>3, <1>4, <1>5, <1>6, <1>7, <1>8, <1>9, <1>10, <1>11, <1>12, Zenon DEF
   IInv, Typed

\* The flow leads to the session that replies to it.
LEMMA LinkStep ==
    ASSUME IInv, Link
    PROVE  IInv'
<1>1. Facts
  BY Known
<1>2. ReceiverBecomes("spawn", recv.from, recv.client, recv.id, recv.caps.max,
                      recv.caps.perIp)
  BY ReceiverEffects, Zenon DEF IInv
<1>3. ReceiverTyped'
  BY <1>2 DEF ReceiverBecomes, ReceiverTyped
<1>4. MapsTyped'
  BY <1>1, <1>2, Zenon DEF IInv, Facts, Link, Goto, routing, maps, ReceiverBecomes, MapsTyped,
     Typed
<1>5. Phases'
  BY <1>1, <1>2 DEF IInv, Facts, Link, Goto, routing, maps, ReceiverBecomes, Phases,
     Starting, Closers, Sources
<1>6. SetUp'
  BY <1>1, <1>2, Zenon DEF IInv, Facts, Link, Goto, routing, maps, ReceiverBecomes, SetUp,
     Starting, Taken, Closing, Open, Listed, ClosedOnce
<1>7. Owned'
  BY <1>1, <1>2 DEF IInv, Facts, Link, Goto, routing, maps, ReceiverBecomes, Owned,
     Owes, Taken, Listed, Open, Closing, ClosedOnce, SetUp, Starting
<1>8. Linked'
  BY <1>1, <1>2 DEF IInv, Facts, Link, Goto, routing, maps, ReceiverBecomes, Linked,
     ViaMatches, SetUp, Starting, Taken, Closing, Open, Phases
<1>9. Hooked'
  BY <1>1, <1>2 DEF IInv, Facts, Link, Goto, routing, maps, ReceiverBecomes, Hooked, At,
     Open, OpenAt
<1>10. Watched'
  BY <1>1, <1>2 DEF IInv, Facts, Link, Goto, routing, maps, ReceiverBecomes, Watched,
     ReadersEnd, Listed, Open, Taken, Closing, ClosedOnce, SetUp, Starting
<1>11. SessionsTyped' /\ JobsTyped' /\ Listed' /\ ClosedOnce' /\ SlotsBound' /\
   RefsBound'
  BY Frames, Zenon DEF Link, Goto, routing, maps
<1> QED BY <1>3, <1>4, <1>5, <1>6, <1>7, <1>8, <1>9, <1>10, <1>11, Zenon DEF IInv, Typed

\* The reader starts on a session that is listed, unless a close met it.
LEMMA SpawnStep ==
    ASSUME IInv, Spawn
    PROVE  IInv'
<1>1. Facts
  BY Known
<1>2. ReceiverBecomes("idle", None, None, None, 0, 0)
  BY ReceiverEffects, Zenon DEF IInv, Spawn
<1>3. SessionBecomes(recv.id, sess[recv.id].client, sess[recv.id].via,
                     sess[recv.id].dead, TRUE)
  BY SessionEffects, Zenon DEF IInv
<1>4. ReceiverTyped'
  BY <1>2, <1>3 DEF ReceiverBecomes, SessionBecomes, ReceiverTyped
<1>5. SessionsTyped'
  BY <1>2, <1>3, Zenon DEF ReceiverBecomes, SessionBecomes, SessionsTyped
<1>6. Phases'
  BY <1>1, <1>2, <1>3, Zenon DEF IInv, Facts, Spawn, routing, maps, ReceiverBecomes,
     SessionBecomes, Phases, Starting, Closers, Sources
<1>7. Listed'
  BY <1>1, <1>2, <1>3 DEF IInv, Facts, Spawn, routing, maps, ReceiverBecomes,
     SessionBecomes, Listed, Open, Taken, Closing, ClosedOnce, SetUp, Starting
<1>8. ClosedOnce'
  BY <1>1, <1>2, <1>3 DEF IInv, Facts, Spawn, routing, maps, ReceiverBecomes,
     SessionBecomes, ClosedOnce, Taken, Closing, Open, Listed, SetUp, Starting
<1>9. SetUp'
  BY <1>1, <1>2, <1>3, Zenon DEF IInv, Facts, Spawn, routing, maps, ReceiverBecomes,
     SessionBecomes, SetUp, Starting, Taken, Closing, Open, Listed, ClosedOnce
<1>10. Owned'
  BY <1>1, <1>2, <1>3 DEF IInv, Facts, Spawn, routing, maps, ReceiverBecomes,
     SessionBecomes, Owned, Owes, Taken, Listed, Open, Closing, ClosedOnce, SetUp,
     Starting
<1>11. SlotsBound'
  BY <1>1, <1>2, <1>3 DEF IInv, Facts, Spawn, routing, maps, ReceiverBecomes,
     SessionBecomes, SlotsBound, Holders
<1>12. Linked'
  BY <1>1, <1>2, <1>3 DEF IInv, Facts, Spawn, routing, maps, ReceiverBecomes,
     SessionBecomes, Linked, ViaMatches, SetUp, Starting, Taken, Closing, Open
<1>13. Hooked'
  BY <1>1, <1>2, <1>3 DEF IInv, Facts, Spawn, routing, maps, ReceiverBecomes,
     SessionBecomes, Hooked, At, Open, OpenAt
<1>14. Watched'
  BY <1>1, <1>2, <1>3 DEF IInv, Facts, Spawn, routing, maps, ReceiverBecomes,
     SessionBecomes, Watched, ReadersEnd, Listed, Open, Taken, Closing, ClosedOnce,
     SetUp, Starting
<1>15. JobsTyped' /\ MapsTyped' /\ RefsBound'
  BY Frames, Zenon DEF Spawn, routing, maps
<1> QED BY <1>4, <1>5, <1>6, <1>7, <1>8, <1>9, <1>10, <1>11, <1>12, <1>13, <1>14, <1>15,
   Zenon DEF IInv, Typed

\* A reader that ends touches no map.
LEMMA ReaderEndsStep ==
    ASSUME IInv, NEW s \in Ids, ReaderEnds(s)
    PROVE  IInv'
<1>1. Facts
  BY Known
<1>2. SessionBecomes(s, sess[s].client, sess[s].via, sess[s].dead, FALSE)
  BY SessionEffects, Zenon DEF IInv
<1>3. SessionsTyped'
  BY <1>2 DEF SessionBecomes, SessionsTyped
<1>4. Listed'
  BY DEF IInv, ReaderEnds, maps, SessionBecomes, Listed, Open, Taken
<1>5. ClosedOnce'
  BY <1>1, <1>2 DEF IInv, Facts, ReaderEnds, routing, maps, SessionBecomes, ClosedOnce,
     Taken, Closing, Open, Listed, SetUp, Starting
<1>6. SetUp'
  BY <1>1, <1>2 DEF IInv, Facts, ReaderEnds, routing, maps, SessionBecomes, SetUp,
     Starting, Taken, Closing, Open, Listed, ClosedOnce
<1>7. Owned'
  BY <1>1, <1>2 DEF IInv, Facts, ReaderEnds, routing, maps, SessionBecomes, Owned, Owes,
     Taken, Listed, Open, Closing, ClosedOnce, SetUp, Starting
<1>8. SlotsBound'
  BY <1>1, <1>2 DEF IInv, Facts, ReaderEnds, routing, maps, SessionBecomes, SlotsBound,
     Holders
<1>9. Linked'
  BY <1>1, <1>2, Zenon DEF IInv, Facts, ReaderEnds, routing, maps, SessionBecomes, Linked,
     ViaMatches, SetUp, Starting, Taken, Closing, Open
<1>10. Watched'
  BY <1>1, <1>2 DEF IInv, Facts, ReaderEnds, routing, maps, SessionBecomes, Watched,
     ReadersEnd, Listed, Open, Taken, Closing, ClosedOnce, SetUp, Starting
<1>11. ReceiverTyped' /\ JobsTyped' /\ MapsTyped' /\ Phases' /\ RefsBound' /\ Hooked'
  BY Frames, Zenon DEF ReaderEnds, routing, maps
<1> QED BY <1>3, <1>4, <1>5, <1>6, <1>7, <1>8, <1>9, <1>10, <1>11, Zenon DEF IInv, Typed

\* The last login of an address leaves its hook behind, whatever its entry counted.
LEMMA UnregisterStep ==
    ASSUME IInv, NEW p \in Players, Unregister(p)
    PROVE  IInv'
<1>1. Facts
  BY Known
<1>2. \/ IsLast(player[p]) /\ JobBecomes(p, "hook", player[p], {}, None)
      \/ ~IsLast(player[p]) /\ job' = job
  BY JobEffects, Zenon DEF IInv, Unregister
<1>3. JobsTyped'
  BY <1>1, <1>2 DEF Facts, JobBecomes, JobsTyped
<1>4. MapsTyped'
  <2>1. player' \in [Players -> IPs \cup {None}] /\ refs' \in [IPs -> Nat] /\ evicted' \subseteq IPs
    BY <1>1 DEF IInv, Typed, MapsTyped, Facts, Unregister, IsLast
  <2> QED BY <2>1, Zenon DEF IInv, Typed, MapsTyped, Unregister, maps
<1>5. Phases'
  BY <1>1, <1>2, Zenon DEF IInv, Facts, Unregister, JobBecomes, Phases, Closers
<1>6. ClosedOnce'
  BY <1>1, <1>2, Zenon DEF IInv, Unregister, maps, JobBecomes, ClosedOnce, Taken
<1>7. SetUp'
  BY <1>1, <1>2 DEF IInv, Facts, Unregister, routing, maps, JobBecomes, SetUp, Starting,
     Taken, Closing, Open, Listed, ClosedOnce
<1>8. Owned'
  <2> SUFFICES ASSUME NEW s \in owners
               PROVE  sess[s].client \in Clients /\ Owes(s)'
    BY Zenon DEF Owned, Unregister
  <2>1. sess[s].client \in Clients /\ Owes(s) /\ s # None
    BY <1>1 DEF IInv, Owned, Facts
  <2>2. job[p].id = None
    BY <1>1 DEF IInv, Facts, Phases, Unregister
  <2> QED BY <1>1, <1>2, <2>1, <2>2 DEF Unregister, maps, JobBecomes, Owes, Taken
<1>9. RefsBound'
  <2> DEFINE at == player[p]
  <2>1. at \in IPs /\ p \in At(at) /\ refs \in [IPs -> Nat]
    BY <1>1 DEF Facts, Unregister, At
  <2>2. evicted' = IF At(at) = {p} THEN evicted \ {at} ELSE evicted
    BY DEF Unregister
  <2> SUFFICES ASSUME NEW ip \in IPs
               PROVE  /\ refs'[ip] <= Cardinality(At(ip)')
                      /\ ip \notin evicted' => refs'[ip] = Cardinality(At(ip)')
    BY DEF RefsBound, RefsCounted
  <2>3. /\ refs[ip] <= Cardinality(At(ip)) /\ refs[ip] \in Nat
        /\ ip \notin evicted => refs[ip] = Cardinality(At(ip))
    BY <2>1 DEF IInv, RefsBound, RefsCounted
  <2>4. CASE ip # at
    <3>1. refs'[ip] = refs[ip] /\ At(ip)' = At(ip)
      BY <1>1, <2>1, <2>4, Zenon DEF Facts, Unregister, At
    <3> QED BY <2>2, <2>3, <2>4, <3>1
  <2>5. CASE ip = at
    <3>1. /\ refs'[ip] = IF refs[ip] <= 1 THEN 0 ELSE refs[ip] - 1
          /\ At(ip)' = At(ip) \ {p}
      BY <1>1, <2>1, <2>5 DEF Facts, Unregister, At, IsLast
    <3>2. IsFiniteSet(At(ip)) /\ Cardinality(At(ip)) \in Nat
      BY LoginsFinite, Zenon
    <3>3. /\ IsFiniteSet(At(ip)') /\ Cardinality(At(ip)') = Cardinality(At(ip)) - 1
      BY <2>1, <2>5, <3>1, <3>2, FS_RemoveElement
    <3>4. Cardinality(At(ip)') \in Nat
      BY <3>3, FS_CardinalityType
    <3>5. At(ip) = {p} => Cardinality(At(ip)) = 1
      BY LoginsFinite, Zenon
    <3> HIDE DEF at
    <3> QED BY <2>2, <2>3, <2>5, <3>1, <3>2, <3>3, <3>4, <3>5
  <2> QED BY <2>4, <2>5
<1>10. Hooked'
  <2> DEFINE at == player[p]
  <2>1. at \in IPs /\ p \in At(at) /\ job[p].pc = "idle" /\ job[p].todo = {}
    BY <1>1 DEF IInv, Phases, Facts, Unregister, At
  <2>2. ASSUME At(at) = {p}
        PROVE  IsLast(at)
    <3>1. Cardinality(At(at)) = 1
      BY <2>2, LoginsFinite
    <3>2. refs[at] <= Cardinality(At(at))
      BY <2>1 DEF IInv, RefsBound
    <3> QED BY <3>1, <3>2 DEF IsLast
  <2>3. /\ ~raced' => ~raced /\ (recv.pc # "idle" => IpOf[recv.client] # at)
        /\ UNCHANGED <<kind, recv, table>>
        /\ \A q \in Players : q # p => player'[q] = player[q]
    BY <1>1, Zenon DEF Unregister, maps, Facts
  <2>4. \A q \in Players : q # p => job'[q] = job[q]
    BY <1>1, <1>2, Zenon DEF JobBecomes, Facts
  <2> SUFFICES ASSUME kind # "forward", ~raced'
               PROVE  /\ recv.pc \in {"cap", "slot", "open"} => At(IpOf[recv.client])' # {}
                      /\ \A c \in Open : At(IpOf[c])' = {} =>
                           \E q \in Players : /\ job'[q].ip = IpOf[c]
                                              /\ job'[q].pc = "hook" \/ c \in job'[q].todo
    BY <2>3, Zenon DEF Hooked, Open
  <2>5. /\ recv.pc \in {"cap", "slot", "open"} => At(IpOf[recv.client]) # {}
        /\ \A c \in Open : At(IpOf[c]) = {} =>
             \E q \in Players : job[q].ip = IpOf[c] /\ (job[q].pc = "hook" \/ c \in job[q].todo)
    BY <2>3, Zenon DEF IInv, Hooked
  <2>6. recv.pc \in {"cap", "slot", "open"} => At(IpOf[recv.client])' # {}
    BY <2>3, <2>5 DEF At
  <2>7. ASSUME NEW c \in Open, At(IpOf[c])' = {}
        PROVE  \E q \in Players : /\ job'[q].ip = IpOf[c]
                                  /\ job'[q].pc = "hook" \/ c \in job'[q].todo
    <3>1. CASE IpOf[c] = at
      <4>1. At(at) = {p}
        BY <2>1, <2>3, <2>7, <3>1 DEF At
      <4> QED BY <1>1, <1>2, <2>2, <3>1, <4>1, Zenon DEF JobBecomes
    <3>2. CASE IpOf[c] # at
      <4>1. At(IpOf[c]) = {}
        BY <2>3, <2>7, <3>2, Zenon DEF At
      <4> QED BY <2>1, <2>4, <2>5, <4>1
    <3> QED BY <3>1, <3>2, Zenon
  <2> QED BY <2>6, <2>7
<1>11. Watched'
  <2>1. job[p].id = None
    BY <1>1 DEF IInv, Facts, Phases, Unregister
  <2>2. (~raced' => ~raced) /\ UNCHANGED <<recv, table, sess>>
    BY Zenon DEF Unregister, maps
  <2>3. \A y \in Closers : job[y].id # None => job'[y] = job[y]
    BY <1>1, <1>2, <2>1 DEF JobBecomes
  <2> QED BY <1>1, <2>2, <2>3 DEF IInv, Facts, Watched, ReadersEnd
<1>12. ReceiverTyped' /\ SessionsTyped' /\ Listed' /\ SlotsBound' /\ Linked'
  BY Frames, Zenon DEF Unregister, routing, maps
<1> QED BY <1>3, <1>4, <1>5, <1>6, <1>7, <1>8, <1>9, <1>10, <1>11, <1>12, Zenon DEF
   IInv, Typed

\* The hook collects every session of its address.
LEMMA DisconnectClientStep ==
    ASSUME IInv, NEW p \in Players, DisconnectClient(p)
    PROVE  IInv'
<1>1. Facts
  BY Known
<1>2. JobBecomes(p, "next", job[p].ip, OpenAt(job[p].ip), job[p].id)
  BY JobEffects, Zenon DEF IInv
<1>3. JobsTyped'
  BY <1>2 DEF JobBecomes, JobsTyped
<1>4. Phases'
  BY <1>2, Zenon DEF IInv, DisconnectClient, routing, maps, JobBecomes, Phases, Starting,
     Closers
<1>5. ClosedOnce'
  BY <1>1 DEF IInv, Facts, DisconnectClient, maps, ClosedOnce, Taken, Starting
<1>6. SetUp'
  BY <1>1, <1>2 DEF IInv, DisconnectClient, maps, JobBecomes, SetUp, Starting, Taken,
     Closing, Open, Listed, ClosedOnce
<1>7. Owned'
  BY <1>1, <1>2 DEF IInv, Facts, DisconnectClient, routing, maps, JobBecomes, Owned,
     Owes, Taken, Listed, Open, Closing, ClosedOnce, SetUp, Starting
<1>8. Hooked'
  BY <1>1, <1>2, SMTT(30) DEF IInv, Facts, DisconnectClient, routing, maps, JobBecomes, Hooked,
     At, Open, OpenAt
<1>9. Watched'
  BY <1>1, <1>2, SMTT(30) DEF IInv, Facts, DisconnectClient, routing, maps, JobBecomes, Watched,
     ReadersEnd, Listed, Open, Taken, Closing, ClosedOnce, SetUp, Starting
<1>10. ReceiverTyped' /\ SessionsTyped' /\ MapsTyped' /\ Listed' /\ SlotsBound' /\
   RefsBound' /\ Linked'
  BY Frames, Zenon DEF DisconnectClient, routing, maps
<1> QED BY <1>3, <1>4, <1>5, <1>6, <1>7, <1>8, <1>9, <1>10, Zenon DEF IInv, Typed

\* A login is counted in its entry, also in one the idle sweep had dropped.
LEMMA RegisterStep ==
    ASSUME IInv, NEW p \in Players, NEW ip \in IPs, Register(p, ip)
    PROVE  IInv'
<1>1. Facts
  BY Known, Zenon
<1>2. MapsTyped'
  BY <1>1 DEF IInv, Facts, Register, routing, maps, MapsTyped, Typed
<1>3. Phases'
  BY <1>1, Zenon DEF IInv, Facts, Register, routing, maps, Phases, Sources
<1>4. RefsBound'
  <2> SUFFICES ASSUME NEW i \in IPs
               PROVE  /\ refs'[i] <= Cardinality(At(i)')
                      /\ i \notin evicted' => refs'[i] = Cardinality(At(i)')
    BY Zenon DEF RefsBound, RefsCounted
  <2>1. /\ refs[i] <= Cardinality(At(i)) /\ refs[i] \in Nat /\ evicted' = evicted
        /\ i \notin evicted => refs[i] = Cardinality(At(i))
    BY <1>1, Zenon DEF IInv, RefsBound, RefsCounted, Facts, Register
  <2>2. CASE i = ip
    <3>1. p \notin At(i) /\ refs'[i] = refs[i] + 1 /\ At(i)' = At(i) \cup {p}
      BY <1>1, <2>2 DEF Facts, Register, At
    <3>2. Cardinality(At(i)') = Cardinality(At(i)) + 1 /\ Cardinality(At(i)) \in Nat
      BY <3>1, LoginsFinite, FS_AddElement, Zenon
    <3> QED BY <2>1, <3>1, <3>2
  <2>3. CASE i # ip
    <3>1. refs'[i] = refs[i] /\ At(i)' = At(i)
      BY <1>1, <2>3, Zenon DEF Facts, Register, At
    <3> QED BY <2>1, <3>1
  <2> QED BY <2>2, <2>3
<1>5. Hooked'
  BY <1>1 DEF IInv, Facts, Register, routing, maps, Hooked, At, Open, OpenAt
<1>6. ReceiverTyped' /\ SessionsTyped' /\ JobsTyped' /\ Listed' /\ ClosedOnce' /\ SetUp'
   /\ Owned' /\ SlotsBound' /\ Linked' /\ Watched'
  BY Frames, Zenon DEF Register, routing, maps
<1> QED BY <1>2, <1>3, <1>4, <1>5, <1>6, Zenon DEF IInv, Typed

\* An entry dropped under a login counts fewer logins than there are.
LEMMA EvictIdleStep ==
    ASSUME IInv, NEW ip \in IPs, EvictIdle(ip)
    PROVE  IInv'
<1>1. Facts
  BY Known
<1>2. MapsTyped'
  BY Zenon DEF IInv, EvictIdle, routing, maps, MapsTyped, Typed
<1>3. RefsBound'
  <2>1. /\ refs'[ip] = 0 /\ ip \in evicted' /\ evicted \subseteq evicted'
        /\ \A i \in IPs : At(i)' = At(i) /\ (i # ip => refs'[i] = refs[i])
        /\ \A i \in IPs : Cardinality(At(i)) \in Nat
    BY <1>1, LoginsFinite, Zenon DEF Facts, EvictIdle, At
  <2> QED BY <2>1 DEF IInv, RefsBound, RefsCounted
<1>4. ReceiverTyped' /\ SessionsTyped' /\ JobsTyped' /\ Phases' /\ Listed' /\
   ClosedOnce' /\ SetUp' /\ Owned' /\ SlotsBound' /\ Linked' /\ Hooked' /\ Watched'
  BY Frames, Zenon DEF EvictIdle, routing, maps
<1> QED BY <1>2, <1>3, <1>4, Zenon DEF IInv, Typed

\* The reaper collects sessions, none of them being set up.
LEMMA EvictStaleStep ==
    ASSUME IInv, NEW stale \in SUBSET Clients, EvictStale(stale)
    PROVE  IInv'
<1>1. Facts
  BY Known
<1>2. JobBecomes("reaper", "next", None, stale, None)
  BY JobEffects, Zenon DEF IInv
<1>3. JobsTyped'
  BY <1>2 DEF JobBecomes, JobsTyped
<1>4. Phases'
  BY <1>1, <1>2, Zenon DEF IInv, Facts, EvictStale, routing, JobBecomes, Phases
<1>5. ClosedOnce'
  BY <1>1, <1>2 DEF IInv, Facts, EvictStale, routing, maps, JobBecomes, ClosedOnce,
     Taken, Closing, Open, Listed, SetUp, Starting
<1>6. SetUp'
  BY <1>1, <1>2 DEF IInv, Facts, EvictStale, routing, maps, JobBecomes, SetUp, Starting,
     Taken, Closing, Open, Listed, ClosedOnce
<1>7. Owned'
  <2> SUFFICES ASSUME NEW s \in owners
               PROVE  sess[s].client \in Clients /\ Owes(s)'
    BY Zenon DEF Owned, EvictStale
  <2>1. sess[s].client \in Clients /\ Owes(s) /\ s # None
    BY <1>1 DEF IInv, Owned, Facts
  <2>2. job["reaper"].id = None
    BY <1>1, Zenon DEF IInv, Facts, Phases, EvictStale
  <2> QED BY <1>1, <1>2, <2>1, <2>2 DEF EvictStale, maps, JobBecomes, Owes, Taken
<1>8. Hooked'
  <2>1. \A p \in Players : job'[p] = job[p]
    BY <1>1, <1>2 DEF Facts, JobBecomes
  <2>2. UNCHANGED <<kind, raced, recv, player, table>>
    BY Zenon DEF EvictStale, routing, maps
  <2> QED BY <2>1, <2>2, Zenon DEF IInv, Hooked, At, Open
<1>9. Watched'
  BY <1>1, <1>2 DEF IInv, Facts, EvictStale, routing, maps, JobBecomes, Watched,
     ReadersEnd, Listed, Open, Taken, Closing, ClosedOnce, SetUp, Starting
<1>10. ReceiverTyped' /\ SessionsTyped' /\ MapsTyped' /\ Listed' /\ SlotsBound' /\
   RefsBound' /\ Linked'
  BY Frames, Zenon DEF EvictStale, routing, maps
<1> QED BY <1>3, <1>4, <1>5, <1>6, <1>7, <1>8, <1>9, <1>10, Zenon DEF IInv, Typed

\* One session is unlisted and has one closer from then on.
LEMMA RemoveNextStep ==
    ASSUME IInv, NEW x \in Closers, NEW c \in Clients, RemoveNext(x, c)
    PROVE  IInv'
<1>1. Facts
  BY Known
<1>2. JobBecomes(x, IF table[c] = None THEN "next" ELSE "unlink", job[x].ip,
                 job[x].todo \ {c}, table[c])
  BY JobEffects, Zenon DEF IInv
<1>3. JobsTyped'
  BY <1>2, Zenon DEF JobBecomes, JobsTyped
<1>4. MapsTyped'
  BY Zenon DEF IInv, RemoveNext, Unlisted, routing, maps, MapsTyped, Typed
<1>5. Phases'
  BY <1>1, <1>2 DEF IInv, RemoveNext, routing, JobBecomes, Phases
<1>6. Listed'
  BY DEF IInv, RemoveNext, Unlisted, JobBecomes, Listed, Open
<1>7. ClosedOnce'
  BY <1>1 DEF IInv, Facts, RemoveNext, Unlisted, ClosedOnce, Taken, Open, Listed
<1>8. SetUp'
  BY <1>1, <1>2 DEF IInv, Facts, RemoveNext, Unlisted, routing, maps, JobBecomes, SetUp,
     Starting, Taken, Closing, Open, Listed, ClosedOnce
<1>9. Owned'
  <2> SUFFICES ASSUME NEW s \in owners
               PROVE  sess[s].client \in Clients /\ Owes(s)'
    BY Zenon DEF Owned, RemoveNext
  <2>1. sess[s].client \in Clients /\ Owes(s) /\ s # None
    BY <1>1, Zenon DEF IInv, Owned, Facts
  <2>2. /\ job[x].id = None /\ job'[x].id = table[c]
        /\ table[c] # None => job'[x].pc # "abort"
        /\ \A y \in Closers : y # x => job'[y] = job[y]
        /\ \A d \in Clients : d # c => table'[d] = table[d]
        /\ recv' = recv
    BY <1>1, <1>2 DEF IInv, Facts, Phases, RemoveNext, Unlisted, JobBecomes
  <2>3. CASE recv.pc = "open" /\ recv.id = s
    BY <2>1, <2>2, <2>3, Zenon DEF Owes
  <2>4. CASE \E d \in Clients : table[d] = s
    BY <2>1, <2>2, Zenon DEF Owes, Taken
  <2>5. CASE \E y \in Closers : job[y].id = s /\ job[y].pc # "abort"
    BY <2>1, <2>2, <2>5, Zenon DEF Owes
  <2> QED BY <2>1, <2>3, <2>4, <2>5 DEF Owes, Taken
<1>10. Hooked'
  <2>1. /\ ~raced' => ~raced
        /\ Open' = Open \ {c} /\ job[x].pc = "next"
        /\ \A q \in Players : /\ job'[q].ip = job[q].ip
                              /\ q # x => job'[q] = job[q]
                              /\ q = x => job'[q].todo = job[q].todo \ {c}
    BY <1>1, <1>2, Zenon DEF Facts, RemoveNext, Unlisted, Open, JobBecomes
  <2>2. UNCHANGED <<kind, recv, player>>
    BY Zenon DEF RemoveNext, routing
  <2>3. \A q \in Players, d \in Open' :
          job[q].pc = "hook" \/ d \in job[q].todo => job'[q].pc = "hook" \/ d \in job'[q].todo
    BY <2>1, Zenon
  <2> QED BY <2>1, <2>2, <2>3 DEF IInv, Hooked, At
<1>11. Watched'
  <2>1. /\ ~raced' => ~raced /\ ~(table[c] # None /\ BeingSetUp(table[c]))
        /\ recv.pc \in {"link", "spawn"} => recv.client \in Clients /\ recv.id \in Ids
        /\ \A d \in Clients : d # c => table'[d] = table[d]
        /\ job[x].id = None /\ \A y \in Closers : y # x => job'[y] = job[y]
        /\ UNCHANGED <<recv, sess>>
    BY <1>1, <1>2, Zenon DEF IInv, Facts, Phases, RemoveNext, Unlisted, JobBecomes
  <2> QED BY <1>1, <2>1 DEF IInv, Facts, Watched, ReadersEnd, BeingSetUp
<1>12. ReceiverTyped' /\ SessionsTyped' /\ SlotsBound' /\ RefsBound' /\ Linked'
  BY Frames, Zenon DEF RemoveNext, Unlisted, routing, maps
<1> QED BY <1>3, <1>4, <1>5, <1>6, <1>7, <1>8, <1>9, <1>10, <1>11, <1>12, Zenon DEF
   IInv, Typed

\* A closer that has closed all it collected owes nothing.
LEMMA DoneStep ==
    ASSUME IInv, NEW x \in Closers, Done(x)
    PROVE  IInv'
<1>1. Facts
  BY Known
<1>2. JobBecomes(x, "idle", None, {}, None)
  BY JobEffects, Zenon DEF IInv
<1>3. JobsTyped'
  BY <1>2 DEF JobBecomes, JobsTyped
<1>4. Phases'
  BY <1>1, <1>2 DEF IInv, Done, routing, JobBecomes, Phases
<1>5. ClosedOnce'
  BY <1>1, <1>2, Zenon DEF IInv, Done, routing, maps, JobBecomes, ClosedOnce, Taken, Closing,
     Starting
<1>6. SetUp'
  BY <1>1, <1>2 DEF IInv, Facts, Done, maps, JobBecomes, SetUp, Taken, Closing, Open,
     Listed
<1>7. Owned'
  <2> SUFFICES ASSUME NEW s \in owners
               PROVE  sess[s].client \in Clients /\ Owes(s)'
    BY Zenon DEF Owned, Done
  <2>1. sess[s].client \in Clients /\ Owes(s) /\ s # None
    BY <1>1, Zenon DEF IInv, Owned, Facts
  <2>2. job[x].id = None
    BY Zenon DEF IInv, Phases, Done
  <2> QED BY <1>1, <1>2, <2>1, <2>2 DEF Done, maps, JobBecomes, Owes, Taken
<1>8. Hooked'
  BY <1>1, <1>2 DEF IInv, Facts, Done, routing, maps, JobBecomes, Hooked, At, Open,
     OpenAt
<1>9. Watched'
  BY <1>1 DEF IInv, Facts, Done, maps, Watched, ReadersEnd, ClosedOnce
<1>10. ReceiverTyped' /\ SessionsTyped' /\ MapsTyped' /\ Listed' /\ SlotsBound' /\
   RefsBound' /\ Linked'
  BY Frames, Zenon DEF Done, routing, maps
<1> QED BY <1>3, <1>4, <1>5, <1>6, <1>7, <1>8, <1>9, <1>10, Zenon DEF IInv, Typed

\* No flow leads to the session any more.
LEMMA UnlinkStep ==
    ASSUME IInv, NEW x \in Closers, Unlink(x)
    PROVE  IInv'
<1>1. Facts
  BY Known
<1>2. JobBecomes(x, "release", job[x].ip, job[x].todo, job[x].id)
  BY JobEffects, Zenon DEF IInv
<1>3. JobsTyped'
  BY <1>2 DEF JobBecomes, JobsTyped
<1>4. MapsTyped'
  BY <1>1, <1>2, Zenon DEF IInv, Facts, Unlink, routing, maps, JobBecomes, MapsTyped, Typed
<1>5. Phases'
  BY <1>1, <1>2 DEF IInv, Facts, Unlink, routing, maps, JobBecomes, Phases, Starting,
     Closers, Sources
<1>6. ClosedOnce'
  BY <1>1, <1>2 DEF IInv, Facts, Unlink, routing, maps, JobBecomes, ClosedOnce, Taken,
     Closing, Open, Listed, SetUp, Starting
<1>7. SetUp'
  BY <1>1, <1>2 DEF IInv, Facts, Unlink, routing, maps, JobBecomes, SetUp, Starting,
     Taken, Closing, Open, Listed, ClosedOnce
<1>8. Owned'
  BY <1>1, <1>2 DEF IInv, Facts, Unlink, routing, maps, JobBecomes, Owned, Owes, Taken,
     Listed, Open, Closing, ClosedOnce, SetUp, Starting
<1>9. Linked'
  BY <1>1, <1>2 DEF IInv, Facts, Unlink, routing, maps, JobBecomes, Linked, ViaMatches,
     SetUp, Starting, Taken, Closing, Open
<1>10. Hooked'
  BY <1>1, <1>2, SMTT(30) DEF IInv, Facts, Unlink, routing, maps, JobBecomes, Hooked, At, Open,
     OpenAt
<1>11. Watched'
  BY <1>1, <1>2 DEF IInv, Facts, Unlink, routing, maps, JobBecomes, Watched, ReadersEnd,
     Listed, Open, Taken, Closing, ClosedOnce, SetUp, Starting
<1>12. ReceiverTyped' /\ SessionsTyped' /\ Listed' /\ SlotsBound' /\ RefsBound'
  BY Frames, Zenon DEF Unlink, routing, maps
<1> QED BY <1>3, <1>4, <1>5, <1>6, <1>7, <1>8, <1>9, <1>10, <1>11, <1>12, Zenon DEF
   IInv, Typed

\* The session is dead and gives its slot back, once.
LEMMA ReleaseStep ==
    ASSUME IInv, NEW x \in Closers, Release(x)
    PROVE  IInv'
<1>1. Facts
  BY Known
<1>2. JobBecomes(x, "abort", job[x].ip, job[x].todo, job[x].id)
  BY JobEffects, Zenon DEF IInv
<1>3. SessionBecomes(job[x].id, sess[job[x].id].client, sess[job[x].id].via, TRUE,
                     sess[job[x].id].reading)
  BY SessionEffects, Zenon DEF IInv
<1>4. SessionsTyped'
  BY <1>3, Zenon DEF SessionBecomes, SessionsTyped
<1>5. JobsTyped'
  BY <1>2, <1>3 DEF JobBecomes, SessionBecomes, JobsTyped
<1>6. MapsTyped'
  <2>1. perIp' \in [IPs -> Nat] /\ owners' \subseteq Ids
    <3>1. job[x].id \in Ids /\ sess[job[x].id].client \in Clients /\ ReleaseSlot(job[x].id)
      BY <1>1, Zenon DEF IInv, Facts, Release, ClosedOnce
    <3>2. \A u \in Ids : sess'[u].client = sess[u].client
      BY <1>3 DEF SessionBecomes
    <3> QED BY <3>1, <3>2, SlotReturned, Zenon
  <2> QED BY <2>1 DEF IInv, Typed, MapsTyped, Release, routing
<1>7. Phases'
  BY DEF IInv, Release, routing, JobBecomes, Phases
<1>8. Listed'
  BY DEF IInv, Release, Listed, Open, Taken, ClosedOnce
<1>9. ClosedOnce'
  BY <1>2, <1>3 DEF IInv, Release, JobBecomes, SessionBecomes, ClosedOnce, Taken
<1>10. SetUp'
  <2>1. UNCHANGED <<recv, table, byVia>>
    BY Zenon DEF Release
  <2>2. \A y \in Closers : job'[y].id = job[y].id
    BY <1>2, Zenon DEF JobBecomes
  <2>3. \A u \in Ids : sess'[u].client = sess[u].client /\ sess'[u].via = sess[u].via
    BY <1>3, Zenon DEF SessionBecomes
  <2>4. recv.pc \in Starting => recv.id \in Ids
    BY <1>1, Zenon DEF Facts, Starting
  <2>5. recv.pc = "open" => sess'[recv.id] = sess[recv.id]
    BY <1>3, <2>4, Zenon DEF IInv, SetUp, Starting, Closing, SessionBecomes
  <2> QED BY <2>1, <2>2, <2>3, <2>4, <2>5, Zenon DEF IInv, SetUp, Starting, Taken, Closing
<1>11. Owned'
  <2> SUFFICES ASSUME NEW s \in owners'
               PROVE  sess'[s].client \in Clients /\ Owes(s)'
    BY DEF Owned
  <2>1. s \in owners /\ s \in Ids /\ s # job[x].id
    BY <1>1, Zenon DEF Release, ReleaseSlot, Facts
  <2>2. sess[s].client \in Clients /\ Owes(s) /\ sess'[s] = sess[s]
    BY <1>3, <2>1, Zenon DEF IInv, Owned, SessionBecomes
  <2>3. UNCHANGED <<recv, table>> /\ \A y \in Closers : y # x => job'[y] = job[y]
    BY <1>2, Zenon DEF Release, JobBecomes
  <2> QED BY <2>1, <2>2, <2>3, Zenon DEF Owes, Taken
<1>12. SlotsBound'
  <2>1. job[x].id \in Ids /\ sess[job[x].id].client \in Clients /\ ReleaseSlot(job[x].id)
    BY <1>1 DEF IInv, Facts, Release, ClosedOnce
  <2>2. \A u \in Ids : sess'[u].client = sess[u].client
    BY <1>3 DEF SessionBecomes
  <2> QED BY <2>1, <2>2, SlotReturned, Zenon
<1>13. Linked'
  BY DEF IInv, Facts, Release, JobBecomes, SessionBecomes, Linked, ViaMatches
<1>14. Hooked'
  <2>1. UNCHANGED <<kind, raced, recv, player, table>> /\ job[x].pc = "release"
    BY Zenon DEF Release, routing
  <2>2. \A p \in Players : /\ job'[p].ip = job[p].ip /\ job'[p].todo = job[p].todo
                           /\ job[p].pc = "hook" => job'[p].pc = "hook"
    BY <1>1, <1>2, <2>1, Zenon DEF JobBecomes, Facts
  <2> QED BY <2>1, <2>2, Zenon DEF IInv, Hooked, At, Open
<1>15. Watched'
  <2>1. UNCHANGED <<raced, recv, table>> /\ \A y \in Closers : job'[y].id = job[y].id
    BY <1>2, Zenon DEF Release, JobBecomes
  <2>2. \A u \in Ids : u # job[x].id => sess'[u] = sess[u]
    BY <1>3, Zenon DEF SessionBecomes
  <2> QED BY <2>1, <2>2, Zenon DEF IInv, Watched, ReadersEnd
<1>16. ReceiverTyped' /\ RefsBound'
  BY Frames, Zenon DEF Release, ReleaseSlot, routing, maps
<1> QED BY <1>4, <1>5, <1>6, <1>7, <1>8, <1>9, <1>10, <1>11, <1>12, <1>13, <1>14, <1>15,
   <1>16, Zenon DEF IInv, Typed

\* The reader of a dead session is aborted.
LEMMA AbortStep ==
    ASSUME IInv, NEW x \in Closers, Abort(x)
    PROVE  IInv'
<1>1. Facts
  BY Known
<1>2. JobBecomes(x, "next", job[x].ip, job[x].todo, None)
  BY JobEffects, Zenon DEF IInv
<1>3. SessionBecomes(job[x].id, sess[job[x].id].client, sess[job[x].id].via,
                     sess[job[x].id].dead, FALSE)
  BY SessionEffects, Zenon DEF IInv
<1>4. SessionsTyped'
  BY <1>3 DEF JobBecomes, SessionBecomes, SessionsTyped
<1>5. JobsTyped'
  BY <1>2 DEF JobBecomes, JobsTyped
<1>6. Phases'
  BY <1>2, Zenon DEF IInv, Facts, Abort, routing, maps, JobBecomes, SessionBecomes, Phases,
     Starting
<1>7. Listed'
  BY DEF IInv, Facts, Abort, maps, Listed, Open, Closing, ClosedOnce
<1>8. ClosedOnce'
  BY <1>2 DEF IInv, Abort, maps, JobBecomes, SessionBecomes, ClosedOnce, Taken, Closing
<1>9. SetUp'
  BY <1>1, <1>3 DEF IInv, Facts, Abort, maps, SessionBecomes, SetUp, Taken, Closing
<1>10. Owned'
  BY <1>1, <1>2 DEF IInv, Facts, Abort, maps, JobBecomes, Owned, Owes, Taken, Closing,
     ClosedOnce, SetUp, Starting
<1>11. SlotsBound'
  BY <1>1, <1>2, <1>3 DEF IInv, Abort, routing, maps, SessionBecomes, SlotsBound,
     Holders
<1>12. Linked'
  BY <1>3 DEF IInv, Facts, Abort, maps, SessionBecomes, Linked, ViaMatches
<1>13. Hooked'
  BY <1>1 DEF IInv, Facts, Abort, routing, maps, SessionBecomes, Hooked, At, Open
<1>14. Watched'
  BY <1>1, <1>2, <1>3 DEF IInv, Facts, Abort, routing, maps, JobBecomes, SessionBecomes,
     Watched, ReadersEnd, Listed, Open, Taken, Closing, ClosedOnce, SetUp, Starting
<1>15. ReceiverTyped' /\ MapsTyped' /\ RefsBound'
  BY Frames, Zenon DEF Abort, routing, maps
<1> QED BY <1>4, <1>5, <1>6, <1>7, <1>8, <1>9, <1>10, <1>11, <1>12, <1>13, <1>14, <1>15,
   Zenon DEF IInv, Typed

\* A reload changes the caps only.
LEMMA ApplyThrottleStep ==
    ASSUME IInv, NEW t \in Throttles, ApplyThrottle(t)
    PROVE  IInv'
<1>1. Facts
  BY Known
<1>2. MapsTyped'
  BY <1>1 DEF IInv, Facts, ApplyThrottle, routing, maps, MapsTyped, Typed
<1>3. ReceiverTyped' /\ SessionsTyped' /\ JobsTyped' /\ Phases' /\ Listed' /\
   ClosedOnce' /\ SetUp' /\ Owned' /\ SlotsBound' /\ RefsBound' /\ Linked' /\ Hooked' /\
   Watched'
  BY Frames, Zenon DEF ApplyThrottle, routing, maps
<1> QED BY <1>2, <1>3, Zenon DEF IInv, Typed

\* IInv is an invariant of every relay.
LEMMA Inductive == Spec => []IInv
<1>1. Init => IInv
  <2> SUFFICES ASSUME Init PROVE IInv
    BY Zenon
  <2> USE UdpAssumption DEF Init
  <2>1. Typed
    <3>1. Idle \in ReceiverStates /\ NoJob \in Jobs
      BY DEF Idle, NoCaps, NoJob, ReceiverStates, Jobs
    <3>2. NoSession \in SessionRecords
      BY Zenon DEF NoSession, SessionRecords
    <3> QED BY <3>1, <3>2, Zenon DEF Typed, ReceiverTyped, SessionsTyped, JobsTyped, MapsTyped
  <2>2. recv.pc = "idle" /\ recv.id = None /\ Open = {} /\ owners = {}
    BY Zenon DEF Idle, Open
  <2>3. \A x \in Closers : job[x].pc = "idle" /\ job[x].id = None /\ job[x].todo = {}
    BY DEF NoJob
  <2>4. Phases /\ Listed /\ ClosedOnce /\ SetUp /\ Owned
    BY <2>2, <2>3, Zenon DEF Phases, Listed, ClosedOnce, SetUp, Owned, Starting
  <2>5. \A s \in Ids : ~sess[s].dead /\ ~sess[s].reading
    BY Zenon DEF NoSession
  <2>6. Linked /\ Hooked /\ Watched
    BY <2>2, <2>5, Zenon DEF Linked, ViaMatches, Hooked, Watched, ReadersEnd
  <2>7. ASSUME NEW ip \in IPs
        PROVE  /\ perIp[ip] <= Cardinality(Holders(ip))
               /\ refs[ip] = Cardinality(At(ip)) /\ refs[ip] <= Cardinality(At(ip))
    <3>1. Holders(ip) = {} /\ At(ip) = {} /\ perIp[ip] = 0 /\ refs[ip] = 0
      BY DEF Holders, At
    <3>2. Cardinality({}) = 0
      BY FS_EmptySet, Zenon
    <3> QED BY <3>1, <3>2
  <2>8. SlotsBound /\ RefsBound
    BY <2>7, Zenon DEF SlotsBound, RefsBound, RefsCounted
  <2> QED BY <2>1, <2>4, <2>6, <2>8 DEF IInv
<1>2. IInv /\ [Next]_vars => IInv'
  <2>1. ASSUME IInv, Next
        PROVE  IInv'
    BY <2>1, ReceiveStep, FindStep, RepointStep, ResolveStep, CheckCapStep, AcquireSlotStep,
       OpenFailsStep, InsertStep, LinkStep, SpawnStep, ReaderEndsStep, UnregisterStep,
       DisconnectClientStep, RegisterStep, EvictIdleStep, EvictStaleStep, RemoveNextStep,
       DoneStep, UnlinkStep, ReleaseStep, AbortStep, ApplyThrottleStep, Zenon DEF Next
  <2>2. IInv /\ UNCHANGED vars => IInv'
    BY Frames, Zenon DEF vars, routing, maps, IInv, Typed
  <2> QED BY <2>1, <2>2
<1> QED BY <1>1, <1>2, PTL DEF Spec

-----------------------------------------------------------------------------
(* What every relay keeps, whatever the caps.                                *)

\* The relays' state keeps its shape: no counter of theirs goes below zero or above what
\* there is to count, and a listed session is alive and is its client's.
THEOREM RelayTyped == Spec => []TypeOK
<1>1. IInv => TypeOK
  <2> SUFFICES ASSUME IInv PROVE TypeOK
    OBVIOUS
  <2>1. Facts
    BY Known, Zenon
  <2>2. ASSUME NEW ip \in IPs
        PROVE  perIp[ip] \in 0 .. Cardinality(Ids) /\ refs[ip] \in 0 .. Cardinality(Players)
    <3>1. Holders(ip) \subseteq Ids /\ At(ip) \subseteq Players
      BY <2>1, Zenon DEF Facts, Holders, At
    <3>2. /\ Cardinality(Holders(ip)) <= Cardinality(Ids)
          /\ Cardinality(At(ip)) <= Cardinality(Players)
          /\ Cardinality(Holders(ip)) \in Nat /\ Cardinality(At(ip)) \in Nat
          /\ Cardinality(Ids) \in Nat /\ Cardinality(Players) \in Nat
      BY <3>1, UdpAssumption, FS_Subset, FS_CardinalityType
    <3>3. perIp[ip] <= Cardinality(Holders(ip)) /\ refs[ip] <= Cardinality(At(ip))
      BY Zenon DEF IInv, SlotsBound, RefsBound
    <3> QED BY <2>1, <3>2, <3>3 DEF Facts
  <2>3. perIp \in [IPs -> 0 .. Cardinality(Ids)] /\ refs \in [IPs -> 0 .. Cardinality(Players)]
    BY <2>1, <2>2 DEF Facts
  <2>4. throttle \in Throttles
    BY Zenon DEF IInv, Typed, MapsTyped
  <2>5. \A c \in Open : ~sess[table[c]].dead /\ sess[table[c]].client = c
    BY DEF IInv, Listed
  <2> QED BY <2>1, <2>3, <2>4, <2>5 DEF TypeOK, Facts
<1> QED BY <1>1, Inductive, PTL

\* by_via never leads a proxy's flow to a live session that replies elsewhere, through
\* repoint_via, insertions and closes in any order.
THEOREM FlowsMatch == Spec => []ViaMatches
<1>1. IInv => ViaMatches
  BY DEF IInv, Linked
<1> QED BY <1>1, Inductive, PTL

\* No session outlives its player's last login and no reader its session, unless the
\* logout met a session that was still being set up.
THEOREM SessionsEndTogether == Spec => []NothingOutlives
<1>1. IInv => NothingOutlives
  <2> SUFFICES ASSUME IInv PROVE NothingOutlives
    OBVIOUS
  <2>1. ReadersEnd
    BY Zenon DEF IInv, Watched, ReadersEnd
  <2>2. LoggedOutTogether
    BY DEF IInv, Hooked, LoggedOutTogether, OpenAt
  <2> QED BY <2>1, <2>2, Zenon DEF NothingOutlives
<1> QED BY <1>1, Inductive, PTL

\* A routing entry counts the logins of its address exactly, unless the idle sweep dropped
\* it, also when caps let sessions go uncounted.
THEOREM LoginsCounted == Spec => []RefsCounted
<1>1. IInv => RefsCounted
  BY DEF IInv, RefsBound
<1> QED BY <1>1, Inductive, PTL

-----------------------------------------------------------------------------
(* What they keep while every session takes a slot.                          *)

\* maxSessionsPerIp is positive in every configuration.
AllCounted == \A t \in Throttles : t.perIp > 0

\* Every session that will give a slot back has one, the counts are exact, and the caps
\* the receiving task has checked still hold for it.
Counted == \A s \in Ids : Owes(s) => s \in owners
SlotsExact == \A ip \in IPs : perIp[ip] = Cardinality(Holders(ip))
RoomLeft ==
    recv.pc \in {"slot", "open"} /\ recv.caps.max > 0 => Cardinality(Open) < recv.caps.max
WithinIpCap == recv.pc = "open" => perIp[IpOf[recv.client]] <= recv.caps.perIp
Exact == Counted /\ SlotsExact /\ RoomLeft /\ WithinIpCap

\* A step that takes and returns no slot, lists and unlists no session and begins to close
\* none.
Quiet ==
    /\ UNCHANGED <<table, owners, perIp>>
    /\ recv' = recv \/ recv'.pc \notin {"slot", "open"}
    /\ \A s \in Ids : sess'[s].client = sess[s].client
    /\ \A x \in Closers : job'[x].id # None /\ job'[x].pc # "abort"
                            => job'[x].id = job[x].id /\ job[x].pc # "abort"

\* Such a step keeps the counts exact.
LEMMA QuietExact ==
    ASSUME IInv, Exact, Quiet
    PROVE  Exact'
<1>1. Facts
  BY Known, Zenon
<1>2. Counted'
  <2> SUFFICES ASSUME NEW s \in Ids, Owes(s)' PROVE s \in owners
    BY Zenon DEF Counted, Quiet
  <2>1. s # None
    BY <1>1, Zenon DEF Facts
  <2>2. Owes(s)
    BY <2>1, Zenon DEF Quiet, Owes, Taken
  <2> QED BY <2>2, Zenon DEF Exact, Counted
<1>3. SlotsExact'
  <2> SUFFICES ASSUME NEW ip \in IPs
               PROVE  perIp'[ip] = Cardinality(Holders(ip)')
    BY Zenon DEF SlotsExact
  <2>1. Holders(ip)' = Holders(ip)
    BY <1>1, Zenon DEF Facts, Quiet, Holders
  <2> QED BY <2>1 DEF Exact, SlotsExact, Quiet
<1>4. Open' = Open
  BY Zenon DEF Quiet, Open
<1>5. RoomLeft' /\ WithinIpCap'
  <2>1. CASE recv' = recv
    BY <1>4, <2>1, Zenon DEF Exact, Quiet, RoomLeft, WithinIpCap
  <2>2. CASE recv'.pc \notin {"slot", "open"}
    BY <2>2, Zenon DEF RoomLeft, WithinIpCap
  <2> QED BY <2>1, <2>2, Zenon DEF Quiet
<1> QED BY <1>2, <1>3, <1>5 DEF Exact

\* Most steps are such.
LEMMA QuietSteps ==
    ASSUME IInv
    PROVE  /\ (\E from \in Sources, c \in Clients : Receive(from, c)) => Quiet
           /\ Find \/ Repoint \/ Resolve \/ Link \/ Spawn => Quiet
           /\ CheckCap => recv'.pc = "slot" \/ Quiet
           /\ SlotRefused => Quiet
           /\ \A s \in Ids : ReaderEnds(s) => Quiet
           /\ \A p \in Players : /\ Unregister(p) \/ DisconnectClient(p) => Quiet
                                 /\ \A ip \in IPs : Register(p, ip) => Quiet
           /\ \A ip \in IPs : EvictIdle(ip) => Quiet
           /\ \A stale \in SUBSET Clients : EvictStale(stale) => Quiet
           /\ \A x \in Closers : Done(x) \/ Unlink(x) \/ Abort(x) => Quiet
           /\ \A t \in Throttles : ApplyThrottle(t) => Quiet
           /\ UNCHANGED vars => Quiet
<1>1. Facts /\ Typed /\ Phases
  BY Known DEF IInv
<1>2. ASSUME NEW from \in Sources, NEW c \in Clients, Receive(from, c)
      PROVE  Quiet
  <2>1. ReceiverBecomes("find", from, c, None, 0, 0)
    BY <1>1, <1>2, ReceiverEffects, Zenon
  <2> QED BY <1>2, <2>1 DEF Receive, maps, ReceiverBecomes, Quiet
<1>3. ASSUME Find
      PROVE  Quiet
  <2>1. recv'.pc \in {"repoint", "cap", "resolve"}
    BY <1>1, <1>3, ReceiverEffects, Zenon DEF ReceiverBecomes
  <2> QED BY <1>3 DEF Find, maps, Quiet
<1>4. ASSUME Repoint
      PROVE  Quiet
  <2>1. \A s \in Ids : sess'[s].client = sess[s].client
    BY <1>1, <1>4, SessionEffects, Zenon DEF SessionBecomes
  <2> QED BY <1>4, <2>1 DEF Repoint, Idle, Quiet
<1>5. ASSUME Resolve
      PROVE  Quiet
  <2>1. recv'.pc \in {"idle", "cap"}
    BY <1>1, <1>5, ReceiverEffects, Zenon DEF ReceiverBecomes
  <2> QED BY <1>5, <2>1 DEF Resolve, maps, Quiet
<1>6. ASSUME Link
      PROVE  Quiet
  <2>1. recv'.pc = "spawn"
    BY <1>1, <1>6, ReceiverEffects, Zenon DEF ReceiverBecomes
  <2> QED BY <1>6, <2>1 DEF Link, Quiet
<1>7. ASSUME Spawn
      PROVE  Quiet
  <2>1. \A s \in Ids : sess'[s].client = sess[s].client
    BY <1>1, <1>7, SessionEffects, Zenon DEF SessionBecomes
  <2> QED BY <1>7, <2>1 DEF Spawn, Idle, maps, Quiet
<1>8. ASSUME CheckCap, recv'.pc # "slot"
      PROVE  Quiet
  <2>1. recv'.pc = "idle"
    BY <1>1, <1>8, ReceiverEffects, Zenon DEF ReceiverBecomes
  <2> QED BY <1>8, <2>1 DEF CheckCap, maps, Quiet
<1>9. SlotRefused => Quiet
  BY DEF SlotRefused, ReceiverBecomes, maps, Quiet
<1>10. ASSUME NEW s \in Ids, ReaderEnds(s)
       PROVE  Quiet
  <2>1. \A u \in Ids : sess'[u].client = sess[u].client
    BY <1>1, <1>10, SessionEffects, Zenon DEF SessionBecomes
  <2> QED BY <1>10, <2>1 DEF ReaderEnds, maps, Quiet
<1>11. ASSUME NEW p \in Players, Unregister(p)
       PROVE  Quiet
  <2>1. \A y \in Closers : job'[y].id # None => job'[y] = job[y]
    <3>1. CASE IsLast(player[p])
      <4>1. JobBecomes(p, "hook", player[p], {}, None)
        BY <1>1, <1>11, <3>1, JobEffects, Zenon
      <4> QED BY <4>1 DEF JobBecomes
    <3>2. CASE ~IsLast(player[p])
      BY <1>11, <3>2 DEF Unregister
    <3> QED BY <3>1, <3>2, Zenon
  <2> QED BY <1>11, <2>1, Zenon DEF Unregister, maps, Quiet
<1>12. ASSUME NEW p \in Players, DisconnectClient(p)
       PROVE  Quiet
  <2>1. JobBecomes(p, "next", job[p].ip, OpenAt(job[p].ip), job[p].id)
    BY <1>1, <1>12, JobEffects, Zenon
  <2> QED BY <1>12, <2>1 DEF DisconnectClient, JobBecomes, maps, Quiet
<1>13. ASSUME NEW p \in Players, NEW ip \in IPs, Register(p, ip)
       PROVE  Quiet
  BY <1>13, Zenon DEF Register, maps, Quiet
<1>14. ASSUME NEW ip \in IPs, EvictIdle(ip)
       PROVE  Quiet
  BY <1>14 DEF EvictIdle, maps, Quiet
<1>15. ASSUME NEW stale \in SUBSET Clients, EvictStale(stale)
       PROVE  Quiet
  <2>1. JobBecomes("reaper", "next", None, stale, None)
    BY <1>1, <1>15, JobEffects, Zenon
  <2> QED BY <1>15, <2>1 DEF EvictStale, JobBecomes, maps, Quiet
<1>16. ASSUME NEW x \in Closers, Done(x)
       PROVE  Quiet
  <2>1. JobBecomes(x, "idle", None, {}, None)
    BY <1>1, <1>16, JobEffects, Zenon
  <2> QED BY <1>16, <2>1 DEF Done, JobBecomes, maps, Quiet
<1>17. ASSUME NEW x \in Closers, Unlink(x)
       PROVE  Quiet
  <2>1. JobBecomes(x, "release", job[x].ip, job[x].todo, job[x].id)
    BY <1>1, <1>17, JobEffects, Zenon
  <2> QED BY <1>17, <2>1 DEF Unlink, JobBecomes, Quiet
<1>18. ASSUME NEW x \in Closers, Abort(x)
       PROVE  Quiet
  <2>1. JobBecomes(x, "next", job[x].ip, job[x].todo, None)
    BY <1>1, <1>18, JobEffects, Zenon
  <2>2. \A u \in Ids : sess'[u].client = sess[u].client
    BY <1>1, <1>18, SessionEffects, Zenon DEF SessionBecomes
  <2> QED BY <1>18, <2>1, <2>2 DEF Abort, JobBecomes, maps, Quiet
<1>19. /\ \A t \in Throttles : ApplyThrottle(t) => Quiet
       /\ UNCHANGED vars => Quiet
  BY Zenon DEF ApplyThrottle, vars, maps, Quiet
<1> QED BY <1>2, <1>3, <1>4, <1>5, <1>6, <1>7, <1>8, <1>9, <1>10, <1>11, <1>12, <1>13, <1>14,
   <1>15, <1>16, <1>17, <1>18, <1>19, Zenon

\* A session that has a slot gives it back: the counts stay exact.
LEMMA SlotReturnedExactly ==
    ASSUME IInv, SlotsExact, NEW s \in owners, ReleaseSlot(s),
           \A u \in Ids : sess'[u].client = sess[u].client
    PROVE  SlotsExact' /\ \A ip \in IPs : perIp'[ip] <= perIp[ip]
<1>1. Facts /\ sess[s].client \in Clients
  BY Known DEF IInv, Owned
<1>2. /\ owners' = owners \ {s}
      /\ \A ip \in IPs : perIp'[ip] = IF ip # IpOf[sess[s].client] THEN perIp[ip]
                                      ELSE IF perIp[ip] > 0 THEN perIp[ip] - 1 ELSE 0
  BY <1>1, Zenon DEF Facts, ReleaseSlot
<1>3. ASSUME NEW ip \in IPs
      PROVE  perIp'[ip] = Cardinality(Holders(ip)') /\ perIp'[ip] <= perIp[ip]
  <2>1. IsFiniteSet(Holders(ip)) /\ Cardinality(Holders(ip)) \in Nat
    BY <1>1, UdpAssumption, FS_Subset, FS_CardinalityType, Zenon DEF Holders, Facts
  <2>2. Holders(ip)' = Holders(ip) \ {s}
    BY <1>1, <1>2 DEF Holders, Facts
  <2>3. perIp[ip] = Cardinality(Holders(ip)) /\ perIp[ip] \in Nat
    BY <1>1, Zenon DEF SlotsExact, Facts
  <2>4. CASE ip = IpOf[sess[s].client]
    <3>1. s \in Holders(ip)
      BY <2>4 DEF Holders
    <3>2. /\ Cardinality(Holders(ip)') = Cardinality(Holders(ip)) - 1
          /\ Cardinality(Holders(ip)') \in Nat
      BY <2>1, <2>2, <3>1, FS_RemoveElement, FS_CardinalityType, Zenon
    <3> QED BY <1>2, <2>3, <2>4, <3>2
  <2>5. CASE ip # IpOf[sess[s].client]
    <3>1. Holders(ip)' = Holders(ip)
      BY <2>2, <2>5 DEF Holders
    <3> QED BY <1>2, <2>3, <2>5, <3>1
  <2> QED BY <2>4, <2>5
<1>4. SlotsExact'
  BY <1>3, Zenon DEF SlotsExact
<1> QED BY <1>3, <1>4, Zenon

\* The room checked for is still there when the next step begins.
LEMMA CheckCapExact ==
    ASSUME IInv, Exact, CheckCap, recv'.pc = "slot"
    PROVE  Exact'
<1>1. Facts /\ Typed /\ Phases
  BY Known DEF IInv
<1>2. ~Full(throttle.max) /\ recv'.caps.max = throttle.max /\ throttle.max \in Int
  <2>1. recv' # Idle
    BY DEF Idle
  <2>2. ReceiverBecomes("slot", recv.from, recv.client, None, throttle.max, recv.caps.perIp)
    BY <1>1, <2>1, ReceiverEffects, Zenon
  <2> QED BY <1>1, <2>1, <2>2, UdpAssumption, Zenon DEF CheckCap, ReceiverBecomes, Typed, MapsTyped
<1>3. UNCHANGED <<table, owners, perIp, sess, job>> /\ recv.pc = "cap"
  BY Zenon DEF CheckCap, maps
<1>4. Counted'
  BY <1>3 DEF Exact, Counted, Owes, Taken
<1>5. SlotsExact'
  BY <1>3, Zenon DEF Exact, SlotsExact, Holders
<1>6. RoomLeft'
  <2>1. Cardinality(Open) \in Nat
    BY UdpAssumption, FS_Subset, FS_CardinalityType DEF Open
  <2>2. Open' = Open
    BY <1>3 DEF Open
  <2> QED BY <1>2, <2>1, <2>2 DEF Full, RoomLeft
<1> QED BY <1>4, <1>5, <1>6 DEF Exact, WithinIpCap

\* A slot is taken for a session that had none, within the cap of its address.
LEMMA SlotTakenExact ==
    ASSUME AllCounted, IInv, Exact, NEW s \in Ids, SlotTaken(s)
    PROVE  Exact'
<1>1. Facts /\ Typed /\ Phases /\ throttle.perIp > 0
  BY Known DEF IInv, AllCounted, Typed, MapsTyped
<1>2. /\ s \notin owners /\ owners' = owners \cup {s}
      /\ recv.client \in Clients /\ IpOf[recv.client] \in IPs
  BY <1>1, Zenon DEF IInv, Owned, Owes, Taken, SlotTaken, Facts
<1>3. Counted'
  BY <1>2, Zenon DEF Exact, Counted, SlotTaken, ReceiverBecomes, Owes, Taken
<1>4. SlotsExact'
  <2> SUFFICES ASSUME NEW ip \in IPs
               PROVE  perIp'[ip] = Cardinality(Holders(ip)')
    BY Zenon DEF SlotsExact
  <2>1. IsFiniteSet(Holders(ip)) /\ perIp[ip] = Cardinality(Holders(ip))
    BY <1>1, UdpAssumption, FS_Subset DEF Holders, Facts, Exact, SlotsExact
  <2>2. \A u \in owners : sess'[u] = sess[u]
    BY <1>1, <1>2, Zenon DEF Facts, SlotTaken, SessionBecomes
  <2>3. CASE ip = IpOf[recv.client]
    <3>1. Holders(ip)' = Holders(ip) \cup {s}
      BY <1>2, <2>2, <2>3, Zenon DEF SlotTaken, SessionBecomes, Holders
    <3>2. Cardinality(Holders(ip)') = Cardinality(Holders(ip)) + 1
      BY <1>2, <2>1, <3>1, FS_AddElement, Zenon DEF Holders
    <3>3. perIp'[ip] = perIp[ip] + 1
      BY <1>1, <2>3, Zenon DEF SlotTaken, Facts
    <3> QED BY <2>1, <3>2, <3>3, Zenon
  <2>4. CASE ip # IpOf[recv.client]
    <3>1. Holders(ip)' = Holders(ip)
      BY <1>2, <2>2, <2>4, Zenon DEF SlotTaken, SessionBecomes, Holders
    <3>2. perIp'[ip] = perIp[ip]
      BY <1>1, <2>4, Zenon DEF SlotTaken, Facts
    <3> QED BY <2>1, <3>1, <3>2, Zenon
  <2> QED BY <2>3, <2>4
<1>5. RoomLeft'
  <2>1. Open' = Open /\ recv.pc = "slot" /\ recv'.caps.max = recv.caps.max
    BY Zenon DEF SlotTaken, ReceiverBecomes, Open
  <2> QED BY <2>1, Zenon DEF Exact, RoomLeft
<1>6. WithinIpCap'
  <2>1. /\ perIp'[IpOf[recv.client]] <= throttle.perIp
        /\ recv'.caps.perIp = throttle.perIp /\ recv'.client = recv.client
    BY <1>1, <1>2, Zenon DEF SlotTaken, ReceiverBecomes, Facts
  <2> QED BY <2>1, Zenon DEF WithinIpCap
<1> QED BY <1>3, <1>4, <1>5, <1>6, Zenon DEF Exact

\* A session that could not be opened gives its slot back.
LEMMA OpenFailsExact ==
    ASSUME IInv, Exact, OpenFails
    PROVE  Exact'
<1>1. /\ Facts /\ recv.id \in owners /\ recv.pc = "open" /\ recv' = Idle
      /\ UNCHANGED <<table, job, sess>> /\ owners' = owners \ {recv.id}
  BY Known, Zenon DEF Exact, Counted, Owes, OpenFails, ReleaseSlot, Facts
<1>2. recv'.pc = "idle"
  BY <1>1, Zenon DEF Idle
<1>3. Counted'
  BY <1>1, <1>2, Zenon DEF IInv, SetUp, Exact, Counted, Owes, Taken, Closing
<1>4. SlotsExact'
  <2>1. ReleaseSlot(recv.id) /\ \A u \in Ids : sess'[u].client = sess[u].client
    BY Zenon DEF OpenFails
  <2> QED BY <1>1, <2>1, SlotReturnedExactly, Zenon DEF Exact
<1> QED BY <1>2, <1>3, <1>4, Zenon DEF Exact, RoomLeft, WithinIpCap

\* A session that is listed has its slot already.
LEMMA InsertExact ==
    ASSUME IInv, Exact, Insert
    PROVE  Exact'
<1>1. Facts /\ Typed /\ Phases
  BY Known DEF IInv
<1>2. /\ recv.pc = "open" /\ recv'.pc \in {"link", "spawn"} /\ recv.client \in Clients
      /\ UNCHANGED <<job, sess, owners, perIp>>
      /\ table'[recv.client] = recv.id /\ recv.id \in Ids
      /\ \A c \in Clients : c # recv.client => table'[c] = table[c]
  BY <1>1, ReceiverEffects, Zenon DEF Insert, ReceiverBecomes, Facts
<1>3. Counted'
  BY <1>2, Zenon DEF Exact, Counted, Owes, Taken
<1>4. SlotsExact'
  BY <1>2, Zenon DEF Exact, SlotsExact, Holders
<1> QED BY <1>2, <1>3, <1>4, Zenon DEF Exact, RoomLeft, WithinIpCap

\* A session that is unlisted is still owed a release.
LEMMA RemoveNextExact ==
    ASSUME IInv, Exact, NEW x \in Closers, NEW c \in Clients, RemoveNext(x, c)
    PROVE  Exact'
<1>1. Facts /\ Typed /\ Phases
  BY Known DEF IInv
<1>2. JobBecomes(x, IF table[c] = None THEN "next" ELSE "unlink", job[x].ip,
                 job[x].todo \ {c}, table[c])
  BY <1>1, JobEffects, Zenon
<1>3. /\ UNCHANGED <<recv, sess, owners, perIp>>
      /\ \A d \in Clients : table'[d] = IF d = c THEN None ELSE table[d]
      /\ job'[x].id = table[c] /\ \A y \in Closers : y # x => job'[y] = job[y]
  BY <1>1, <1>2 DEF RemoveNext, Unlisted, JobBecomes, Facts
<1>4. Counted'
  <2> SUFFICES ASSUME NEW s \in Ids, Owes(s)' PROVE s \in owners
    BY <1>3, Zenon DEF Counted
  <2>1. CASE recv.pc = "open" /\ recv.id = s
    BY <2>1, Zenon DEF Exact, Counted, Owes
  <2>2. CASE \E d \in Clients : table[d] = s
    BY <2>2, Zenon DEF Exact, Counted, Owes, Taken
  <2>3. CASE \E y \in Closers : y # x /\ job'[y].id = s /\ job'[y].pc # "abort"
    BY <1>3, <2>3, Zenon DEF Exact, Counted, Owes
  <2>4. s # None
    BY <1>1, Zenon DEF Facts
  <2> QED BY <1>3, <2>1, <2>2, <2>3, <2>4, Zenon DEF Owes, Taken
<1>5. SlotsExact' /\ WithinIpCap'
  BY <1>3, Zenon DEF Exact, SlotsExact, Holders, WithinIpCap
<1>6. RoomLeft'
  <2>4. IsFiniteSet(Open)
    BY UdpAssumption, FS_Subset DEF Open
  <2>1. IsFiniteSet(Open) /\ Open' \subseteq Open
    BY <1>3, <2>4, Zenon DEF Open
  <2>2. /\ Cardinality(Open') <= Cardinality(Open)
        /\ Cardinality(Open') \in Nat /\ Cardinality(Open) \in Nat
    BY <2>1, FS_Subset, FS_CardinalityType
  <2>3. recv.caps.max \in Int
    BY <1>1 DEF Typed, ReceiverTyped, ReceiverStates
  <2> QED BY <1>3, <2>2, <2>3 DEF Exact, RoomLeft
<1> QED BY <1>4, <1>5, <1>6 DEF Exact

\* A session that is closed gives its slot back once.
LEMMA ReleaseExact ==
    ASSUME IInv, Exact, NEW x \in Closers, Release(x)
    PROVE  Exact'
<1> DEFINE s == job[x].id
<1>1. Facts /\ Typed /\ Phases
  BY Known DEF IInv
<1>2. /\ JobBecomes(x, "abort", job[x].ip, job[x].todo, s)
      /\ SessionBecomes(s, sess[s].client, sess[s].via, TRUE, sess[s].reading)
  BY <1>1, JobEffects, SessionEffects, Zenon
<1>3. /\ s \in Ids /\ job[x].pc = "release" /\ s \in owners /\ ReleaseSlot(s)
      /\ sess[s].client \in Clients
  BY <1>1 DEF Facts, Release, Exact, Counted, Owes, IInv, Owned
<1>4. /\ \A u \in Ids : sess'[u].client = sess[u].client
      /\ UNCHANGED <<recv, table>> /\ owners' = owners \ {s}
      /\ job'[x].pc = "abort" /\ \A y \in Closers : y # x => job'[y] = job[y]
  BY <1>2, <1>3, Zenon DEF Release, SessionBecomes, JobBecomes, ReleaseSlot
<1>5. /\ ~Taken(s) /\ \A y \in Closers : job[y].id = s => y = x
      /\ ~(recv.pc = "open" /\ recv.id = s) /\ s # None
  BY <1>1, <1>3, Zenon DEF IInv, ClosedOnce, SetUp, Closing, Facts
<1> HIDE DEF s
<1>6. Counted'
  BY <1>4, <1>5, Zenon DEF Exact, Counted, Owes, Taken
<1>7. SlotsExact' /\ \A ip \in IPs : perIp'[ip] <= perIp[ip]
  BY <1>3, <1>4, SlotReturnedExactly, Zenon DEF Exact
<1>8. WithinIpCap'
  <2>1. ASSUME recv.pc = "open"
        PROVE  /\ perIp[IpOf[recv.client]] <= recv.caps.perIp
               /\ perIp'[IpOf[recv.client]] <= perIp[IpOf[recv.client]]
               /\ perIp[IpOf[recv.client]] \in Nat /\ recv.caps.perIp \in Int
               /\ perIp'[IpOf[recv.client]] \in Nat
    <3>1. perIp' \in [IPs -> Nat]
      BY <1>1, <1>3 DEF Facts, ReleaseSlot
    <3>2. IpOf[recv.client] \in IPs
      BY <1>1, <2>1 DEF Facts
    <3>3. recv.caps.perIp \in Int
      BY <1>1, Zenon DEF Typed, ReceiverTyped, ReceiverStates
    <3> QED BY <1>1, <1>7, <2>1, <3>1, <3>3, Zenon DEF Exact, WithinIpCap, Facts
  <2> QED BY <1>4, <2>1 DEF WithinIpCap
<1>9. RoomLeft'
  BY <1>4 DEF Exact, RoomLeft, Open
<1> QED BY <1>6, <1>7, <1>8, <1>9 DEF Exact

\* IInv with Exact is an invariant when every session is counted.
LEMMA ExactInductive ==
    ASSUME AllCounted
    PROVE  Spec => [](IInv /\ Exact)
<1>1. Init => Exact
  <2> SUFFICES ASSUME Init PROVE Exact
    BY Zenon
  <2>1. /\ recv.pc = "idle" /\ \A c \in Clients : table[c] = None
        /\ \A x \in Closers : job[x].id = None
    <3>1. recv = Idle /\ table = [c \in Clients |-> None] /\ job = [x \in Closers |-> NoJob]
      BY Zenon DEF Init
    <3> QED BY <3>1 DEF Idle, NoJob
  <2>2. Counted /\ RoomLeft /\ WithinIpCap
    BY <2>1, UdpAssumption DEF Counted, Owes, Taken, RoomLeft, WithinIpCap
  <2>3. ASSUME NEW ip \in IPs
        PROVE  perIp[ip] = Cardinality(Holders(ip))
    <3>1. Holders(ip) = {} /\ perIp[ip] = 0
      BY Zenon DEF Init, Holders
    <3>2. Cardinality({}) = 0
      BY FS_EmptySet, Zenon
    <3> QED BY <3>1, <3>2
  <2> QED BY <2>2, <2>3 DEF Exact, SlotsExact
<1>2. IInv /\ Exact /\ [Next]_vars => Exact'
  <2> SUFFICES ASSUME IInv, Exact, [Next]_vars
               PROVE  Exact'
    OBVIOUS
  <2>1. Quiet => Exact'
    BY QuietExact
  <2>2. CASE CheckCap
    BY <2>1, <2>2, QuietSteps, CheckCapExact, Zenon
  <2>3. ASSUME NEW s \in Ids, AcquireSlot(s)
        PROVE  Exact'
    <3>1. SlotRefused \/ SlotTaken(s)
      BY <2>3, SlotEffects, Zenon DEF IInv
    <3> QED BY <2>1, <3>1, QuietSteps, SlotTakenExact, Zenon
  <2>4. CASE OpenFails \/ Insert
    BY <2>4, OpenFailsExact, InsertExact, Zenon
  <2>5. ASSUME NEW x \in Closers, Release(x)
        PROVE  Exact'
    BY <2>5, ReleaseExact, Zenon
  <2>6. ASSUME NEW x \in Closers, NEW c \in Clients, RemoveNext(x, c)
        PROVE  Exact'
    BY <2>6, RemoveNextExact, Zenon
  <2> QED BY <2>1, <2>2, <2>3, <2>4, <2>5, <2>6, QuietSteps, Zenon DEF Next
<1> QED BY <1>1, <1>2, Inductive, PTL DEF Spec

\* sessions_per_ip is exactly the number of slots taken and not given back, and every
\* slot has an owner that will give it back.
THEOREM CountsAreExact ==
    ASSUME AllCounted
    PROVE  Spec => []CountsExact
<1>1. IInv /\ Exact => CountsExact
  <2> SUFFICES ASSUME IInv, Exact PROVE CountsExact
    BY Zenon
  <2>1. \A s \in owners : \/ recv.id = s
                          \/ \E c \in Clients : table[c] = s
                          \/ \E x \in Closers : job[x].id = s
    BY DEF IInv, Owned, Owes, Taken
  <2> QED BY <2>1 DEF IInv, RefsBound, Exact, SlotsExact, CountsExact, SlotsCounted
<1> QED BY <1>1, ExactInductive, PTL

\* A session is listed only within the caps it was admitted under, whatever reloads,
\* evictions and logouts come between the checks and the insertion.
THEOREM InsertionsCapped ==
    ASSUME AllCounted
    PROVE  Spec => SessionsCapped
<1> DEFINE Capped ==
      \A c \in Clients : table[c] = None /\ table'[c] # None
         => LET caps == recv.caps
            IN  /\ caps.max > 0 => Cardinality(Open') <= caps.max
                /\ caps.perIp > 0 => Cardinality(OpenAt(IpOf[c])') <= caps.perIp
<1>1. ASSUME IInv, Exact, IInv', Next
      PROVE  Capped
  <2> SUFFICES ASSUME NEW c \in Clients, table[c] = None, table'[c] # None
               PROVE  /\ recv.caps.max > 0 => Cardinality(Open') <= recv.caps.max
                      /\ recv.caps.perIp > 0 => Cardinality(OpenAt(IpOf[c])') <= recv.caps.perIp
    BY Zenon DEF Capped
  <2>1. Facts /\ Typed
    BY <1>1, Known DEF IInv
  <2>2. Insert
    <3>1. \A x \in Closers, d \in Clients : ~RemoveNext(x, d)
      BY <2>1 DEF RemoveNext, Unlisted, Facts
    <3>2. Insert \/ table' = table
      BY <1>1, <3>1, Zenon DEF Next, Receive, Find, Repoint, Resolve, CheckCap,
         AcquireSlot, OpenFails, Link, Spawn, ReaderEnds, Unregister, DisconnectClient,
         Register, EvictIdle, EvictStale, Done, Unlink, Release, Abort, ApplyThrottle,
         maps
    <3> QED BY <3>2
  <2>3. /\ recv.pc = "open" /\ c = recv.client /\ table'[c] = recv.id /\ recv.id \in Ids
        /\ \A d \in Clients : d # c => table'[d] = table[d]
        /\ UNCHANGED <<sess, owners, perIp>>
        /\ table' \in [Clients -> Ids \cup {None}]
    <3>1. /\ recv.pc = "open" /\ recv.client \in Clients /\ recv.id \in Ids
          /\ table \in [Clients -> Ids \cup {None}]
          /\ table' = [table EXCEPT ![recv.client] = recv.id]
          /\ UNCHANGED <<sess, owners, perIp>>
      BY <2>1, <2>2, Zenon DEF Insert, Facts
    <3>2. table' \in [Clients -> Ids \cup {None}]
      BY <3>1
    <3>3. \A d \in Clients : table'[d] = IF d = recv.client THEN recv.id ELSE table[d]
      BY <3>1
    <3>4. c = recv.client
      BY <3>3, Zenon
    <3> QED BY <3>1, <3>2, <3>3, <3>4, Zenon
  <2>4. recv.caps.max \in Int /\ recv.caps.perIp \in Int
    BY <2>1 DEF Typed, ReceiverTyped, ReceiverStates
  <2>5. ASSUME recv.caps.max > 0
        PROVE  Cardinality(Open') <= recv.caps.max
    <3>1. Open' = Open \cup {c} /\ c \notin Open
      BY <2>3, Zenon DEF Open
    <3>2. IsFiniteSet(Open)
      BY UdpAssumption, FS_Subset DEF Open
    <3>3. Cardinality(Open') = Cardinality(Open) + 1 /\ Cardinality(Open) \in Nat
      BY <3>1, <3>2, FS_AddElement, FS_CardinalityType, Zenon
    <3>4. Cardinality(Open) < recv.caps.max
      BY <1>1, <2>3, <2>5, Zenon DEF Exact, RoomLeft
    <3> QED BY <2>4, <3>3, <3>4
  <2>6. Cardinality(OpenAt(IpOf[c])') <= recv.caps.perIp
    <3> DEFINE S == OpenAt(IpOf[c])'
               T == Holders(IpOf[c])
               f == [d \in S |-> table'[d]]
    <3>1. S = {d \in Clients : table'[d] # None /\ IpOf[d] = IpOf[c]}
      BY DEF OpenAt, Open
    <3>2. \A d \in S : table'[d] \in owners
      BY <1>1, <2>3, <3>1, Zenon DEF Exact, Counted, Owes, Taken
    <3>3. \A d \in S : sess[table'[d]].client = d
      BY <1>1, <2>3, <3>1, Zenon DEF IInv, Listed, Open
    <3> HIDE DEF S
    <3>4. f \in [S -> T] /\ \A d, e \in S : f[d] = f[e] => d = e
      BY <3>1, <3>2, <3>3 DEF Holders
    <3>5. f \in Injection(S, T)
      BY <3>4, Zenon DEF Injection, IsInjective
    <3>6. IsFiniteSet(T) /\ Cardinality(T) \in Nat
      BY <2>1, UdpAssumption, FS_Subset, FS_CardinalityType DEF Facts, Holders
    <3>7. Cardinality(S) <= Cardinality(T) /\ Cardinality(S) \in Nat
      BY <3>5, <3>6, FS_Injection, FS_CardinalityType, Zenon
    <3>8. Cardinality(T) <= recv.caps.perIp
      BY <1>1, <2>1, <2>3, Zenon DEF Exact, SlotsExact, WithinIpCap, Facts
    <3> QED BY <2>4, <3>6, <3>7, <3>8 DEF S
  <2> QED BY <2>5, <2>6, Zenon
<1>2. UNCHANGED vars => Capped
  BY Zenon DEF vars, maps
<1>3. IInv /\ Exact /\ (IInv /\ Exact)' /\ [Next]_vars => [Capped]_vars
  BY <1>1, <1>2, Zenon
<1>4. Spec => [][Capped]_vars
  BY <1>3, ExactInductive, PTL DEF Spec
<1> QED BY <1>4, Zenon DEF SessionsCapped
=============================================================================
