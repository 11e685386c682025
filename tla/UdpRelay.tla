------------------------------ MODULE UdpRelay ------------------------------
(***************************************************************************)
(* The UDP relays: a plain forward (udp/proxy.rs) and the voice relay      *)
(* (udp/voice_relay.rs), direct or behind a proxy that prepends PROXY      *)
(* headers, with the routing entries logins leave for it                   *)
(* (udp/voice_routing.rs) and the hot-reloaded caps (udp/throttle.rs).     *)
(*                                                                         *)
(* Each relay has one receiving task, a reaper, and one reader task per    *)
(* session; logins that end close voice sessions through the relay's hook. *)
(* Each critical section is a step.  Activity times are left out: which    *)
(* sessions are idle or unanswered is the reaper's choice, except that a   *)
(* session the receiver is still setting up is neither.                    *)
(***************************************************************************)
EXTENDS Integers, FiniteSets

CONSTANTS Kinds,      \* which relays to look at: "forward", "voice", "proxied"
          Clients,    \* client socket addresses
          IPs, IpOf,  \* their addresses
          Vias,       \* source addresses of a fronting proxy
          Players,    \* logins with a voicechat route
          Ids,        \* Session objects
          Throttles,  \* the udpThrottle settings: [max, perIp]
          None

ASSUME UdpAssumption ==
    /\ Kinds \subseteq {"forward", "voice", "proxied"}
    /\ IpOf \in [Clients -> IPs]
    /\ Throttles \subseteq [max : Int, perIp : Int]
    /\ "reaper" \notin Players
    /\ None \notin Ids \cup IPs
    /\ IsFiniteSet(Clients) /\ IsFiniteSet(Players) /\ IsFiniteSet(Ids)

Closers == Players \cup {"reaper"}
Sources == Clients \cup Vias

VARIABLES
    kind,      \* the relay looked at
    throttle,  \* udp_throttle()
    refs,      \* voice_routing: Entry.refs by address, zero for no entry
    player,    \* the address each login is registered with, or None
    recv,      \* the receiving task: [pc, from, client, id, caps]
    table,     \* sessions, by client
    byVia,     \* by_via
    perIp,     \* sessions_per_ip, zero for an absent key
    sess,      \* the Session objects
    job,       \* per closer: [pc, ip, todo, id]
    owners,    \* history: objects an address's slot was taken for
    evicted,   \* history: addresses whose entry was evicted under a login
    raced      \* history: a logout met a session that was being set up
routing == <<refs, player, evicted>>
maps == <<table, byVia, perIp>>
vars == <<kind, throttle, routing, recv, maps, sess, job, owners, raced>>

NoCaps == [max |-> 0, perIp |-> 0]
Idle == [pc |-> "idle", from |-> None, client |-> None, id |-> None, caps |-> NoCaps]
NoJob == [pc |-> "idle", ip |-> None, todo |-> {}, id |-> None]
NoSession == [client |-> None, via |-> None, dead |-> FALSE, reading |-> FALSE]

Init ==
    /\ kind \in Kinds
    /\ throttle \in Throttles
    /\ refs = [ip \in IPs |-> 0]
    /\ player = [p \in Players |-> None]
    /\ recv = Idle
    /\ table = [c \in Clients |-> None]
    /\ byVia = [v \in Vias |-> None]
    /\ perIp = [ip \in IPs |-> 0]
    /\ sess = [s \in Ids |-> NoSession]
    /\ job = [x \in Closers |-> NoJob]
    /\ owners = {}
    /\ evicted = {}
    /\ raced = FALSE

Open == {c \in Clients : table[c] # None}
OpenAt(ip) == {c \in Open : IpOf[c] = ip}

InUse(s) ==
    \/ \E c \in Clients : table[c] = s
    \/ \E v \in Vias : byVia[v] = s
    \/ \E x \in Closers : job[x].id = s
    \/ recv.id = s
    \/ sess[s].reading

-----------------------------------------------------------------------------
(* The receiving task.  A PROXY header without an address, and a datagram    *)
(* without a header where one is expected, change no state.                  *)

Goto(label) == recv' = [recv EXCEPT !.pc = label]

Receive(from, client) ==
    /\ recv.pc = "idle"
    /\ IF kind = "proxied" THEN from \in Vias ELSE from = client
    /\ recv' = [Idle EXCEPT !.pc = "find", !.from = from, !.client = client]
    /\ UNCHANGED <<kind, throttle, routing, maps, sess, job, owners, raced>>

\* A session of the client goes on to be repointed; without one the forward looks
\* at its caps, the voice relay at the routing entries.
Find ==
    /\ recv.pc = "find"
    /\ recv' = IF table[recv.client] # None
                 THEN [recv EXCEPT !.pc = "repoint", !.id = table[recv.client]]
                 ELSE [recv EXCEPT !.pc = IF kind = "forward" THEN "cap" ELSE "resolve"]
    /\ UNCHANGED <<kind, throttle, routing, maps, sess, job, owners, raced>>

\* M: the flow's old source keeps its entry.
M_Repointed(s, from) == [byVia EXCEPT ![from] = s]

\* repoint_via: the old source loses its entry, whoever has it, the new one gets one.
Repointed(s, from) ==
    [v \in Vias |-> IF v = from THEN s ELSE IF v = sess[s].via THEN None ELSE byVia[v]]

\* The datagram is forwarded (unless the session has died meanwhile).
Repoint ==
    LET s == recv.id
    IN  /\ recv.pc = "repoint"
        /\ byVia' = IF kind = "proxied" /\ sess[s].via # recv.from
                      THEN Repointed(s, recv.from) ELSE byVia
        /\ sess' = [sess EXCEPT ![s].via = recv.from]
        /\ recv' = Idle
        /\ UNCHANGED <<kind, throttle, routing, table, perIp, job, owners, raced>>

\* VoiceRouting::resolve
Resolve ==
    /\ recv.pc = "resolve"
    /\ recv' = IF refs[IpOf[recv.client]] = 0 THEN Idle ELSE [recv EXCEPT !.pc = "cap"]
    /\ UNCHANGED <<kind, throttle, routing, maps, sess, job, owners, raced>>

\* M: off by one at the session cap.
M_Full(max) == max > 0 /\ Cardinality(Open) > max

Full(max) == max > 0 /\ Cardinality(Open) >= max

CheckCap ==
    /\ recv.pc = "cap"
    /\ recv' = IF Full(throttle.max) THEN Idle ELSE [recv EXCEPT !.pc = "slot", !.caps.max = throttle.max]
    /\ UNCHANGED <<kind, throttle, routing, maps, sess, job, owners, raced>>

OverIpCap(n, max) == n > max

\* acquire_ip_slot, for the session that will be object s.
AcquireSlot(s) ==
    LET ip == IpOf[recv.client]
        counted == throttle.perIp > 0
        over == counted /\ OverIpCap(perIp[ip] + 1, throttle.perIp)
    IN  /\ recv.pc = "slot"
        /\ ~InUse(s)
        /\ perIp' = IF counted /\ ~over THEN [perIp EXCEPT ![ip] = @ + 1] ELSE perIp
        /\ owners' = IF counted /\ ~over THEN owners \cup {s} ELSE owners
        /\ sess' = IF over THEN sess ELSE [sess EXCEPT ![s] = [NoSession EXCEPT
                                             !.client = recv.client, !.via = recv.from]]
        /\ recv' = IF over THEN Idle ELSE [recv EXCEPT !.pc = "open", !.id = s,
                                                     !.caps.perIp = throttle.perIp]
        /\ UNCHANGED <<kind, throttle, routing, table, byVia, job, raced>>

\* release_ip_slot, for what object s holds.
ReleaseSlot(s) ==
    /\ perIp' = [perIp EXCEPT ![IpOf[sess[s].client]] = IF @ > 0 THEN @ - 1 ELSE 0]
    /\ owners' = owners \ {s}

\* M: the slot of a session that could not be opened is kept.
M_OpenFails ==
    /\ recv.pc = "open"
    /\ owners' = owners \ {recv.id}
    /\ recv' = Idle
    /\ UNCHANGED <<kind, throttle, routing, maps, sess, job, raced>>

\* No socket for the backend.
OpenFails ==
    /\ recv.pc = "open"
    /\ ReleaseSlot(recv.id)
    /\ recv' = Idle
    /\ UNCHANGED <<kind, throttle, routing, table, byVia, sess, job, raced>>

\* The socket is connected and the session listed ...
Insert ==
    /\ recv.pc = "open"
    /\ table' = [table EXCEPT ![recv.client] = recv.id]
    /\ Goto(IF kind = "proxied" THEN "link" ELSE "spawn")
    /\ UNCHANGED <<kind, throttle, routing, byVia, perIp, sess, job, owners, raced>>

\* ... also by its flow ...
Link ==
    /\ recv.pc = "link"
    /\ byVia' = [byVia EXCEPT ![recv.from] = recv.id]
    /\ Goto("spawn")
    /\ UNCHANGED <<kind, throttle, routing, table, perIp, sess, job, owners, raced>>

\* ... and its reader is spawned, its handle kept to abort it by.  (A close that falls
\* between the two finds no handle, as one before both does.)  The datagram is forwarded.
Spawn ==
    /\ recv.pc = "spawn"
    /\ sess' = [sess EXCEPT ![recv.id].reading = TRUE]
    /\ recv' = Idle
    /\ UNCHANGED <<kind, throttle, routing, maps, job, owners, raced>>

\* A reader ends by itself when a packet shows it that its session is dead, and in
\* the forward when its socket reports an error.
ReaderEnds(s) ==
    /\ sess[s].reading
    /\ sess[s].dead \/ kind = "forward"
    /\ sess' = [sess EXCEPT ![s].reading = FALSE]
    /\ UNCHANGED <<kind, throttle, routing, recv, maps, job, owners, raced>>

-----------------------------------------------------------------------------
(* Logins: register_voicechat_route before the backend is dialed, unregister *)
(* after the relay ended.                                                    *)

Register(p, ip) ==
    /\ kind # "forward"
    /\ player[p] = None /\ job[p].pc = "idle"
    /\ player' = [player EXCEPT ![p] = ip]
    /\ refs' = [refs EXCEPT ![ip] = @ + 1]
    /\ UNCHANGED <<kind, throttle, recv, maps, sess, job, owners, evicted, raced>>

At(ip) == {p \in Players : player[p] = ip}

IsLast(ip) == refs[ip] <= 1

\* The last login of an address (as far as the entry knows) drops it and goes on
\* to the relay's hook.
Unregister(p) ==
    LET ip == player[p]
    IN  /\ ip # None
        /\ player' = [player EXCEPT ![p] = None]
        /\ refs' = [refs EXCEPT ![ip] = IF IsLast(ip) THEN 0 ELSE @ - 1]
        /\ job' = IF IsLast(ip) THEN [job EXCEPT ![p] = [NoJob EXCEPT !.pc = "hook", !.ip = ip]]
                                ELSE job
        /\ evicted' = IF At(ip) = {p} THEN evicted \ {ip} ELSE evicted
        /\ raced' = (raced \/ (recv.pc # "idle" /\ IpOf[recv.client] = ip))
        /\ UNCHANGED <<kind, throttle, recv, maps, sess, owners>>

\* VoiceRouting::evict_idle
EvictIdle(ip) ==
    /\ refs[ip] > 0
    /\ refs' = [refs EXCEPT ![ip] = 0]
    /\ evicted' = evicted \cup {ip}
    /\ UNCHANGED <<kind, throttle, player, recv, maps, sess, job, owners, raced>>

-----------------------------------------------------------------------------
(* Closing sessions: disconnect_client, in the login that ended, and         *)
(* evict_stale_sessions.                                                     *)

\* M: only one of an address's sessions is closed.
M_ToClose(ip) == IF OpenAt(ip) = {} THEN {} ELSE {CHOOSE c \in OpenAt(ip) : TRUE}

ToClose(ip) == OpenAt(ip)

\* The hook runs under its mutex: one login at a time.
DisconnectClient(p) ==
    /\ job[p].pc = "hook"
    /\ \A q \in Players : job[q].pc \in {"idle", "hook"}
    /\ job' = [job EXCEPT ![p].pc = "next", ![p].todo = ToClose(job[p].ip)]
    /\ UNCHANGED <<kind, throttle, routing, recv, maps, sess, owners, raced>>

EvictStale(stale) ==
    /\ job["reaper"].pc = "idle"
    /\ stale # {}
    /\ \A c \in stale : table[c] # None /\ table[c] # recv.id
    /\ job' = [job EXCEPT !["reaper"] = [NoJob EXCEPT !.pc = "next", !.todo = stale]]
    /\ UNCHANGED <<kind, throttle, routing, recv, maps, sess, owners, raced>>

BeingSetUp(s) == recv.id = s /\ recv.pc \in {"link", "spawn"}

\* M: the session is looked up, not taken out.
M_Unlisted(c) == table

Unlisted(c) == [table EXCEPT ![c] = None]

\* One of the collected clients: the session it has now, if any, is unlisted.
RemoveNext(x, c) ==
    /\ job[x].pc = "next" /\ c \in job[x].todo
    /\ table' = Unlisted(c)
    /\ job' = [job EXCEPT ![x].todo = @ \ {c}, ![x].id = table[c],
                          ![x].pc = IF table[c] = None THEN "next" ELSE "unlink"]
    /\ raced' = (raced \/ (table[c] # None /\ BeingSetUp(table[c])))
    /\ UNCHANGED <<kind, throttle, routing, recv, byVia, perIp, sess, owners>>

Done(x) ==
    /\ job[x].pc = "next" /\ job[x].todo = {}
    /\ job' = [job EXCEPT ![x] = NoJob]
    /\ UNCHANGED <<kind, throttle, routing, recv, maps, sess, owners, raced>>

\* close_session: no flow leads to it any more (the forward has no flows) ...
Unlink(x) ==
    LET s == job[x].id
    IN  /\ job[x].pc = "unlink"
        /\ byVia' = [v \in Vias |-> IF byVia[v] = s THEN None ELSE byVia[v]]
        /\ job' = [job EXCEPT ![x].pc = "release"]
        /\ UNCHANGED <<kind, throttle, routing, recv, table, perIp, sess, owners, raced>>

\* ... it is dead and gives its slot back ...
Release(x) ==
    LET s == job[x].id
    IN  /\ job[x].pc = "release"
        /\ sess' = [sess EXCEPT ![s].dead = TRUE]
        /\ ReleaseSlot(s)
        /\ job' = [job EXCEPT ![x].pc = "abort"]
        /\ UNCHANGED <<kind, throttle, routing, recv, table, byVia, raced>>

Aborted(se) == [se EXCEPT !.reading = FALSE]

\* ... and its reader, if it has its handle by now, is aborted.
Abort(x) ==
    /\ job[x].pc = "abort"
    /\ sess' = [sess EXCEPT ![job[x].id] = Aborted(@)]
    /\ job' = [job EXCEPT ![x].pc = "next", ![x].id = None]
    /\ UNCHANGED <<kind, throttle, routing, recv, maps, owners, raced>>

\* UdpThrottle::apply, on a config reload.
ApplyThrottle(t) ==
    /\ throttle' = t
    /\ UNCHANGED <<kind, routing, recv, maps, sess, job, owners, raced>>

Next ==
    \/ \E from \in Sources, c \in Clients : Receive(from, c)
    \/ Find \/ Repoint \/ Resolve \/ CheckCap
    \/ \E s \in Ids : AcquireSlot(s)
    \/ OpenFails \/ Insert \/ Link \/ Spawn
    \/ \E s \in Ids : ReaderEnds(s)
    \/ \E p \in Players : Unregister(p) \/ DisconnectClient(p)
    \/ \E p \in Players, ip \in IPs : Register(p, ip)
    \/ \E ip \in IPs : EvictIdle(ip)
    \/ \E stale \in SUBSET Clients : EvictStale(stale)
    \/ \E x \in Closers : Done(x) \/ Unlink(x) \/ Release(x) \/ Abort(x)
    \/ \E x \in Closers, c \in Clients : RemoveNext(x, c)
    \/ \E t \in Throttles : ApplyThrottle(t)

Spec == Init /\ [][Next]_vars

-----------------------------------------------------------------------------
\* Types, and what the maps mean: a listed session is not dead and is its client's.
TypeOK ==
    /\ throttle \in Throttles
    /\ refs \in [IPs -> 0 .. Cardinality(Players)]
    /\ player \in [Players -> IPs \cup {None}]
    /\ table \in [Clients -> Ids \cup {None}]
    /\ byVia \in [Vias -> Ids \cup {None}]
    /\ perIp \in [IPs -> 0 .. Cardinality(Ids)]
    /\ owners \subseteq Ids
    /\ \A c \in Open : ~sess[table[c]].dead /\ sess[table[c]].client = c

Holders(ip) == {s \in owners : IpOf[sess[s].client] = ip}

\* sessions_per_ip counts exactly the sessions that took a slot and have not given
\* it back, through failed sockets, evictions and logouts that overlap; every slot
\* has an owner that will give it back.  (Holds while maxSessionsPerIp stays
\* positive: an uncounted session gives back a slot it never took.)
SlotsCounted ==
    /\ \A ip \in IPs : perIp[ip] = Cardinality(Holders(ip))
    /\ \A s \in owners :
          \/ recv.id = s
          \/ \E c \in Clients : table[c] = s
          \/ \E x \in Closers : job[x].id = s

\* An entry outlives all but the last login of its address ("it must outlive all but
\* the last of them"), unless the idle sweep dropped it.
RefsCounted ==
    \A ip \in IPs \ evicted : refs[ip] = Cardinality(At(ip))

\* The counts kept beside the sessions are those of what they count: slots by address,
\* and logins by routing entry.
CountsExact == SlotsCounted /\ RefsCounted

\* A session that is listed leaves the relay within the maxSessions and its address
\* within the maxSessionsPerIp it was admitted under: the checks are steps before the
\* insertion, and reloads, evictions and logouts come in between.  maxSessions
\* bounds one relay: proxy.rs:121 and voice_relay.rs:233 compare it with the relay's own
\* table, where resources/default-config.yml:172 has it "across all UDP paths combined".
\* So n relays together may hold n times as many.
SessionsCapped ==
    [][\A c \in Clients : table[c] = None /\ table'[c] # None
         => LET caps == recv.caps
            IN  /\ caps.max > 0 => Cardinality(Open') <= caps.max
                /\ caps.perIp > 0 => Cardinality(OpenAt(IpOf[c])') <= caps.perIp]_vars

\* A flow's headerless datagrams and its replies take the same way: a live session
\* found by a proxy's source address sends its replies there.
ViaMatches ==
    \A v \in Vias : byVia[v] # None /\ ~sess[byVia[v]].dead => sess[byVia[v]].via = v

\* Voice chat logs out together with the game connection: once the last login of an
\* address is gone and its hook has run, no session of the address is listed, except
\* for one that was being set up during a logout.
LoggedOutTogether ==
    \A ip \in IPs :
        /\ kind # "forward" /\ ~raced
        /\ At(ip) = {}
        /\ \A p \in Players : job[p].ip # ip
        => OpenAt(ip) = {}

\* A closed session leaves no reader behind, blocked in recv for ever, except for one
\* that was closed while it was being set up.
ReadersEnd ==
    ~raced => \A s \in Ids :
        sess[s].dead /\ sess[s].reading => \E x \in Closers : job[x].id = s

\* Nothing of a session outlives what it depends on: not the session its player's login,
\* not its reader the session.
NothingOutlives == LoggedOutTogether /\ ReadersEnd
=============================================================================
