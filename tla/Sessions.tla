------------------------------ MODULE Sessions ------------------------------
(***************************************************************************)
(* A login from its Login Start to the end of its relay: handle_login,     *)
(* sniff_backend_login, relay and handle_pending_action of server.rs, the  *)
(* player registry and the active-connection counts of state.rs, and those *)
(* who interrupt a relay: the console's kick and transfer, the shutdown,   *)
(* and the ticker that enforces traffic limits.                            *)
(*                                                                         *)
(* Notify::notify_waiters stores no permit: it wakes a relay only if its   *)
(* task is parked in select!, and select! drops the wake-up when another   *)
(* branch is taken.  `woken` is that wake-up.                              *)
(***************************************************************************)
EXTENDS Integers, FiniteSets

CONSTANTS Conns,     \* connection tasks
          Backends,  \* resolved backend addresses of the route
          Uuids,     \* player identities
          NoUuid,    \* a Login Start that carries no identity
          Logins,    \* which task may log in as whom, and whether its protocol
                     \* version has known packet ids: a set of <<login, id, known>>
          Nobody,    \* no session
          Commands,  \* what the operator may ask of a session
          Frames     \* what the backend of each task may send during a login

Actions == {"disconnect", "kick", "transfer"}
LoginFrames == {"encryption", "compression", "success", "disconnect", "plugin", "garbled"}

ASSUME SessionsAssumption ==
    /\ IsFiniteSet(Conns)
    /\ NoUuid \notin Uuids
    /\ Nobody \notin Conns
    /\ Logins \subseteq Conns \X (Uuids \cup {NoUuid}) \X BOOLEAN
    /\ Commands \subseteq Actions
    /\ Frames \in [Conns -> SUBSET LoginFrames]

VARIABLES
    pc,        \* where each task is
    uuid,      \* the identity it logged in as
    known,     \* reconnect_supported(protocol_version)
    untried,   \* backends handle_login has still to dial
    backend,   \* the backend it relays to
    wire,      \* what the client's decoder expects of that backend's stream
    session,   \* the PlayerSession's learned framing and pending_action
    woken,     \* tasks whose disconnect future has fired
    active,    \* RouteRuntime.active_connections, zero for an absent key
    players,   \* PlayerSessions: identity to the task of the session listed
    exceeded,  \* the route's traffic limit is reached
    console,   \* the session the console has found and not notified yet
    misframed  \* history: tasks whose client was sent a kick or transfer packet
               \* in a framing its decoder does not expect
vars == <<pc, uuid, known, untried, backend, wire, session, woken, active, players,
          exceeded, console, misframed>>
login == <<uuid, known, untried, backend>>
operator == <<exceeded, console>>

Wires == [phase : {"login", "play"}, encrypted : BOOLEAN, compressed : BOOLEAN]
FreshWire == [phase |-> "login", encrypted |-> FALSE, compressed |-> FALSE]

SessionRecords == [encrypted : BOOLEAN, compressed : BOOLEAN, sniffed : BOOLEAN,
                   pending : Actions]
FreshSession == [encrypted |-> FALSE, compressed |-> FALSE, sniffed |-> FALSE,
                 pending |-> "disconnect"]

Init ==
    /\ pc = [c \in Conns |-> "idle"]
    /\ uuid = [c \in Conns |-> NoUuid]
    /\ known = [c \in Conns |-> FALSE]
    /\ untried = [c \in Conns |-> {}]
    /\ backend = [c \in Conns |-> Nobody]
    /\ wire = [c \in Conns |-> FreshWire]
    /\ session = [c \in Conns |-> FreshSession]
    /\ woken = {}
    /\ active = [b \in Backends |-> 0]
    /\ players = [u \in Uuids |-> Nobody]
    /\ exceeded = FALSE
    /\ console = Nobody
    /\ misframed = {}

Relaying == {"start", "relay", "write"}

Goto(c, label) == pc' = [pc EXCEPT ![c] = label]

\* handle_login returns: the task and its session are gone.
Return(c) ==
    /\ Goto(c, "idle")
    /\ uuid' = [uuid EXCEPT ![c] = NoUuid]
    /\ known' = [known EXCEPT ![c] = FALSE]
    /\ untried' = [untried EXCEPT ![c] = {}]
    /\ backend' = [backend EXCEPT ![c] = Nobody]
    /\ wire' = [wire EXCEPT ![c] = FreshWire]
    /\ session' = [session EXCEPT ![c] = FreshSession]
    /\ misframed' = misframed \ {c}
    /\ UNCHANGED <<woken, exceeded, console>>

-----------------------------------------------------------------------------
(* From Login Start to the backend.                                          *)

\* A login enters handle_login while the route is within its traffic limit.  (A
\* task is not reused while the console holds on to a session it had.)
Enter(c) ==
    /\ pc[c] = "idle"
    /\ c # console
    /\ ~exceeded
    /\ Goto(c, "login")
    /\ UNCHANGED <<login, wire, session, woken, active, players, operator, misframed>>

\* Its Login Start is read and its backends are resolved, to be tried in the order
\* of the route's strategy (any order here).
LoginStart(c, u, k) ==
    /\ pc[c] = "login"
    /\ <<c, u, k>> \in Logins
    /\ Goto(c, "dial")
    /\ uuid' = [uuid EXCEPT ![c] = u]
    /\ known' = [known EXCEPT ![c] = k]
    /\ untried' = [untried EXCEPT ![c] = Backends]
    /\ UNCHANGED <<backend, wire, session, woken, active, players, operator, misframed>>

\* No Login Start, or backends that do not resolve.
LoginFails(c) ==
    /\ pc[c] = "login"
    /\ Return(c)
    /\ UNCHANGED <<active, players>>

\* The next backend takes the handshake and the Login Start.
DialOpens(c, b) ==
    /\ pc[c] = "dial"
    /\ b \in untried[c]
    /\ active' = [active EXCEPT ![b] = @ + 1]
    /\ backend' = [backend EXCEPT ![c] = b]
    /\ untried' = [untried EXCEPT ![c] = {}]
    /\ Goto(c, "sniff")
    /\ UNCHANGED <<uuid, known, wire, session, woken, players, operator, misframed>>

\* M: a failed dial is counted as a connection that closes.
M_DialFails(c, b) ==
    /\ pc[c] = "dial"
    /\ b \in untried[c]
    /\ untried' = [untried EXCEPT ![c] = @ \ {b}]
    /\ active' = [active EXCEPT ![b] = @ - 1]
    /\ UNCHANGED <<pc, uuid, known, backend, wire, session, woken, players, operator, misframed>>

\* The dial, or forwarding the Login Start, fails: on to the next backend.
DialFails(c, b) ==
    /\ pc[c] = "dial"
    /\ b \in untried[c]
    /\ untried' = [untried EXCEPT ![c] = @ \ {b}]
    /\ UNCHANGED <<pc, uuid, known, backend, wire, session, woken, active, players,
                   operator, misframed>>

\* No backend is left: the client gets the route's kick message.
NoBackend(c) ==
    /\ pc[c] = "dial"
    /\ untried[c] = {}
    /\ Return(c)
    /\ UNCHANGED <<active, players>>

-----------------------------------------------------------------------------
(* Learning the framing.                                                     *)

\* What a frame of the backend's login answer does to the stream.
AfterFrame(w, frame) ==
    CASE frame = "encryption"  -> [w EXCEPT !.encrypted = TRUE]
      [] frame = "compression" -> [w EXCEPT !.compressed = TRUE]
      [] frame = "success"     -> [w EXCEPT !.phase = "play"]
      [] OTHER                 -> w

\* The session is made and, if the player is identified, listed.  The relay's
\* first select! is still to come.
BeginRelay(c, s) ==
    /\ session' = [session EXCEPT ![c] = s]
    /\ players' = IF uuid[c] \in Uuids THEN [players EXCEPT ![uuid[c]] = c] ELSE players
    /\ Goto(c, "start")

\* M: the threshold of Set Compression is dropped.
M_Sniffed(c, frame) ==
    [FreshSession EXCEPT !.encrypted = frame \in {"encryption", "garbled"},
                         !.sniffed = TRUE]

\* What sniff_backend_login reports when a frame ends it: an encrypted session
\* for an Encryption Request or a frame it cannot parse.
Sniffed(c, frame) ==
    [FreshSession EXCEPT !.encrypted = frame \in {"encryption", "garbled"},
                         !.compressed = wire[c].compressed,
                         !.sniffed = TRUE]

\* A frame of the login answer is forwarded and looked at.
SniffFrame(c, frame) ==
    /\ pc[c] = "sniff"
    /\ wire' = [wire EXCEPT ![c] = AfterFrame(@, frame)]
    /\ CASE frame \in {"encryption", "success", "garbled"} -> BeginRelay(c, Sniffed(c, frame))
         [] frame = "disconnect" -> BeginRelay(c, FreshSession)
         [] OTHER -> UNCHANGED <<pc, session, players>>
    /\ UNCHANGED <<login, woken, active, operator, misframed>>

\* The client leaves, the backend fails, or no frame comes for ten seconds:
\* the relay goes on with the default framing.
SniffFails(c) ==
    /\ pc[c] = "sniff"
    /\ BeginRelay(c, FreshSession)
    /\ UNCHANGED <<login, wire, woken, active, operator, misframed>>

-----------------------------------------------------------------------------
(* The relay.                                                                *)

\* The relay parks in its first select!.
Start(c) ==
    /\ pc[c] = "start"
    /\ Goto(c, "relay")
    /\ UNCHANGED <<login, wire, session, woken, active, players, operator, misframed>>

\* What bytes from the backend may do: a backend still in its login phase moves
\* on unseen.
AfterBytes(c, w) ==
    {w} \cup {AfterFrame(w, frame) : frame \in IF w.phase = "login" THEN Frames[c] ELSE {}}

\* Bytes arrive from one side, and are on their way to the other: select! takes
\* that branch and drops the disconnect future.
Read(c) ==
    /\ pc[c] = "relay"
    /\ Goto(c, "write")
    /\ woken' = woken \ {c}
    /\ \E w \in AfterBytes(c, wire[c]) : wire' = [wire EXCEPT ![c] = w]
    /\ UNCHANGED <<login, session, active, players, operator, misframed>>

\* The write_all to the other side completes, or fails.
Written(c) ==
    /\ pc[c] = "write"
    /\ \E next \in {"relay", "close"} : Goto(c, next)
    /\ UNCHANGED <<login, wire, session, woken, active, players, operator, misframed>>

\* One side closes.
PeerCloses(c) ==
    /\ pc[c] = "relay"
    /\ Goto(c, "close")
    /\ woken' = woken \ {c}
    /\ UNCHANGED <<login, wire, session, active, players, operator, misframed>>

CanInject(c) == ~session[c].encrypted /\ known[c]

FramingFits(c) ==
    ~wire[c].encrypted /\ session[c].compressed = wire[c].compressed

\* M: a plain disconnect goes back to the splice.
M_RunAction(c) ==
    /\ pc[c] = "relay"
    /\ c \in woken
    /\ woken' = woken \ {c}
    /\ UNCHANGED <<pc, login, wire, session, active, players, operator, misframed>>

Injects(c) == session[c].pending # "disconnect" /\ CanInject(c)

\* The disconnect branch of select!: handle_pending_action takes the action, and has a
\* packet to write or is on its way out.
RunAction(c) ==
    /\ pc[c] = "relay"
    /\ c \in woken
    /\ woken' = woken \ {c}
    /\ session' = [session EXCEPT ![c].pending = "disconnect"]
    /\ misframed' = IF Injects(c) /\ ~FramingFits(c) THEN misframed \cup {c} ELSE misframed
    /\ Goto(c, IF Injects(c) THEN "inject" ELSE "close")
    /\ UNCHANGED <<login, wire, active, players, operator>>

\* The write_all of that packet completes, or fails.
Injected(c) ==
    /\ pc[c] = "inject"
    /\ Goto(c, "close")
    /\ UNCHANGED <<login, wire, session, woken, active, players, operator, misframed>>

\* record_connect_closed
Close(c) ==
    /\ pc[c] = "close"
    /\ active' = [active EXCEPT ![backend[c]] = IF @ > 0 THEN @ - 1 ELSE 0]
    /\ Goto(c, "unlist")
    /\ UNCHANGED <<login, wire, session, woken, players, operator, misframed>>

\* M: the session is left in the registry.
M_Unlist(c) ==
    /\ pc[c] = "unlist"
    /\ Return(c)
    /\ UNCHANGED <<active, players>>

\* PlayerSessions::remove, by identity.
Unlist(c) ==
    /\ pc[c] = "unlist"
    /\ players' = IF uuid[c] \in Uuids THEN [players EXCEPT ![uuid[c]] = Nobody]
                  ELSE players
    /\ Return(c)
    /\ UNCHANGED active

-----------------------------------------------------------------------------
(* Interruptions.                                                            *)

Listed == {players[u] : u \in Uuids} \ {Nobody}

\* notify_waiters: only a task parked in select! is woken.
Notify(c) == woken' = IF pc[c] = "relay" THEN woken \cup {c} ELSE woken

\* The console's kick (with or without a message) and transfer: the session is
\* found and, but for a plain kick, its pending action is set ...
Command(c, action) ==
    /\ console = Nobody
    /\ c \in Listed
    /\ session' = IF action = "disconnect" THEN session
                  ELSE [session EXCEPT ![c].pending = action]
    /\ console' = c
    /\ UNCHANGED <<pc, login, wire, woken, active, players, exceeded, misframed>>

\* ... and then it is notified.
ConsoleNotifies ==
    /\ console \in Conns
    /\ Notify(console)
    /\ console' = Nobody
    /\ UNCHANGED <<pc, login, wire, session, active, players, exceeded, misframed>>

\* The route reaches its traffic limit, or has its counter reset.
LimitChanges ==
    /\ exceeded' = ~exceeded
    /\ UNCHANGED <<pc, login, wire, session, woken, active, players, console, misframed>>

\* The ticker finds a listed session of a route over its limit.
EnforceLimit(c) ==
    /\ exceeded
    /\ c \in Listed
    /\ Notify(c)
    /\ UNCHANGED <<pc, login, wire, session, active, players, operator, misframed>>

Step(c) ==
    \/ Enter(c) \/ LoginFails(c) \/ NoBackend(c) \/ SniffFails(c)
    \/ \E u \in Uuids \cup {NoUuid}, k \in BOOLEAN : LoginStart(c, u, k)
    \/ \E b \in Backends : DialOpens(c, b) \/ DialFails(c, b)
    \/ \E frame \in Frames[c] : SniffFrame(c, frame)
    \/ Start(c) \/ Read(c) \/ Written(c) \/ PeerCloses(c) \/ RunAction(c)
    \/ Injected(c) \/ Close(c) \/ Unlist(c)

Next ==
    \/ \E c \in Conns : Step(c) \/ EnforceLimit(c)
    \/ \E c \in Conns, action \in Commands : Command(c, action)
    \/ ConsoleNotifies
    \/ LimitChanges

Spec == Init /\ [][Next]_vars

\* What the code brings about by itself: a task runs when nothing keeps it waiting; the
\* ticker comes back for ever, and a relay that is parked in select! again and again is
\* sometimes found there, and its random choice of a ready branch sometimes falls on the
\* disconnect.  No write has a timeout, and the sniff's timer starts again with every
\* byte of the client: neither is said to end.
FairSpec ==
    /\ Spec
    /\ \A c \in Conns :
         /\ WF_vars(Start(c) \/ Close(c) \/ Unlist(c))
         /\ SF_vars(EnforceLimit(c) /\ pc[c] = "relay")
         /\ SF_vars(RunAction(c))
    /\ WF_vars(ConsoleNotifies)

\* Both peers of a relay read what they are sent, or leave.
PeersReadSpec ==
    FairSpec /\ \A c \in Conns : WF_vars(Written(c)) /\ WF_vars(Injected(c))

-----------------------------------------------------------------------------
(* Properties.                                                               *)

TypeOK ==
    /\ pc \in [Conns -> {"idle", "login", "dial", "sniff", "start", "relay", "write",
                         "inject", "close", "unlist"}]
    /\ uuid \in [Conns -> Uuids \cup {NoUuid}]
    /\ known \in [Conns -> BOOLEAN]
    /\ untried \in [Conns -> SUBSET Backends]
    /\ backend \in [Conns -> Backends \cup {Nobody}]
    /\ wire \in [Conns -> Wires]
    /\ session \in [Conns -> SessionRecords]
    /\ woken \subseteq Conns
    /\ active \in [Backends -> Nat]
    /\ players \in [Uuids -> Conns \cup {Nobody}]
    /\ exceeded \in BOOLEAN
    /\ console \in Conns \cup {Nobody}
    /\ misframed \subseteq Conns

Connected == Relaying \cup {"sniff", "inject", "close"}

\* The active-connection count of a backend, which the leastconn strategy and the
\* metrics read, is the number of logins connected to it: opened and closed
\* counts balance over failed dials, failed sniffs and every way out of a relay.
ActiveIsLive ==
    \A b \in Backends :
      active[b] = Cardinality({c \in Conns : pc[c] \in Connected /\ backend[c] = b})

\* Registry and relays agree.  An entry is the session of a login that has not ended
\* and was made by that very login, so that a kick is never addressed to a dead
\* session; and while no two logins share an identity, an identified player whose
\* bytes are being relayed is listed with that very session, so that a kick finds it.
RegistryIsExact ==
    /\ \A u \in Uuids : players[u] # Nobody =>
         /\ pc[players[u]] \in Relaying \cup {"inject", "close", "unlist"}
         /\ uuid[players[u]] = u
    /\ \A c \in Conns : pc[c] \in Relaying /\ uuid[c] \in Uuids => players[uuid[c]] = c

\* The books of the live relays: backend counts and registry, of which several steps of
\* two tasks may each disturb either.
BooksBalance == ActiveIsLive /\ RegistryIsExact

\* "Process-wide registry of currently connected players, keyed by UUID" (state.rs):
\* an identity whose bytes are being relayed has an entry.
ConnectedAreListed ==
    \A c \in Conns :
      pc[c] \in Relaying /\ uuid[c] \in Uuids => players[uuid[c]] # Nobody

\* Once the sniff has learned the framing of a login, a kick or transfer packet is
\* written into that client's stream only in the framing its decoder expects, and
\* never into an encrypted stream, though nothing looks at the stream again.
InjectedFramingMatches ==
    \A c \in misframed : ~session[c].sniffed

\* Where a login's peers decide how long it lasts: a dial or a sniff, whose writes have
\* no timeout and whose timer the client's bytes restart, and the writes of a relay.
HeldByPeer(c) == pc[c] \in {"dial", "sniff", "write", "inject"}

\* Under a traffic limit that stays exceeded every login of an identified player ends and
\* none begins, even one that passed the limit check before it was reached and one whose
\* first notifications were lost, unless a peer holds it in one place: it never
\* stays in the splice, nor comes back to it for ever.  (A login without an identity is
\* in no registry, and the ticker never finds it.)
OverLimitEnds ==
    \A c \in Conns :
      <>[]exceeded => <>[](pc[c] = "idle" \/ uuid[c] = NoUuid \/ HeldByPeer(c))

\* "Kicking every session first makes each `relay` task end (almost) immediately"
\* (main.rs), "so the console `kick` ... can end a live connection" (state.rs): a
\* relay whose session the console has found and goes on to notify ends, if its peers read.
KickEnds ==
    \A c \in Conns : console = c /\ pc[c] \in Relaying ~> pc[c] \notin Relaying
=============================================================================
