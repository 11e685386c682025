--------------------------- MODULE SessionsProofs ---------------------------
(***************************************************************************)
(* Proofs about Sessions, for any finite set of tasks and any backends,    *)
(* identities, logins and login answers.                                   *)
(***************************************************************************)
EXTENDS Sessions, FiniteSetTheorems, TLAPS

Live(b) == {c \in Conns : pc[c] \in Connected /\ backend[c] = b}

\* A connected task has a backend, whose count Close lowers.
BackendKnown == \A c \in Conns : pc[c] \in Connected => backend[c] \in Backends

\* An entry of the registry is the session of a login that has not ended.
EntriesAlive ==
    \A u \in Uuids : players[u] # Nobody =>
      /\ pc[players[u]] \in Relaying \cup {"inject", "close", "unlist"}
      /\ uuid[players[u]] = u

\* A task is identified as one it may log in as.
LoggedIn ==
    \A c \in Conns : uuid[c] \in Uuids => \E k \in BOOLEAN : <<c, uuid[c], k>> \in Logins

RelayedAreListed ==
    \A c \in Conns : pc[c] \in Relaying /\ uuid[c] \in Uuids => players[uuid[c]] = c

\* No two tasks may log in as the same player.
DistinctIdentities ==
    \A c, d \in Conns, u \in Uuids, k, l \in BOOLEAN :
      <<c, u, k>> \in Logins /\ <<d, u, l>> \in Logins => c = d

\* What the session has learned is what the client expects, for as long as it is used:
\* a stream whose login the sniff has seen to its end changes no more.
Learned(c) ==
    /\ pc[c] \in {"idle", "login", "dial"} => wire[c] = FreshWire
    /\ pc[c] = "sniff" => ~wire[c].encrypted
    /\ pc[c] \in {"idle", "login", "dial", "sniff"} => ~session[c].sniffed
    /\ session[c].sniffed /\ ~session[c].encrypted =>
         /\ wire[c].phase = "play"
         /\ ~wire[c].encrypted
         /\ session[c].compressed = wire[c].compressed
    /\ c \in misframed => pc[c] \in {"inject", "close", "unlist"} /\ ~session[c].sniffed

FramingLearned == \A c \in Conns : Learned(c)

-----------------------------------------------------------------------------
(* Types.                                                                    *)

\* What a task starts with has its type, also after any frames.
LEMMA FreshTyped ==
    /\ FreshWire \in Wires /\ FreshSession \in SessionRecords
    /\ \A w \in Wires, frame \in LoginFrames : AfterFrame(w, frame) \in Wires
  BY Zenon DEF FreshWire, Wires, FreshSession, SessionRecords, Actions, AfterFrame, LoginFrames

\* A step keeps the types.
LEMMA TypeStep ==
    ASSUME TypeOK, [Next]_vars
    PROVE  TypeOK'
PROOF
  <1>1. CASE UNCHANGED vars
    BY <1>1 DEF vars, login, operator, TypeOK
  <1>2. ASSUME NEW c \in Conns, Enter(c)
        PROVE  TypeOK'
    BY <1>2 DEF Enter, Goto, login, operator, TypeOK
  <1>3. ASSUME NEW c \in Conns, LoginFails(c)
        PROVE  TypeOK'
    BY <1>3, FreshTyped DEF LoginFails, Return, Goto, TypeOK
  <1>4. ASSUME NEW c \in Conns, NoBackend(c)
        PROVE  TypeOK'
    BY <1>4, FreshTyped DEF NoBackend, Return, Goto, TypeOK
  <1>5. ASSUME NEW c \in Conns, SniffFails(c)
        PROVE  TypeOK'
    BY <1>5, FreshTyped DEF SniffFails, BeginRelay, Goto, login, operator, TypeOK
  <1>6. ASSUME NEW c \in Conns, NEW u \in Uuids \cup {NoUuid}, NEW k \in BOOLEAN,
               LoginStart(c, u, k)
        PROVE  TypeOK'
    BY <1>6 DEF LoginStart, Goto, login, operator, TypeOK
  <1>7. ASSUME NEW c \in Conns, NEW b \in Backends, DialOpens(c, b)
        PROVE  TypeOK'
    BY <1>7 DEF DialOpens, Goto, login, operator, TypeOK
  <1>8. ASSUME NEW c \in Conns, NEW b \in Backends, DialFails(c, b)
        PROVE  TypeOK'
    BY <1>8 DEF DialFails, Goto, login, operator, TypeOK
  <1>9. ASSUME NEW c \in Conns, NEW frame \in Frames[c], SniffFrame(c, frame)
        PROVE  TypeOK'
    <2>1. wire' \in [Conns -> Wires]
      BY <1>9, FreshTyped, SessionsAssumption, Zenon DEF SniffFrame, TypeOK
    <2>2. Sniffed(c, frame) \in SessionRecords
      <3>1. wire[c].compressed \in BOOLEAN
        BY DEF Wires, TypeOK
      <3>2. (frame \in {"encryption", "garbled"}) \in BOOLEAN
        OBVIOUS
      <3>. QED  BY <3>1, <3>2, Zenon DEF Sniffed, FreshSession, SessionRecords, Actions
    <2>3. CASE BeginRelay(c, Sniffed(c, frame)) \/ BeginRelay(c, FreshSession)
      BY <1>9, <2>1, <2>2, <2>3, FreshTyped, SMTT(30) DEF SniffFrame, BeginRelay, Goto, login,
         operator, TypeOK
    <2>4. CASE UNCHANGED <<pc, session, players>>
      BY <1>9, <2>1, <2>4 DEF SniffFrame, login, operator, TypeOK
    <2>. QED  BY <1>9, <2>3, <2>4 DEF SniffFrame
  <1>10. ASSUME NEW c \in Conns, Start(c)
        PROVE  TypeOK'
    BY <1>10 DEF Start, Goto, login, operator, TypeOK
  <1>11. ASSUME NEW c \in Conns, Read(c)
        PROVE  TypeOK'
    <2>1. AfterBytes(c, wire[c]) \subseteq Wires
      BY FreshTyped, SessionsAssumption DEF AfterBytes, TypeOK
    <2>. QED  BY <1>11, <2>1 DEF Read, Goto, login, operator, TypeOK
  <1>12. ASSUME NEW c \in Conns, Written(c)
        PROVE  TypeOK'
    BY <1>12 DEF Written, Goto, login, operator, TypeOK
  <1>13. ASSUME NEW c \in Conns, PeerCloses(c)
        PROVE  TypeOK'
    BY <1>13 DEF PeerCloses, Goto, login, operator, TypeOK
  <1>14. ASSUME NEW c \in Conns, RunAction(c)
        PROVE  TypeOK'
    <2>1. session' \in [Conns -> SessionRecords]
      BY <1>14, SMTT(30) DEF RunAction, SessionRecords, Actions, TypeOK
    <2>. QED  BY <1>14, <2>1 DEF RunAction, Goto, login, operator, TypeOK
  <1>15. ASSUME NEW c \in Conns, Close(c)
        PROVE  TypeOK'
    <2>1. active' \in [Backends -> Nat]
      <3>1. active \in [Backends -> Nat]
        BY DEF TypeOK
      <3>2. active' = [active EXCEPT ![backend[c]] =
                              IF active[backend[c]] > 0 THEN active[backend[c]] - 1 ELSE 0]
        BY <1>15 DEF Close
      <3>3. \A n \in Nat : (IF n > 0 THEN n - 1 ELSE 0) \in Nat
        OBVIOUS
      <3>. QED  BY <3>1, <3>2, <3>3, Zenon
    <2>. QED  BY <1>15, <2>1 DEF Close, Goto, login, operator, TypeOK
  <1>16. ASSUME NEW c \in Conns, Unlist(c)
        PROVE  TypeOK'
    BY <1>16, FreshTyped DEF Unlist, Return, Goto, TypeOK
  <1>17. ASSUME NEW c \in Conns, EnforceLimit(c)
        PROVE  TypeOK'
    BY <1>17 DEF EnforceLimit, Notify, Goto, login, operator, TypeOK
  <1>18. ASSUME NEW c \in Conns, NEW action \in Commands, Command(c, action)
        PROVE  TypeOK'
    <2>1. session' \in [Conns -> SessionRecords]
      BY <1>18, SessionsAssumption, SMTT(30) DEF Command, SessionRecords, TypeOK
    <2>. QED  BY <1>18, <2>1 DEF Command, login, TypeOK
  <1>19. ASSUME ConsoleNotifies
        PROVE  TypeOK'
    BY <1>19 DEF ConsoleNotifies, Notify, Goto, login, operator, TypeOK
  <1>20. ASSUME LimitChanges
        PROVE  TypeOK'
    BY <1>20 DEF LimitChanges, Goto, login, operator, TypeOK
  <1>21. ASSUME NEW c \in Conns, Injected(c)
        PROVE  TypeOK'
    BY <1>21 DEF Injected, Goto, login, operator, TypeOK
  <1>. QED
    BY <1>1, <1>2, <1>3, <1>4, <1>5, <1>6, <1>7, <1>8, <1>9, <1>10, <1>11, <1>12, <1>13,
       <1>14, <1>15, <1>16, <1>17, <1>18, <1>19, <1>20, <1>21 DEF Next, Step

-----------------------------------------------------------------------------
(* Backend counts.                                                           *)

\* A step leaves every connected task with a backend.
LEMMA BackendStep ==
    ASSUME TypeOK, BackendKnown, [Next]_vars
    PROVE  BackendKnown'
PROOF
  <1>1. CASE UNCHANGED vars
    BY <1>1 DEF vars, login, operator, BackendKnown, Connected, Relaying, TypeOK
  <1>2. ASSUME NEW c \in Conns, Enter(c)
        PROVE  BackendKnown'
    BY <1>2 DEF Enter, Goto, login, operator, BackendKnown, Connected, Relaying, TypeOK
  <1>3. ASSUME NEW c \in Conns, LoginFails(c)
        PROVE  BackendKnown'
    BY <1>3 DEF LoginFails, Return, Goto, login, operator, BackendKnown, Connected,
       Relaying, TypeOK
  <1>4. ASSUME NEW c \in Conns, NoBackend(c)
        PROVE  BackendKnown'
    BY <1>4 DEF NoBackend, Return, Goto, login, operator, BackendKnown, Connected,
       Relaying, TypeOK
  <1>5. ASSUME NEW c \in Conns, SniffFails(c)
        PROVE  BackendKnown'
    BY <1>5 DEF SniffFails, BeginRelay, Goto, login, operator, BackendKnown, Connected,
       Relaying, TypeOK
  <1>6. ASSUME NEW c \in Conns, NEW u \in Uuids \cup {NoUuid}, NEW k \in BOOLEAN,
               LoginStart(c, u, k)
        PROVE  BackendKnown'
    BY <1>6 DEF LoginStart, Goto, login, operator, BackendKnown, Connected, Relaying,
       TypeOK
  <1>7. ASSUME NEW c \in Conns, NEW b \in Backends, DialOpens(c, b)
        PROVE  BackendKnown'
    BY <1>7 DEF DialOpens, Goto, login, operator, BackendKnown, Connected, Relaying,
       TypeOK
  <1>8. ASSUME NEW c \in Conns, NEW b \in Backends, DialFails(c, b)
        PROVE  BackendKnown'
    BY <1>8 DEF DialFails, Goto, login, operator, BackendKnown, Connected, Relaying,
       TypeOK
  <1>9. ASSUME NEW c \in Conns, NEW frame \in Frames[c], SniffFrame(c, frame)
        PROVE  BackendKnown'
    BY <1>9 DEF SniffFrame, BeginRelay, Goto, login, operator, BackendKnown, Connected,
       Relaying, TypeOK
  <1>10. ASSUME NEW c \in Conns, Start(c)
        PROVE  BackendKnown'
    BY <1>10 DEF Start, Goto, login, operator, BackendKnown, Connected, Relaying, TypeOK
  <1>11. ASSUME NEW c \in Conns, Read(c)
        PROVE  BackendKnown'
    BY <1>11 DEF Read, Goto, login, operator, BackendKnown, Connected, Relaying, TypeOK
  <1>12. ASSUME NEW c \in Conns, Written(c)
        PROVE  BackendKnown'
    BY <1>12 DEF Written, Goto, login, operator, BackendKnown, Connected, Relaying, TypeOK
  <1>13. ASSUME NEW c \in Conns, PeerCloses(c)
        PROVE  BackendKnown'
    BY <1>13 DEF PeerCloses, Goto, login, operator, BackendKnown, Connected, Relaying,
       TypeOK
  <1>14. ASSUME NEW c \in Conns, RunAction(c)
        PROVE  BackendKnown'
    BY <1>14 DEF RunAction, Goto, login, operator, BackendKnown, Connected, Relaying,
       TypeOK
  <1>15. ASSUME NEW c \in Conns, Close(c)
        PROVE  BackendKnown'
    BY <1>15 DEF Close, Goto, login, operator, BackendKnown, Connected, Relaying, TypeOK
  <1>16. ASSUME NEW c \in Conns, Unlist(c)
        PROVE  BackendKnown'
    BY <1>16 DEF Unlist, Return, Goto, login, operator, BackendKnown, Connected,
       Relaying, TypeOK
  <1>17. ASSUME NEW c \in Conns, EnforceLimit(c)
        PROVE  BackendKnown'
    BY <1>17 DEF EnforceLimit, Notify, Goto, login, operator, BackendKnown, Connected,
       Relaying, TypeOK
  <1>18. ASSUME NEW c \in Conns, NEW action \in Commands, Command(c, action)
        PROVE  BackendKnown'
    BY <1>18 DEF Command, Goto, login, operator, BackendKnown, Connected, Relaying, TypeOK
  <1>19. ASSUME ConsoleNotifies
        PROVE  BackendKnown'
    BY <1>19 DEF ConsoleNotifies, Notify, Goto, login, operator, BackendKnown,
       Connected, Relaying, TypeOK
  <1>20. ASSUME LimitChanges
        PROVE  BackendKnown'
    BY <1>20 DEF LimitChanges, Goto, login, operator, BackendKnown, Connected, Relaying,
       TypeOK
  <1>21. ASSUME NEW c \in Conns, Injected(c)
        PROVE  BackendKnown'
    BY <1>21 DEF Injected, Goto, login, operator, BackendKnown, Connected, Relaying, TypeOK
  <1>. QED
    BY <1>1, <1>2, <1>3, <1>4, <1>5, <1>6, <1>7, <1>8, <1>9, <1>10, <1>11, <1>12, <1>13,
       <1>14, <1>15, <1>16, <1>17, <1>18, <1>19, <1>20, <1>21 DEF Next, Step

\* A dial that opens adds one live task to one backend, a close takes one away, and no
\* other step changes who is live.
LEMMA CountsStep ==
    ASSUME TypeOK, BackendKnown, ActiveIsLive, [Next]_vars
    PROVE  ActiveIsLive'
PROOF
  <1>. SUFFICES ASSUME NEW b0 \in Backends
                PROVE  (active[b0] = Cardinality(Live(b0)))'
    BY DEF ActiveIsLive, Live
  <1>. active[b0] = Cardinality(Live(b0))
    BY DEF ActiveIsLive, Live
  <1>. DEFINE Goal == (active[b0] = Cardinality(Live(b0)))'
  <1>0. ASSUME active' = active, Live(b0)' = Live(b0)
        PROVE  Goal
    BY <1>0
  <1>1. CASE UNCHANGED vars
    BY <1>0, <1>1 DEF vars, login, operator, Live, Connected, Relaying, TypeOK
  <1>2. ASSUME NEW c \in Conns, Enter(c)
        PROVE  Goal
    BY <1>0, <1>2 DEF Enter, Goto, login, operator, Live, Connected, Relaying, TypeOK
  <1>3. ASSUME NEW c \in Conns, LoginFails(c)
        PROVE  Goal
    BY <1>0, <1>3 DEF LoginFails, Return, Goto, login, operator, Live, Connected,
       Relaying, TypeOK
  <1>4. ASSUME NEW c \in Conns, NoBackend(c)
        PROVE  Goal
    BY <1>0, <1>4 DEF NoBackend, Return, Goto, login, operator, Live, Connected,
       Relaying, TypeOK
  <1>5. ASSUME NEW c \in Conns, SniffFails(c)
        PROVE  Goal
    BY <1>0, <1>5 DEF SniffFails, BeginRelay, Goto, login, operator, Live, Connected,
       Relaying, TypeOK
  <1>6. ASSUME NEW c \in Conns, NEW u \in Uuids \cup {NoUuid}, NEW k \in BOOLEAN,
               LoginStart(c, u, k)
        PROVE  Goal
    BY <1>0, <1>6 DEF LoginStart, Goto, login, operator, Live, Connected, Relaying, TypeOK
  <1>7. ASSUME NEW c \in Conns, NEW b \in Backends, DialOpens(c, b)
        PROVE  Goal
    <2>1. IsFiniteSet(Live(b0)) /\ Cardinality(Live(b0)) \in Nat
      BY SessionsAssumption, FS_Subset, FS_CardinalityType DEF Live
    <2>2. CASE b0 = b
      <3>1. c \notin Live(b0) /\ Live(b0)' = Live(b0) \cup {c}
        BY <1>7, <2>2 DEF DialOpens, Goto, Live, Connected, Relaying, TypeOK
      <3>2. active'[b0] = active[b0] + 1
        BY <1>7, <2>2 DEF DialOpens, TypeOK
      <3>. QED  BY <2>1, <3>1, <3>2, FS_AddElement, Zenon
    <2>3. CASE b0 # b
      <3>1. Live(b0)' = Live(b0) /\ active'[b0] = active[b0]
        BY <1>7, <2>3 DEF DialOpens, Goto, Live, Connected, Relaying, TypeOK
      <3>. QED  BY <3>1
    <2>. QED  BY <2>2, <2>3
  <1>8. ASSUME NEW c \in Conns, NEW b \in Backends, DialFails(c, b)
        PROVE  Goal
    BY <1>0, <1>8 DEF DialFails, Goto, login, operator, Live, Connected, Relaying, TypeOK
  <1>9. ASSUME NEW c \in Conns, NEW frame \in Frames[c], SniffFrame(c, frame)
        PROVE  Goal
    BY <1>0, <1>9 DEF SniffFrame, BeginRelay, Goto, login, operator, Live, Connected,
       Relaying, TypeOK
  <1>10. ASSUME NEW c \in Conns, Start(c)
        PROVE  Goal
    BY <1>0, <1>10 DEF Start, Goto, login, operator, Live, Connected, Relaying, TypeOK
  <1>11. ASSUME NEW c \in Conns, Read(c)
        PROVE  Goal
    BY <1>0, <1>11 DEF Read, Goto, login, operator, Live, Connected, Relaying, TypeOK
  <1>12. ASSUME NEW c \in Conns, Written(c)
        PROVE  Goal
    BY <1>0, <1>12 DEF Written, Goto, login, operator, Live, Connected, Relaying, TypeOK
  <1>13. ASSUME NEW c \in Conns, PeerCloses(c)
        PROVE  Goal
    BY <1>0, <1>13 DEF PeerCloses, Goto, login, operator, Live, Connected, Relaying,
       TypeOK
  <1>14. ASSUME NEW c \in Conns, RunAction(c)
        PROVE  Goal
    BY <1>0, <1>14 DEF RunAction, Goto, login, operator, Live, Connected, Relaying, TypeOK
  <1>15. ASSUME NEW c \in Conns, Close(c)
        PROVE  Goal
    <2>1. IsFiniteSet(Live(b0)) /\ Cardinality(Live(b0)) \in Nat
      BY SessionsAssumption, FS_Subset, FS_CardinalityType DEF Live
    <2>2. CASE b0 = backend[c]
      <3>1. c \in Live(b0) /\ Live(b0)' = Live(b0) \ {c}
        BY <1>15, <2>2 DEF Close, Goto, login, Live, Connected, Relaying, TypeOK
      <3>2. IsFiniteSet(Live(b0) \ {c}) /\ Cardinality(Live(b0) \ {c}) = Cardinality(Live(b0)) - 1
        BY <2>1, <3>1, FS_RemoveElement
      <3>3. Cardinality(Live(b0) \ {c}) \in Nat
        BY <3>2, FS_CardinalityType
      <3>4. active'[b0] = active[b0] - 1
        BY <1>15, <2>1, <2>2, <3>2, <3>3 DEF Close, TypeOK
      <3>. QED  BY <3>1, <3>2, <3>4
    <2>3. CASE b0 # backend[c]
      <3>1. Live(b0)' = Live(b0) /\ active'[b0] = active[b0]
        BY <1>15, <2>3 DEF Close, Goto, login, Live, Connected, Relaying, TypeOK
      <3>. QED  BY <3>1
    <2>. QED  BY <2>2, <2>3
  <1>16. ASSUME NEW c \in Conns, Unlist(c)
        PROVE  Goal
    BY <1>0, <1>16 DEF Unlist, Return, Goto, login, operator, Live, Connected, Relaying,
       TypeOK
  <1>17. ASSUME NEW c \in Conns, EnforceLimit(c)
        PROVE  Goal
    BY <1>0, <1>17 DEF EnforceLimit, Notify, Goto, login, operator, Live, Connected,
       Relaying, TypeOK
  <1>18. ASSUME NEW c \in Conns, NEW action \in Commands, Command(c, action)
        PROVE  Goal
    BY <1>0, <1>18 DEF Command, Goto, login, operator, Live, Connected, Relaying, TypeOK
  <1>19. ASSUME ConsoleNotifies
        PROVE  Goal
    BY <1>0, <1>19 DEF ConsoleNotifies, Notify, Goto, login, operator, Live, Connected,
       Relaying, TypeOK
  <1>20. ASSUME LimitChanges
        PROVE  Goal
    BY <1>0, <1>20 DEF LimitChanges, Goto, login, operator, Live, Connected, Relaying,
       TypeOK
  <1>21. ASSUME NEW c \in Conns, Injected(c)
        PROVE  Goal
    BY <1>0, <1>21 DEF Injected, Goto, login, operator, Live, Connected, Relaying, TypeOK
  <1>. QED
    BY <1>1, <1>2, <1>3, <1>4, <1>5, <1>6, <1>7, <1>8, <1>9, <1>10, <1>11, <1>12, <1>13,
       <1>14, <1>15, <1>16, <1>17, <1>18, <1>19, <1>20, <1>21 DEF Next, Step

-----------------------------------------------------------------------------
(* The registry.                                                             *)

\* Only a beginning relay enters a session, its own; whoever ends takes the entry of its
\* identity with it.
LEMMA EntriesStep ==
    ASSUME TypeOK, EntriesAlive, [Next]_vars
    PROVE  EntriesAlive'
PROOF
  <1>1. CASE UNCHANGED vars
    BY <1>1 DEF vars, login, operator, EntriesAlive, Relaying, TypeOK
  <1>2. ASSUME NEW c \in Conns, Enter(c)
        PROVE  EntriesAlive'
    BY <1>2 DEF Enter, Goto, login, operator, EntriesAlive, Relaying, TypeOK
  <1>3. ASSUME NEW c \in Conns, LoginFails(c)
        PROVE  EntriesAlive'
    BY <1>3 DEF LoginFails, Return, Goto, login, operator, EntriesAlive, Relaying, TypeOK
  <1>4. ASSUME NEW c \in Conns, NoBackend(c)
        PROVE  EntriesAlive'
    BY <1>4 DEF NoBackend, Return, Goto, login, operator, EntriesAlive, Relaying, TypeOK
  <1>5. ASSUME NEW c \in Conns, SniffFails(c)
        PROVE  EntriesAlive'
    BY <1>5, SessionsAssumption DEF SniffFails, BeginRelay, Goto, login, EntriesAlive,
       Relaying, TypeOK
  <1>6. ASSUME NEW c \in Conns, NEW u \in Uuids \cup {NoUuid}, NEW k \in BOOLEAN,
               LoginStart(c, u, k)
        PROVE  EntriesAlive'
    BY <1>6 DEF LoginStart, Goto, login, operator, EntriesAlive, Relaying, TypeOK
  <1>7. ASSUME NEW c \in Conns, NEW b \in Backends, DialOpens(c, b)
        PROVE  EntriesAlive'
    BY <1>7 DEF DialOpens, Goto, login, operator, EntriesAlive, Relaying, TypeOK
  <1>8. ASSUME NEW c \in Conns, NEW b \in Backends, DialFails(c, b)
        PROVE  EntriesAlive'
    BY <1>8 DEF DialFails, Goto, login, operator, EntriesAlive, Relaying, TypeOK
  <1>9. ASSUME NEW c \in Conns, NEW frame \in Frames[c], SniffFrame(c, frame)
        PROVE  EntriesAlive'
    <2>1. CASE BeginRelay(c, Sniffed(c, frame)) \/ BeginRelay(c, FreshSession)
      BY <1>9, <2>1, SessionsAssumption DEF SniffFrame, BeginRelay, Goto, login,
         EntriesAlive, Relaying, TypeOK
    <2>2. CASE UNCHANGED <<pc, session, players>>
      BY <1>9, <2>2 DEF SniffFrame, login, EntriesAlive, Relaying, TypeOK
    <2>. QED  BY <1>9, <2>1, <2>2 DEF SniffFrame
  <1>10. ASSUME NEW c \in Conns, Start(c)
        PROVE  EntriesAlive'
    BY <1>10 DEF Start, Goto, login, operator, EntriesAlive, Relaying, TypeOK
  <1>11. ASSUME NEW c \in Conns, Read(c)
        PROVE  EntriesAlive'
    BY <1>11 DEF Read, Goto, login, operator, EntriesAlive, Relaying, TypeOK
  <1>12. ASSUME NEW c \in Conns, Written(c)
        PROVE  EntriesAlive'
    BY <1>12 DEF Written, Goto, login, operator, EntriesAlive, Relaying, TypeOK
  <1>13. ASSUME NEW c \in Conns, PeerCloses(c)
        PROVE  EntriesAlive'
    BY <1>13 DEF PeerCloses, Goto, login, operator, EntriesAlive, Relaying, TypeOK
  <1>14. ASSUME NEW c \in Conns, RunAction(c)
        PROVE  EntriesAlive'
    BY <1>14 DEF RunAction, Goto, login, operator, EntriesAlive, Relaying, TypeOK
  <1>15. ASSUME NEW c \in Conns, Close(c)
        PROVE  EntriesAlive'
    BY <1>15 DEF Close, Goto, login, operator, EntriesAlive, Relaying, TypeOK
  <1>16. ASSUME NEW c \in Conns, Unlist(c)
        PROVE  EntriesAlive'
    BY <1>16, SessionsAssumption DEF Unlist, Return, Goto, EntriesAlive, Relaying, TypeOK
  <1>17. ASSUME NEW c \in Conns, EnforceLimit(c)
        PROVE  EntriesAlive'
    BY <1>17 DEF EnforceLimit, Notify, Goto, login, operator, EntriesAlive, Relaying,
       TypeOK
  <1>18. ASSUME NEW c \in Conns, NEW action \in Commands, Command(c, action)
        PROVE  EntriesAlive'
    BY <1>18 DEF Command, Goto, login, operator, EntriesAlive, Relaying, TypeOK
  <1>19. ASSUME ConsoleNotifies
        PROVE  EntriesAlive'
    BY <1>19 DEF ConsoleNotifies, Notify, Goto, login, operator, EntriesAlive, Relaying,
       TypeOK
  <1>20. ASSUME LimitChanges
        PROVE  EntriesAlive'
    BY <1>20 DEF LimitChanges, Goto, login, operator, EntriesAlive, Relaying, TypeOK
  <1>21. ASSUME NEW c \in Conns, Injected(c)
        PROVE  EntriesAlive'
    BY <1>21 DEF Injected, Goto, login, operator, EntriesAlive, Relaying, TypeOK
  <1>. QED
    BY <1>1, <1>2, <1>3, <1>4, <1>5, <1>6, <1>7, <1>8, <1>9, <1>10, <1>11, <1>12, <1>13,
       <1>14, <1>15, <1>16, <1>17, <1>18, <1>19, <1>20, <1>21 DEF Next, Step

\* An identity comes from a Login Start.
LEMMA IdentityStep ==
    ASSUME TypeOK, LoggedIn, [Next]_vars
    PROVE  LoggedIn'
PROOF
  <1>1. CASE UNCHANGED vars
    BY <1>1, Zenon DEF vars, login, operator, LoggedIn, TypeOK
  <1>2. ASSUME NEW c \in Conns, Enter(c)
        PROVE  LoggedIn'
    BY <1>2, Zenon DEF Enter, Goto, login, operator, LoggedIn, TypeOK
  <1>3. ASSUME NEW c \in Conns, LoginFails(c)
        PROVE  LoggedIn'
    BY <1>3, SessionsAssumption, Zenon DEF LoginFails, Return, Goto, LoggedIn, TypeOK
  <1>4. ASSUME NEW c \in Conns, NoBackend(c)
        PROVE  LoggedIn'
    BY <1>4, SessionsAssumption, Zenon DEF NoBackend, Return, Goto, LoggedIn, TypeOK
  <1>5. ASSUME NEW c \in Conns, SniffFails(c)
        PROVE  LoggedIn'
    BY <1>5, Zenon DEF SniffFails, BeginRelay, Goto, login, operator, LoggedIn, TypeOK
  <1>6. ASSUME NEW c \in Conns, NEW u \in Uuids \cup {NoUuid}, NEW k \in BOOLEAN,
               LoginStart(c, u, k)
        PROVE  LoggedIn'
    BY <1>6, Zenon DEF LoginStart, Goto, login, operator, LoggedIn, TypeOK
  <1>7. ASSUME NEW c \in Conns, NEW b \in Backends, DialOpens(c, b)
        PROVE  LoggedIn'
    BY <1>7, Zenon DEF DialOpens, Goto, login, operator, LoggedIn, TypeOK
  <1>8. ASSUME NEW c \in Conns, NEW b \in Backends, DialFails(c, b)
        PROVE  LoggedIn'
    BY <1>8, Zenon DEF DialFails, Goto, login, operator, LoggedIn, TypeOK
  <1>9. ASSUME NEW c \in Conns, NEW frame \in Frames[c], SniffFrame(c, frame)
        PROVE  LoggedIn'
    BY <1>9, Zenon DEF SniffFrame, BeginRelay, Goto, login, operator, LoggedIn, TypeOK
  <1>10. ASSUME NEW c \in Conns, Start(c)
        PROVE  LoggedIn'
    BY <1>10, Zenon DEF Start, Goto, login, operator, LoggedIn, TypeOK
  <1>11. ASSUME NEW c \in Conns, Read(c)
        PROVE  LoggedIn'
    BY <1>11, Zenon DEF Read, Goto, login, operator, LoggedIn, TypeOK
  <1>12. ASSUME NEW c \in Conns, Written(c)
        PROVE  LoggedIn'
    BY <1>12, Zenon DEF Written, Goto, login, operator, LoggedIn, TypeOK
  <1>13. ASSUME NEW c \in Conns, PeerCloses(c)
        PROVE  LoggedIn'
    BY <1>13, Zenon DEF PeerCloses, Goto, login, operator, LoggedIn, TypeOK
  <1>14. ASSUME NEW c \in Conns, RunAction(c)
        PROVE  LoggedIn'
    BY <1>14, Zenon DEF RunAction, Goto, login, operator, LoggedIn, TypeOK
  <1>15. ASSUME NEW c \in Conns, Close(c)
        PROVE  LoggedIn'
    BY <1>15, Zenon DEF Close, Goto, login, operator, LoggedIn, TypeOK
  <1>16. ASSUME NEW c \in Conns, Unlist(c)
        PROVE  LoggedIn'
    BY <1>16, SessionsAssumption DEF Unlist, Return, Goto, LoggedIn, TypeOK
  <1>17. ASSUME NEW c \in Conns, EnforceLimit(c)
        PROVE  LoggedIn'
    BY <1>17, Zenon DEF EnforceLimit, Notify, Goto, login, operator, LoggedIn, TypeOK
  <1>18. ASSUME NEW c \in Conns, NEW action \in Commands, Command(c, action)
        PROVE  LoggedIn'
    BY <1>18, Zenon DEF Command, Goto, login, operator, LoggedIn, TypeOK
  <1>19. ASSUME ConsoleNotifies
        PROVE  LoggedIn'
    BY <1>19, Zenon DEF ConsoleNotifies, Notify, Goto, login, operator, LoggedIn, TypeOK
  <1>20. ASSUME LimitChanges
        PROVE  LoggedIn'
    BY <1>20, Zenon DEF LimitChanges, Goto, login, operator, LoggedIn, TypeOK
  <1>21. ASSUME NEW c \in Conns, Injected(c)
        PROVE  LoggedIn'
    BY <1>21, Zenon DEF Injected, Goto, login, operator, LoggedIn, TypeOK
  <1>. QED
    BY <1>1, <1>2, <1>3, <1>4, <1>5, <1>6, <1>7, <1>8, <1>9, <1>10, <1>11, <1>12, <1>13,
       <1>14, <1>15, <1>16, <1>17, <1>18, <1>19, <1>20, <1>21 DEF Next, Step

\* Without another login of the same player nobody removes or replaces the entry of a
\* relay.
LEMMA ListedStep ==
    ASSUME DistinctIdentities, TypeOK, LoggedIn, RelayedAreListed, [Next]_vars
    PROVE  RelayedAreListed'
PROOF
  <1>1. CASE UNCHANGED vars
    BY <1>1 DEF vars, login, operator, RelayedAreListed, Relaying, TypeOK
  <1>2. ASSUME NEW c \in Conns, Enter(c)
        PROVE  RelayedAreListed'
    BY <1>2 DEF Enter, Goto, login, operator, RelayedAreListed, Relaying, TypeOK
  <1>3. ASSUME NEW c \in Conns, LoginFails(c)
        PROVE  RelayedAreListed'
    BY <1>3, SessionsAssumption DEF LoginFails, Return, Goto, RelayedAreListed,
       Relaying, TypeOK
  <1>4. ASSUME NEW c \in Conns, NoBackend(c)
        PROVE  RelayedAreListed'
    BY <1>4, SessionsAssumption DEF NoBackend, Return, Goto, RelayedAreListed, Relaying,
       TypeOK
  <1>5. ASSUME NEW c \in Conns, SniffFails(c)
        PROVE  RelayedAreListed'
    BY <1>5, SessionsAssumption, Zenon DEF SniffFails, BeginRelay, Goto, login,
       RelayedAreListed, LoggedIn, DistinctIdentities, Relaying, TypeOK
  <1>6. ASSUME NEW c \in Conns, NEW u \in Uuids \cup {NoUuid}, NEW k \in BOOLEAN,
               LoginStart(c, u, k)
        PROVE  RelayedAreListed'
    BY <1>6 DEF LoginStart, Goto, login, operator, RelayedAreListed, Relaying, TypeOK
  <1>7. ASSUME NEW c \in Conns, NEW b \in Backends, DialOpens(c, b)
        PROVE  RelayedAreListed'
    BY <1>7 DEF DialOpens, Goto, login, operator, RelayedAreListed, Relaying, TypeOK
  <1>8. ASSUME NEW c \in Conns, NEW b \in Backends, DialFails(c, b)
        PROVE  RelayedAreListed'
    BY <1>8 DEF DialFails, Goto, login, operator, RelayedAreListed, Relaying, TypeOK
  <1>9. ASSUME NEW c \in Conns, NEW frame \in Frames[c], SniffFrame(c, frame)
        PROVE  RelayedAreListed'
    <2>1. ASSUME NEW s, BeginRelay(c, s)
          PROVE  RelayedAreListed'
      BY <1>9, <2>1, SessionsAssumption, Zenon DEF SniffFrame, BeginRelay, Goto, login,
         RelayedAreListed,
         LoggedIn, DistinctIdentities, Relaying, TypeOK
    <2>2. CASE UNCHANGED <<pc, session, players>>
      BY <1>9, <2>2 DEF SniffFrame, login, RelayedAreListed, Relaying, TypeOK
    <2>. QED  BY <1>9, <2>1, <2>2 DEF SniffFrame
  <1>10. ASSUME NEW c \in Conns, Start(c)
        PROVE  RelayedAreListed'
    BY <1>10 DEF Start, Goto, login, operator, RelayedAreListed, Relaying, TypeOK
  <1>11. ASSUME NEW c \in Conns, Read(c)
        PROVE  RelayedAreListed'
    BY <1>11 DEF Read, Goto, login, operator, RelayedAreListed, Relaying, TypeOK
  <1>12. ASSUME NEW c \in Conns, Written(c)
        PROVE  RelayedAreListed'
    BY <1>12 DEF Written, Goto, login, operator, RelayedAreListed, Relaying, TypeOK
  <1>13. ASSUME NEW c \in Conns, PeerCloses(c)
        PROVE  RelayedAreListed'
    BY <1>13 DEF PeerCloses, Goto, login, operator, RelayedAreListed, Relaying, TypeOK
  <1>14. ASSUME NEW c \in Conns, RunAction(c)
        PROVE  RelayedAreListed'
    BY <1>14 DEF RunAction, Goto, login, operator, RelayedAreListed, Relaying, TypeOK
  <1>15. ASSUME NEW c \in Conns, Close(c)
        PROVE  RelayedAreListed'
    BY <1>15 DEF Close, Goto, login, operator, RelayedAreListed, Relaying, TypeOK
  <1>16. ASSUME NEW c \in Conns, Unlist(c)
        PROVE  RelayedAreListed'
    BY <1>16, SessionsAssumption, Zenon DEF Unlist, Return, Goto, RelayedAreListed, LoggedIn,
       DistinctIdentities, Relaying, TypeOK
  <1>17. ASSUME NEW c \in Conns, EnforceLimit(c)
        PROVE  RelayedAreListed'
    BY <1>17 DEF EnforceLimit, Notify, Goto, login, operator, RelayedAreListed,
       Relaying, TypeOK
  <1>18. ASSUME NEW c \in Conns, NEW action \in Commands, Command(c, action)
        PROVE  RelayedAreListed'
    BY <1>18 DEF Command, Goto, login, operator, RelayedAreListed, Relaying, TypeOK
  <1>19. ASSUME ConsoleNotifies
        PROVE  RelayedAreListed'
    BY <1>19 DEF ConsoleNotifies, Notify, Goto, login, operator, RelayedAreListed,
       Relaying, TypeOK
  <1>20. ASSUME LimitChanges
        PROVE  RelayedAreListed'
    BY <1>20 DEF LimitChanges, Goto, login, operator, RelayedAreListed, Relaying, TypeOK
  <1>21. ASSUME NEW c \in Conns, Injected(c)
        PROVE  RelayedAreListed'
    BY <1>21 DEF Injected, Goto, login, operator, RelayedAreListed, Relaying, TypeOK
  <1>. QED
    BY <1>1, <1>2, <1>3, <1>4, <1>5, <1>6, <1>7, <1>8, <1>9, <1>10, <1>11, <1>12, <1>13, Zenon,
       <1>14, <1>15, <1>16, <1>17, <1>18, <1>19, <1>20, <1>21 DEF Next, Step

-----------------------------------------------------------------------------
(* The framing.                                                              *)

\* The sniff leaves a session that agrees with the stream, and nothing changes either
\* before the injection.
LEMMA FramingStep ==
    ASSUME TypeOK, FramingLearned, [Next]_vars
    PROVE  FramingLearned'
PROOF
  <1>. SUFFICES ASSUME NEW d \in Conns
                PROVE  Learned(d)'
    BY DEF FramingLearned
  <1>. Learned(d)
    BY DEF FramingLearned
  <1>1. CASE UNCHANGED vars
    BY <1>1 DEF vars, login, operator, Learned, TypeOK
  <1>2. ASSUME NEW c \in Conns, Enter(c)
        PROVE  Learned(d)'
    BY <1>2 DEF Enter, Goto, login, operator, Learned, TypeOK
  <1>3. ASSUME NEW c \in Conns, LoginFails(c)
        PROVE  Learned(d)'
    <2>1. CASE d = c
      BY <1>3, <2>1 DEF LoginFails, Return, Goto, FreshWire, FreshSession, Learned, TypeOK
    <2>2. CASE d # c
      BY <1>3, <2>2 DEF LoginFails, Return, Goto, Learned, TypeOK
    <2>. QED  BY <2>1, <2>2
  <1>4. ASSUME NEW c \in Conns, NoBackend(c)
        PROVE  Learned(d)'
    <2>1. CASE d = c
      BY <1>4, <2>1 DEF NoBackend, Return, Goto, FreshWire, FreshSession, Learned, TypeOK
    <2>2. CASE d # c
      BY <1>4, <2>2 DEF NoBackend, Return, Goto, Learned, TypeOK
    <2>. QED  BY <2>1, <2>2
  <1>5. ASSUME NEW c \in Conns, SniffFails(c)
        PROVE  Learned(d)'
    <2>1. CASE d = c
      BY <1>5, <2>1 DEF SniffFails, BeginRelay, Goto, FreshSession, Learned, TypeOK
    <2>2. CASE d # c
      BY <1>5, <2>2 DEF SniffFails, BeginRelay, Goto, Learned, TypeOK
    <2>. QED  BY <2>1, <2>2
  <1>6. ASSUME NEW c \in Conns, NEW u \in Uuids \cup {NoUuid}, NEW k \in BOOLEAN,
               LoginStart(c, u, k)
        PROVE  Learned(d)'
    BY <1>6 DEF LoginStart, Goto, login, operator, Learned, TypeOK
  <1>7. ASSUME NEW c \in Conns, NEW b \in Backends, DialOpens(c, b)
        PROVE  Learned(d)'
    BY <1>7 DEF DialOpens, Goto, operator, FreshWire, Learned, TypeOK
  <1>8. ASSUME NEW c \in Conns, NEW b \in Backends, DialFails(c, b)
        PROVE  Learned(d)'
    BY <1>8 DEF DialFails, Goto, login, operator, Learned, TypeOK
  <1>9. ASSUME NEW c \in Conns, NEW frame \in Frames[c], SniffFrame(c, frame)
        PROVE  Learned(d)'
    <2>1. CASE d # c
      BY <1>9, <2>1 DEF SniffFrame, BeginRelay, Goto, Learned, TypeOK
    <2>2. CASE d = c /\ frame = "success"
      <3>1. wire'[c] = [wire[c] EXCEPT !.phase = "play"]
        BY <1>9, <2>2 DEF SniffFrame, AfterFrame, TypeOK
      <3>2. BeginRelay(c, Sniffed(c, frame))
        BY <1>9, <2>2 DEF SniffFrame
      <3>3. /\ session'[c].sniffed /\ session'[c].compressed = wire[c].compressed
            /\ pc'[c] = "start" /\ misframed' = misframed
        BY <1>9, <3>2 DEF SniffFrame, BeginRelay, Goto, Sniffed, FreshSession, TypeOK
      <3>. QED  BY <1>9, <2>2, <3>1, <3>3, SMTT(30) DEF SniffFrame, Learned, Wires, TypeOK
    <2>3. CASE d = c /\ frame \in {"encryption", "garbled"}
      <3>1. BeginRelay(c, Sniffed(c, frame))
        BY <1>9, <2>3 DEF SniffFrame
      <3>2. session'[c].encrypted /\ pc'[c] = "start" /\ misframed' = misframed
        BY <1>9, <2>3, <3>1, Zenon DEF SniffFrame, BeginRelay, Goto, Sniffed, FreshSession,
           TypeOK
      <3>. QED  BY <1>9, <2>3, <3>2 DEF SniffFrame, Learned
    <2>4. CASE d = c /\ frame = "disconnect"
      <3>1. BeginRelay(c, FreshSession)
        BY <1>9, <2>4 DEF SniffFrame
      <3>2. ~session'[c].sniffed /\ pc'[c] = "start" /\ misframed' = misframed
        BY <1>9, <3>1 DEF SniffFrame, BeginRelay, Goto, FreshSession, TypeOK
      <3>. QED  BY <1>9, <2>4, <3>2 DEF SniffFrame, Learned
    <2>5. CASE d = c /\ frame \notin {"success", "encryption", "garbled", "disconnect"}
      <3>1. UNCHANGED <<pc, session, misframed>>
        BY <1>9, <2>5 DEF SniffFrame
      <3>2. wire'[c].encrypted = wire[c].encrypted
        BY <1>9, <2>5, Zenon DEF SniffFrame, AfterFrame, Wires, TypeOK
      <3>. QED  BY <1>9, <2>5, <3>1, <3>2 DEF SniffFrame, Learned
    <2>. QED  BY <2>1, <2>2, <2>3, <2>4, <2>5
  <1>10. ASSUME NEW c \in Conns, Start(c)
        PROVE  Learned(d)'
    BY <1>10 DEF Start, Goto, login, operator, Learned, TypeOK
  <1>11. ASSUME NEW c \in Conns, Read(c)
        PROVE  Learned(d)'
    <2>1. CASE d = c
      <3>1. session[c].sniffed /\ ~session[c].encrypted => wire'[c] = wire[c]
        BY <1>11, <2>1 DEF Read, AfterBytes, Learned, TypeOK
      <3>. QED  BY <1>11, <2>1, <3>1 DEF Read, Goto, Learned, TypeOK
    <2>2. CASE d # c
      BY <1>11, <2>2 DEF Read, Goto, Learned, TypeOK
    <2>. QED  BY <2>1, <2>2
  <1>12. ASSUME NEW c \in Conns, Written(c)
        PROVE  Learned(d)'
    BY <1>12 DEF Written, Goto, login, operator, Learned, TypeOK
  <1>13. ASSUME NEW c \in Conns, PeerCloses(c)
        PROVE  Learned(d)'
    BY <1>13 DEF PeerCloses, Goto, login, operator, Learned, TypeOK
  <1>14. ASSUME NEW c \in Conns, RunAction(c)
        PROVE  Learned(d)'
    <2>1. CASE d = c
      <3>1. /\ session'[c].sniffed = session[c].sniffed
            /\ session'[c].encrypted = session[c].encrypted
            /\ session'[c].compressed = session[c].compressed
        BY <1>14 DEF RunAction, SessionRecords, TypeOK
      <3>2. c \in misframed' => ~session[c].sniffed
        BY <1>14, <2>1 DEF RunAction, Injects, CanInject, FramingFits, Learned
      <3>. QED  BY <1>14, <2>1, <3>1, <3>2 DEF RunAction, Goto, Learned, TypeOK
    <2>2. CASE d # c
      BY <1>14, <2>2 DEF RunAction, Goto, Learned, TypeOK
    <2>. QED  BY <2>1, <2>2
  <1>15. ASSUME NEW c \in Conns, Close(c)
        PROVE  Learned(d)'
    BY <1>15 DEF Close, Goto, login, operator, Learned, TypeOK
  <1>16. ASSUME NEW c \in Conns, Unlist(c)
        PROVE  Learned(d)'
    <2>1. CASE d = c
      BY <1>16, <2>1 DEF Unlist, Return, Goto, FreshWire, FreshSession, Learned, TypeOK
    <2>2. CASE d # c
      BY <1>16, <2>2 DEF Unlist, Return, Goto, Learned, TypeOK
    <2>. QED  BY <2>1, <2>2
  <1>17. ASSUME NEW c \in Conns, EnforceLimit(c)
        PROVE  Learned(d)'
    BY <1>17 DEF EnforceLimit, Notify, Goto, login, operator, Learned, TypeOK
  <1>18. ASSUME NEW c \in Conns, NEW action \in Commands, Command(c, action)
        PROVE  Learned(d)'
    <2>1. /\ session'[d].sniffed = session[d].sniffed
          /\ session'[d].encrypted = session[d].encrypted
          /\ session'[d].compressed = session[d].compressed
      BY <1>18 DEF Command, SessionRecords, TypeOK
    <2>. QED  BY <1>18, <2>1 DEF Command, Learned
  <1>19. ASSUME ConsoleNotifies
        PROVE  Learned(d)'
    BY <1>19 DEF ConsoleNotifies, Notify, Goto, login, operator, Learned, TypeOK
  <1>20. ASSUME LimitChanges
        PROVE  Learned(d)'
    BY <1>20 DEF LimitChanges, Goto, login, operator, Learned, TypeOK
  <1>21. ASSUME NEW c \in Conns, Injected(c)
        PROVE  Learned(d)'
    BY <1>21 DEF Injected, Goto, login, operator, Learned, TypeOK
  <1>. QED
    BY <1>1, <1>2, <1>3, <1>4, <1>5, <1>6, <1>7, <1>8, <1>9, <1>10, <1>11, <1>12, <1>13, Zenon,
       <1>14, <1>15, <1>16, <1>17, <1>18, <1>19, <1>20, <1>21 DEF Next, Step

-----------------------------------------------------------------------------
(* The theorems.                                                             *)

\* What is inductive for all logins.
Base == TypeOK /\ BackendKnown /\ ActiveIsLive /\ EntriesAlive /\ FramingLearned

\* It holds before the first login.
LEMMA BaseInit == Init => Base
  <1>. SUFFICES ASSUME Init PROVE Base
    OBVIOUS
  <1>1. TypeOK
    BY FreshTyped, Zenon DEF Init, TypeOK
  <1>2. BackendKnown /\ EntriesAlive
    BY DEF Init, BackendKnown, EntriesAlive, Connected, Relaying
  <1>3. ActiveIsLive
    <2>1. \A b \in Backends : Live(b) = {}
      BY DEF Init, Live, Connected, Relaying
    <2>. QED  BY <2>1, FS_EmptySet, SMTT(30) DEF Init, ActiveIsLive, Live
  <1>4. FramingLearned
    BY DEF Init, FramingLearned, Learned, FreshWire, FreshSession
  <1>. QED  BY <1>1, <1>2, <1>3, <1>4 DEF Base

\* Every step of a task, the console or the ticker keeps it.
LEMMA BaseStep == Base /\ [Next]_vars => Base'
  BY TypeStep, BackendStep, CountsStep, EntriesStep, FramingStep DEF Base

\* So it always holds.
LEMMA BaseAlways == Spec => []Base
  BY BaseInit, BaseStep, PTL DEF Spec

\* Every variable of handle_login and the registry keeps its type; in particular no
\* backend's count goes below zero.
THEOREM SessionTypes == Spec => []TypeOK
  <1>1. Base => TypeOK
    BY DEF Base
  <1>. QED  BY BaseAlways, <1>1, PTL

\* Whoever logs in as whom, also twice as the same player: a backend's count is the
\* number of logins connected to it, over failed dials, failed sniffs and every way out
\* of a relay.
THEOREM ConnectionsCounted == Spec => []ActiveIsLive
  <1>1. Base => ActiveIsLive
    BY DEF Base
  <1>. QED  BY BaseAlways, <1>1, PTL

\* Also then an entry of the registry is the session of a login that has not ended.
THEOREM EntriesHaveLogins == Spec => []EntriesAlive
  <1>1. Base => EntriesAlive
    BY DEF Base
  <1>. QED  BY BaseAlways, <1>1, PTL

\* While no two tasks log in as the same player, counts and registry are exact: entries
\* are those of logins that have not ended, and every relayed, identified player is in.
THEOREM BooksAlwaysBalance ==
    ASSUME DistinctIdentities
    PROVE  Spec => []BooksBalance
  <1>. DEFINE IInv == Base /\ LoggedIn /\ RelayedAreListed
  <1>1. Init => IInv
    BY BaseInit, SessionsAssumption DEF Init, LoggedIn, RelayedAreListed, Relaying
  <1>2. IInv /\ [Next]_vars => IInv'
    BY BaseStep, IdentityStep, ListedStep DEF Base
  <1>3. IInv => BooksBalance
    BY DEF Base, EntriesAlive, RelayedAreListed, BooksBalance, RegistryIsExact
  <1>. QED  BY <1>1, <1>2, <1>3, PTL DEF Spec

\* A kick or transfer packet injected into a stream whose login the sniff has seen has
\* the framing the client expects, whatever the backend sent.
THEOREM InjectionsFit == Spec => []InjectedFramingMatches
  <1>1. Base => InjectedFramingMatches
    BY DEF Base, TypeOK, FramingLearned, Learned, InjectedFramingMatches
  <1>. QED  BY BaseAlways, <1>1, PTL
=============================================================================
