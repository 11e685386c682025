---------------------------- MODULE ConfigReload ----------------------------
(***************************************************************************)
(* Hot reload: config.yml and messages.yml, the threads that load them     *)
(* into AppState (the two file watchers, the console's reload, the API's   *)
(* route mutations), none of which waits for another, and a connection     *)
(* that pairs the configuration of its accept with the runtimes of later.  *)
(*                                                                         *)
(* A route is a number: routes are compared as Route::eq does, and a       *)
(* larger number has the higher priority.  The file is the set of its      *)
(* routes; one that holds Bad does not load.                               *)
(***************************************************************************)
EXTENDS Integers, FiniteSets, Sequences, SequencesExt

CONSTANTS Routes,      \* routes, numbers
          Bad,         \* the route that does not parse
          Messages,    \* versions of messages.yml
          Watchers,    \* subset of {"config", "messages"}: the watches that run
          Consoles,    \* console threads
          Apis,        \* concurrent route mutations of the API
          Edited,      \* subset of {"config", "messages"}: the files edited by hand
          MaxEdits,    \* bound of the edits, by hand and by the API
          Empty,       \* a file that has been truncated
          None

Tasks == Watchers \cup Consoles \cup Apis

VARIABLES
    file, fileMsgs,      \* the two files
    changed,             \* the watches with an event to handle
    tmp,                 \* the throwaway file of write_validated: None or its routes
    config, messages,    \* AppState: config is [routes, msgs]
    runtimes,            \* AppState: the RouteRuntime of each route index
    births,              \* history: runtimes made for a route so far
    removals,            \* history: times the route left the live configuration
    overlapped,          \* history: two tasks have been at work at the same time
    failed,              \* history: the last load after a change of the messages failed
    job,                 \* per task: what it carries from step to step
    conn,                \* a connection: its route with its index at accept, and its runtime
    edits
files == <<file, fileMsgs>>
live == <<config, messages, runtimes>>
hist == <<births, removals, overlapped, failed>>
vars == <<files, changed, tmp, live, hist, job, conn, edits>>

NoJob == [pc |-> "idle", yaml |-> {}, new |-> None, routes |-> <<>>, runtimes |-> <<>>,
          msgs |-> None]

\* raced: a reload stored runtimes between the configuration it was accepted under and
\* its look at the runtimes; away: its route has left since.
NoConn == [pc |-> "idle", route |-> None, index |-> 0, runtime |-> None, raced |-> FALSE,
           away |-> FALSE]

\* load_config: routes by falling priority, and what they take from the messages.
\* An empty file is a configuration without routes.
Loads(yaml) == yaml = Empty \/ Bad \notin yaml
RoutesOf(yaml) == IF yaml = Empty THEN {} ELSE yaml
Loaded(yaml, msgs) ==
    [routes |-> SetToSortSeq(RoutesOf(yaml), LAMBDA r, s : r > s), msgs |-> msgs]

Fresh(r) == [of |-> r, born |-> births[r]]

Init ==
    /\ file \in SUBSET (Routes \ {Bad})
    /\ fileMsgs \in Messages
    /\ changed = {}
    /\ tmp = None
    /\ messages = fileMsgs
    /\ config = Loaded(file, fileMsgs)
    /\ runtimes = [i \in DOMAIN config.routes |-> [of |-> config.routes[i], born |-> 0]]
    /\ births = [r \in Routes |-> IF r \in file THEN 1 ELSE 0]
    /\ removals = [r \in Routes |-> 0]
    /\ overlapped = FALSE
    /\ failed = FALSE
    /\ job = [t \in Tasks |-> NoJob]
    /\ conn = NoConn
    /\ edits = 0

-----------------------------------------------------------------------------
(* The user's editor.                                                        *)

EditConfig(yaml) ==
    /\ "config" \in Edited
    /\ edits < MaxEdits
    /\ edits' = edits + 1
    /\ yaml # file
    /\ file' = yaml
    /\ changed' = changed \cup (Watchers \cap {"config"})
    /\ UNCHANGED <<conn, fileMsgs, tmp, live, hist, job>>

EditMsgs(m) ==
    /\ "messages" \in Edited
    /\ edits < MaxEdits
    /\ edits' = edits + 1
    /\ m # fileMsgs
    /\ fileMsgs' = m
    /\ changed' = changed \cup (Watchers \cap {"messages"})
    /\ UNCHANGED <<conn, file, tmp, live, hist, job>>

-----------------------------------------------------------------------------
(* Loading.  Each ends with set_config, or fails and leaves it out.          *)

Quiet == \A t \in Tasks : job[t].pc = "idle"

\* Task t goes to work on j.  (A connection is followed until tasks overlap.)
Begin(t, j) ==
    /\ job[t].pc = "idle"
    /\ job' = [job EXCEPT ![t] = j]
    /\ overlapped' = (overlapped \/ (~Quiet /\ j # NoJob))
    /\ conn' = IF overlapped' THEN NoConn ELSE conn

\* watch_config: the live messages, then the file.
WatchConfig ==
    /\ "config" \in changed
    /\ changed' = changed \ {"config"}
    /\ Begin("config", IF Loads(file)
                         THEN [NoJob EXCEPT !.pc = "old", !.new = Loaded(file, messages)]
                         ELSE NoJob)
    /\ UNCHANGED <<files, tmp, live, births, removals, failed, edits>>

\* M: the messages are only used for the routes.
M_LoadMessages(t) ==
    /\ t \in Consoles \cup (changed \cap {"messages"})
    /\ changed' = changed \ {t}
    /\ Begin(t, [NoJob EXCEPT !.pc = "load", !.msgs = fileMsgs])
    /\ UNCHANGED <<files, tmp, live, births, removals, failed, edits>>

\* watch_messages and apply_messages_change, or reload_all: the messages are set first ...
LoadMessages(t) ==
    /\ t \in Consoles \cup (changed \cap {"messages"})
    /\ changed' = changed \ {t}
    /\ messages' = fileMsgs
    /\ Begin(t, [NoJob EXCEPT !.pc = "load", !.msgs = fileMsgs])
    /\ UNCHANGED <<files, tmp, config, runtimes, births, removals, failed, edits>>

\* ... and config.yml is then parsed against them.
LoadConfig(t) ==
    /\ job[t].pc = "load"
    /\ job' = [job EXCEPT ![t] = IF Loads(file)
                                   THEN [NoJob EXCEPT !.pc = "old",
                                                      !.new = Loaded(file, job[t].msgs)]
                                   ELSE NoJob]
    /\ failed' = ~Loads(file)
    /\ UNCHANGED <<conn, files, changed, tmp, live, births, removals, overlapped, edits>>

-----------------------------------------------------------------------------
(* mutate_routes_file and write_validated.                                   *)

\* create_route, replace_route and delete_route on the document.
Mutated(yaml, gone, new) == (yaml \ gone) \cup new

\* The document is read (an empty one is refused) and changed: a route is removed,
\* which has to be both live and in the file, or added, or replaced.
ReadDocument(t, gone, new) ==
    /\ t \in Apis
    /\ edits < MaxEdits
    /\ edits' = edits + 1
    /\ file # Empty
    /\ gone \subseteq file \cap ToSet(config.routes)
    /\ new \cap file = {}
    /\ gone # new
    /\ Begin(t, [NoJob EXCEPT !.pc = "tmp", !.yaml = Mutated(file, gone, new)])
    /\ UNCHANGED <<files, changed, tmp, live, births, removals, failed>>

WriteTmp(t) ==
    /\ job[t].pc = "tmp"
    /\ tmp' = job[t].yaml
    /\ job' = [job EXCEPT ![t].pc = "validate", ![t].msgs = messages]
    /\ UNCHANGED <<conn, files, changed, live, hist, edits>>

\* Whatever the temporary holds by now is loaded.
Validate(t) ==
    /\ job[t].pc = "validate"
    /\ job' = [job EXCEPT ![t].pc = "remove",
                          ![t].new = IF tmp # None /\ Loads(tmp) THEN Loaded(tmp, job[t].msgs)
                                     ELSE None]
    /\ UNCHANGED <<conn, files, changed, tmp, live, hist, edits>>

\* The temporary goes; without a configuration the mutation is refused.
RemoveTmp(t) ==
    /\ job[t].pc = "remove"
    /\ tmp' = None
    /\ job' = [job EXCEPT ![t] = IF job[t].new = None THEN NoJob ELSE [@ EXCEPT !.pc = "write"]]
    /\ UNCHANGED <<conn, files, changed, live, hist, edits>>

\* fs::write empties the file before it fills it.
Truncate(t) ==
    /\ job[t].pc = "write"
    /\ file' = Empty
    /\ changed' = changed \cup (Watchers \cap {"config"})
    /\ job' = [job EXCEPT ![t].pc = "fill"]
    /\ UNCHANGED <<conn, fileMsgs, tmp, live, hist, edits>>

Fill(t) ==
    /\ job[t].pc = "fill"
    /\ file' = job[t].yaml
    /\ changed' = changed \cup (Watchers \cap {"config"})
    /\ job' = [job EXCEPT ![t].pc = "old"]
    /\ UNCHANGED <<conn, fileMsgs, tmp, live, hist, edits>>

-----------------------------------------------------------------------------
(* set_config, lock by lock.                                                 *)

ReadRoutes(t) ==
    /\ job[t].pc = "old"
    /\ job' = [job EXCEPT ![t].pc = "runtimes", ![t].routes = config.routes]
    /\ UNCHANGED <<conn, files, changed, tmp, live, hist, edits>>

ReadRuntimes(t) ==
    /\ job[t].pc = "runtimes"
    /\ job' = [job EXCEPT ![t].pc = "store", ![t].runtimes = runtimes]
    /\ UNCHANGED <<conn, files, changed, tmp, live, hist, edits>>

\* The runtime of a route that was there before, by structural equality.
Old(j, r) ==
    {j.runtimes[i] : i \in {k \in DOMAIN j.routes \cap DOMAIN j.runtimes : j.routes[k] = r}}

\* M: runtimes are carried by index.
M_Carried(j) ==
    [i \in DOMAIN j.new.routes |->
       IF i \in DOMAIN j.runtimes THEN j.runtimes[i] ELSE Fresh(j.new.routes[i])]

Carried(j) ==
    [i \in DOMAIN j.new.routes |->
       LET r == j.new.routes[i]
       IN  IF Old(j, r) = {} THEN Fresh(r) ELSE CHOOSE x \in Old(j, r) : TRUE]

\* The history of runtimes is kept until two tasks overlap.
Counted(count, routes) ==
    [r \in Routes |-> IF r \in routes /\ ~overlapped THEN count[r] + 1 ELSE count[r]]

StoreRuntimes(t) ==
    LET carried == Carried(job[t])
    IN  /\ job[t].pc = "store"
        /\ runtimes' = carried
        /\ births' = Counted(births, {r \in Routes : Fresh(r) \in ToSet(carried)})
        /\ job' = [job EXCEPT ![t].pc = "config"]
        /\ conn' = [conn EXCEPT !.raced = @ \/ conn.pc = "accepted",
                                !.away = @ \/ (conn.pc = "served"
                                                 /\ conn.route \notin ToSet(job[t].new.routes))]
        /\ UNCHANGED <<files, changed, tmp, config, messages, removals, overlapped, failed, edits>>

\* The other components are told, and the configuration itself goes live last.
StoreConfig(t) ==
    /\ job[t].pc = "config"
    /\ config' = job[t].new
    /\ removals' = Counted(removals, ToSet(config.routes) \ ToSet(config'.routes))
    /\ failed' = FALSE
    /\ job' = [job EXCEPT ![t] = NoJob]
    /\ UNCHANGED <<conn, files, changed, tmp, messages, runtimes, births, overlapped, edits>>

-----------------------------------------------------------------------------
(* handle_connection, as far as it meets the configuration.                  *)

\* The configuration is cloned at accept; the host it names later is one of its routes.
AcceptConn(i) ==
    /\ conn.pc = "idle"
    /\ ~overlapped
    /\ i \in DOMAIN config.routes
    /\ conn' = [NoConn EXCEPT !.pc = "accepted", !.route = config.routes[i], !.index = i,
                              !.raced = \E t \in Tasks : job[t].pc = "config"]
    /\ UNCHANGED <<files, changed, tmp, live, hist, job, edits>>

\* route_runtime at that index; without one, a runtime nobody else sees.
LookUpRuntime ==
    /\ conn.pc = "accepted"
    /\ conn' = [conn EXCEPT !.pc = "served", !.index = 0,
                            !.runtime = IF conn.index \in DOMAIN runtimes
                                          THEN runtimes[conn.index] ELSE None]
    /\ UNCHANGED <<files, changed, tmp, live, hist, job, edits>>

CloseConn ==
    /\ conn.pc = "served"
    /\ conn' = NoConn
    /\ UNCHANGED <<files, changed, tmp, live, hist, job, edits>>

Next ==
    \/ \E yaml \in SUBSET Routes : EditConfig(yaml)
    \/ \E m \in Messages : EditMsgs(m)
    \/ WatchConfig
    \/ \E t \in Tasks :
         \/ LoadMessages(t) \/ LoadConfig(t)
         \/ \E gone, new \in {{}} \cup {{r} : r \in Routes} : ReadDocument(t, gone, new)
         \/ WriteTmp(t) \/ Validate(t) \/ RemoveTmp(t) \/ Truncate(t) \/ Fill(t)
         \/ ReadRoutes(t) \/ ReadRuntimes(t) \/ StoreRuntimes(t) \/ StoreConfig(t)
    \/ \E i \in 1..Cardinality(Routes) : AcceptConn(i)
    \/ LookUpRuntime \/ CloseConn

Spec == Init /\ [][Next]_vars

-----------------------------------------------------------------------------
Runtimes == [of : Routes, born : Nat]

TypeOK ==
    /\ file \in SUBSET Routes \cup {Empty}
    /\ fileMsgs \in Messages /\ messages \in Messages
    /\ changed \subseteq Watchers
    /\ tmp \in SUBSET Routes \cup {None}
    /\ ToSet(config.routes) \subseteq Routes \ {Bad}
    /\ config.msgs \in Messages
    /\ \A i \in DOMAIN runtimes : runtimes[i] \in Runtimes
    /\ births \in [Routes -> Nat] /\ removals \in [Routes -> Nat]
    /\ overlapped \in BOOLEAN /\ failed \in BOOLEAN

\* "Keyed by index into config.routes": between reloads that did not overlap the
\* runtime at a route's index was made for that route, however routes came, went
\* and moved; and "carry per-backend runtime state forward for routes that survived
\* the reload unchanged" (app_state.rs:89-90; the field's comment, lines 20-24, still
\* has it that an empty map is made on every reload): a route gets a new runtime only
\* after it has been away, and a connection that counts itself in its route's runtime is
\* counted there for as long as the route stays.  Left out are what the code does get
\* wrong: after reloads that overlapped nothing is said of the indices, nor of a
\* connection that met runtimes stored since the configuration it was accepted under.
RuntimesFollowRoutes ==
    /\ Quiet /\ ~overlapped =>
         /\ Len(runtimes) = Len(config.routes)
         /\ \A i \in DOMAIN runtimes : runtimes[i].of = config.routes[i]
    /\ \A r \in Routes : births[r] <= removals[r] + 1
    /\ conn.pc = "served" /\ ~conn.raced /\ ~overlapped =>
         /\ conn.runtime.of = conn.route
         /\ Quiet /\ ~conn.away =>
              \E i \in DOMAIN runtimes : config.routes[i] = conn.route /\ runtimes[i] = conn.runtime

\* At rest, and if no two tasks overlapped, what is live is what the files say: the
\* routes of a config.yml that loads, rendered with the messages in force (unless
\* the new messages met a config.yml that does not load).
LiveMatchesFiles ==
    Quiet /\ ~overlapped =>
      /\ changed = {} /\ Loads(file) => ToSet(config.routes) = RoutesOf(file)
      /\ ~failed => config.msgs = messages

\* "a mutation that would produce an invalid config can never corrupt the real
\* file": a file that loads stops to load by an edit by hand only.
FileStaysValid == [][Loads(file) /\ ~Loads(file)' => edits' # edits]_vars
=============================================================================
