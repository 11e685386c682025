------------------------------ MODULE MCShared ------------------------------
(* What connections share, and what is on disk: cached answers by host name, *)
(* counts and latencies by backend, the configuration and its reloads, the   *)
(* total of a metered route, and the log.  Nothing joins them, so a          *)
(* behaviour is one of either; the DNS cache comes twice, with room for all  *)
(* names and for one only.  A behaviour may come to rest when every edit has *)
(* been applied or every line logged.                                        *)
EXTENDS Integers, TLC

CONSTANTS Keys, Lookups, Ttl, NegativeTtl, IdleEvict, MaxEntries, LookupMax, DnsMaxTime,
          Upper, MaxHost, Patterns, Strategies, Hosts, Conns, Millis, LatencyTtl, Width, RouteMaxTime,
          Routes, Bad, Messages, Watchers, Consoles, Apis, Edited, MaxEdits, Empty,
          Relays, Counters, Requests, AutoReset, MaxBytes,
          Threads, MaxLines, MaxRolled, MaxArchived, MaxQueued, MaxLogged, MaxCrashes,
          None, Panic

VARIABLES part,
          dnsNow, cache, refreshing, lookup, sweep, cleared,
          routeNow, route, strategy, active, latency, counter, starts, connecting,
          file, fileMsgs, changed, tmp, config, messages, runtimes, births, removals,
          reloadsOverlapped, failed, reload, conn, edits,
          cur, up, bytes, dirty, handle, counted, flush, total, totalTmp, relayed,
          flushesOverlapped,
          main, task, queued, dropped, console, count, latest, rolled, archives,
          logged, crashes, rolls, archived, moved, unsafe, rollsOverlapped

dnsVars == <<dnsNow, cache, refreshing, lookup, sweep, cleared>>
routeVars == <<routeNow, route, strategy, active, latency, counter, starts, connecting>>
reloadVars == <<file, fileMsgs, changed, tmp, config, messages, runtimes, births, removals,
                reloadsOverlapped, failed, reload, conn, edits>>
metricVars == <<cur, up, bytes, dirty, handle, counted, flush, total, totalTmp, relayed,
                flushesOverlapped>>
logVars == <<main, task, queued, dropped, console, count, latest, rolled, archives,
             logged, crashes, rolls, archived, moved, unsafe, rollsOverlapped>>

D == INSTANCE DnsCache WITH now <- dnsNow, task <- lookup, Tasks <- Lookups, MaxTime <- DnsMaxTime
Full == INSTANCE DnsCache WITH now <- dnsNow, task <- lookup, Tasks <- Lookups, MaxTime <- DnsMaxTime,
                               MaxEntries <- 1
R == INSTANCE Routing WITH now <- routeNow, task <- connecting, Tasks <- Conns, MaxTime <- RouteMaxTime,
                           Routes <- Patterns
C == INSTANCE ConfigReload WITH overlapped <- reloadsOverlapped, job <- reload
M == INSTANCE RouteMetrics WITH job <- flush, file <- total, tmp <- totalTmp,
                                overlapped <- flushesOverlapped
L == INSTANCE Logging WITH overlapped <- rollsOverlapped

Text(s) == <<[ref |-> 0, text |-> s]>>
Ref(n) == <<[ref |-> n, text |-> <<"$">>]>>

MCUpper == [x \in {"A", "I"} |-> IF x = "A" THEN <<"a">> ELSE <<"i", "^">>]
MCPatterns == << [patterns |-> << <<"a">> >>,
                  templates |-> <<Text(<<"x">>), Text(<<"y">>), Text(<<"z">>)>>],
                 [patterns |-> << <<"?", "b">>, <<"*", "b">> >>,
                  templates |-> <<Ref(1), Text(<<"y">>)>>] >>
MCHosts == {<<"a">>, <<"A", "b">>, <<"c">>}

\* What a part does not use begins as anything that part could begin with.
MCInit ==
    /\ part \in {"dns", "full", "routes", "reload", "metrics", "log"}
    /\ D!Init /\ R!Init /\ C!Init /\ M!Init /\ L!Init
    /\ IF part # "routes" THEN route = 1 /\ strategy = "sequential"
                          ELSE strategy = "random" => route = 2
    /\ part # "reload" => file = {} /\ fileMsgs = CHOOSE m \in Messages : TRUE

AtRest ==
    \/ part = "reload" /\ C!Quiet /\ edits = MaxEdits /\ changed = {}
    \/ /\ part = "log"
       /\ main = "up" /\ logged = MaxLogged
       /\ queued = 0 /\ console = "recv"
       /\ \A t \in Threads : task[t].pc = "idle"

tableVars == <<dnsVars, routeVars>>
fileVars == <<reloadVars, metricVars, logVars>>
allVars == <<part, tableVars, fileVars>>

MCNext ==
    \/ part = "dns" /\ D!Next /\ UNCHANGED <<part, routeVars, fileVars>>
    \/ part = "full" /\ Full!Next /\ UNCHANGED <<part, routeVars, fileVars>>
    \/ part = "routes" /\ R!Next /\ UNCHANGED <<part, dnsVars, fileVars>>
    \/ part = "reload" /\ C!Next /\ UNCHANGED <<part, tableVars, metricVars, logVars>>
    \/ part = "metrics" /\ M!Next /\ UNCHANGED <<part, tableVars, reloadVars, logVars>>
    \/ part = "log" /\ L!Next /\ UNCHANGED <<part, tableVars, reloadVars, metricVars>>
    \/ AtRest /\ UNCHANGED allVars

MCSpec == MCInit /\ [][MCNext]_allVars

\* Lookups, connections, counters and logging threads are numbered by the same values: no
\* behaviour has more than one of them.
Symm == Permutations(Counters)

\* Every part keeps its type and, the DNS cache, its size cap.
TypesOK ==
    /\ part = "dns" => D!TypeOK
    /\ part = "full" => Full!TypeOK
    /\ part = "routes" => R!TypeOK
    /\ part = "reload" => C!TypeOK
    /\ part = "metrics" => M!TypeOK
    /\ part = "log" => L!TypeOK

\* A mark in `refreshing` has a refresh behind it that will remove it, and a host has at
\* most one refresh in flight unless the sweep took the mark of a running one
\* (DnsCache!MarksAreRefreshes).
MarksAreRefreshes == part \in {"dns", "full"} => D!MarksAreRefreshes

\* A good cached address that has not expired is neither lost nor replaced by a failure,
\* save that of a caller who found the host unknown (DnsCache!FreshStays).
FreshStays ==
    [][/\ part = "dns" => D!FreshKept
       /\ part = "full" => Full!FreshKept]_dnsVars

\* Every backend is tried, once, in the order of its connections or its latency, ties as
\* configured, however counts and readings change around a sort (Routing!OrderSound).
OrderSound == part = "routes" => R!OrderSound

\* Each backend is first in turn, over overflows of the counter (Routing!RotationEven).
RotationEven == part = "routes" => R!RotationEven

\* A route's runtime follows it through reloads, and so does the count of a connection
\* (ConfigReload!RuntimesFollowRoutes).
RuntimesFollowRoutes == part = "reload" => C!RuntimesFollowRoutes

\* At rest, what is live is what the files say (ConfigReload!LiveMatchesFiles).
LiveMatchesFiles == part = "reload" => C!LiveMatchesFiles

\* The file holds the total of a counter whose dirty flag is clear, unless two flushes
\* have overlapped; and it is whole, with a crash at any step, unless they have
\* (RouteMetrics!CleanIsPersisted, RouteMetrics!FileIsWhole).
TotalsPersisted == part = "metrics" => M!CleanIsPersisted /\ M!FileIsWhole

\* No crash, reset or reload makes the total exceed the bytes relayed
\* (RouteMetrics!NeverOvercounts).
NeverOvercounts == part = "metrics" => M!NeverOvercounts

\* A logged line can be read back until a retention limit outlives it, over failing
\* rolls, crashes at any step and archives begun twice; the four ways in which this code
\* does lose lines are stated with Logging!LinesKept.
LinesKept == part = "log" => L!LinesKept
=============================================================================
