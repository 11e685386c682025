------------------------------ MODULE MCWriters ------------------------------
(* The two writer threads with a database, each restarted by whoever applies *)
(* a configuration, two of them at once: sessions (ConnectionTracker) and    *)
(* statistics (StatsLogger).  Each has a database of its own, so a behaviour *)
(* is one of either.                                                         *)
EXTENDS ConnectionTracker

VARIABLES part, statsInner, statsConf, statsWriter, statsJob

statsVars == <<statsInner, statsConf, statsWriter, statsJob>>

S == INSTANCE StatsLogger WITH inner <- statsInner, conf <- statsConf, writer <- statsWriter,
                               job <- statsJob

allVars == <<part, vars, statsVars>>

MCInit == part \in {"sessions", "stats"} /\ Init /\ S!Init

InPart(sessions, stats) ==
    \/ part = "sessions" /\ sessions /\ UNCHANGED <<part, statsVars>>
    \/ part = "stats" /\ stats /\ UNCHANGED <<part, vars>>

MCNext == InPart(Next, S!Next)

\* Threads run, and what the statistics ask of the runtime is answered.
MCSpec ==
    /\ MCInit /\ [][MCNext]_allVars
    /\ \A w \in Writers : WF_allVars(InPart(WriterStep(w), S!WriterStep(w)))
    /\ \A a \in Appliers : WF_allVars(InPart(ApplierStep(a), S!ApplierStep(a)))

\* Types of both.
TypesOK == TypeOK /\ S!TypeOK

\* No writer runs on for ever beside the one in `inner`, and the one in `inner` has no
\* stop signal, of sessions (ConnectionTracker!NoneAdrift) and of statistics
\* (StatsLogger!NoneAdrift).
StatsNoneAdrift == S!NoneAdrift

\* Whoever applies a configuration comes back from joining the old writer, in the middle
\* of a batch, a snapshot or a failing write, also beside another who does the same
\* (ConnectionTracker!ApplyEnds, StatsLogger!ApplyEnds).
AppliesEnd == ApplyEnds /\ S!ApplyEnds
=============================================================================
