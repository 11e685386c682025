-------------------------- MODULE StatsLoggerProofs --------------------------
(***************************************************************************)
(* Proofs about StatsLogger, for any writers and any number of threads     *)
(* that apply configurations at the same time.                             *)
(***************************************************************************)
EXTENDS StatsLogger, TLAPS

\* None stands for no writer and no configuration.
StatsConstants == None \notin Writers \cup Configs \cup {Off}

WriterRecords == [pc : {"off", "wait", "log"}, told : BOOLEAN]
JobRecords ==
    [pc : {"idle", "take", "tell", "join", "adopt", "open", "install"},
     conf : Configs \cup {Off, None}, old : Writers \cup {None}, new : Writers \cup {None}]

Typed ==
    /\ inner \in Writers \cup {None}
    /\ conf \in Configs \cup {Off}
    /\ writer \in [Writers -> WriterRecords]
    /\ job \in [Appliers -> JobRecords]
    /\ \A a \in Appliers : job[a].pc = "adopt" => job[a].conf # None

\* A writer nobody has told to stop.
Working(w) == Alive(w) /\ ~writer[w].told

\* A writer is told to stop only when it is neither in `inner` nor on its way there.
Served ==
    /\ inner # None => Working(inner)
    /\ \A a \in Appliers :
         /\ job[a].pc = "install" =>
              job[a].new \in Writers /\ job[a].new # inner /\ Working(job[a].new)
         /\ job[a].pc = "tell" /\ job[a].old # None => job[a].old # inner
    /\ \A a, b \in Appliers : job[b].pc = "install" =>
         /\ job[a].pc = "tell" /\ job[a].old # None => job[a].old # job[b].new
         /\ job[a].pc = "install" /\ a # b => job[a].new # job[b].new

\* A writer that runs is the one in `inner`, has its stop signal, or is in the hands of
\* an applier that will send it or put the writer in `inner`.
Guided ==
    \A w \in Writers : Alive(w) =>
      \/ w = inner
      \/ writer[w].told
      \/ \E a \in Appliers : \/ job[a].pc = "tell" /\ w = job[a].old
                             \/ job[a].pc = "install" /\ w = job[a].new

IInv == Typed /\ Served /\ Guided

-----------------------------------------------------------------------------
\* None is no configuration, so whoever stops a writer for good goes no further.
LEMMA TypedStep ==
    ASSUME Typed, [Next]_vars
    PROVE  Typed'
<1>1. CASE UNCHANGED vars
  BY <1>1 DEF vars, Typed
<1>2. ASSUME NEW w \in Writers, Wake(w) PROVE Typed'
  <2>1. NoWriter \in WriterRecords
    BY DEF NoWriter, WriterRecords
  <2>2. \A p \in {"log"} : [writer[w] EXCEPT !.pc = p] \in WriterRecords
    BY DEF Typed, WriterRecords
  <2>3. writer' \in [Writers -> WriterRecords]
    BY <1>2, <2>1, <2>2, Zenon DEF Wake, Goto, Typed
  <2> QED BY <1>2, <2>3 DEF Wake, Typed
<1>3. ASSUME NEW w \in Writers, Log(w) PROVE Typed'
  BY <1>3 DEF Log, Goto, Typed, WriterRecords
<1>4. ASSUME NEW a \in Appliers, NEW c \in Configs \cup {Off}, Apply(a, c) PROVE Typed'
  BY <1>4 DEF Apply, Typed, JobRecords, NoJob
<1>5. ASSUME NEW a \in Appliers, Shutdown(a) PROVE Typed'
  BY <1>5 DEF Shutdown, Typed, JobRecords, NoJob
<1>6. ASSUME NEW a \in Appliers, Take(a) PROVE Typed'
  BY <1>6 DEF Take, Typed, JobRecords
<1>7. ASSUME NEW a \in Appliers, Tell(a) PROVE Typed'
  <2>1. job' \in [Appliers -> JobRecords] /\ \A b \in Appliers : job'[b].conf = job[b].conf
    BY <1>7 DEF Tell, Typed, JobRecords
  <2>2. \A b \in Appliers : job'[b].pc = "adopt" => job[b].pc = "adopt"
    BY <1>7 DEF Tell, Typed, JobRecords
  <2>3. writer' \in [Writers -> WriterRecords]
    <3>1. \A w \in Writers : [writer[w] EXCEPT !.told = TRUE] \in WriterRecords
      BY Zenon DEF Typed, WriterRecords
    <3> QED BY <1>7, <3>1, Zenon DEF Tell, Typed
  <2> QED BY <1>7, <2>1, <2>2, <2>3 DEF Tell, Typed
<1>8. ASSUME NEW a \in Appliers, Join(a) PROVE Typed'
  BY <1>8 DEF Join, Typed, JobRecords, NoJob
<1>9. ASSUME NEW a \in Appliers, Adopt(a) PROVE Typed'
  <2>1. conf' \in Configs \cup {Off}
    BY <1>9 DEF Adopt, Typed, JobRecords
  <2>2. job' \in [Appliers -> JobRecords]
    BY <1>9 DEF Adopt, Typed, JobRecords, NoJob
  <2>3. \A b \in Appliers : job'[b].pc = "adopt" => job'[b] = job[b]
    BY <1>9 DEF Adopt, Typed, JobRecords, NoJob
  <2> QED BY <1>9, <2>1, <2>2, <2>3 DEF Adopt, Typed
<1>10. ASSUME NEW a \in Appliers, OpenFails(a) PROVE Typed'
  BY <1>10 DEF OpenFails, Typed, JobRecords, NoJob
<1>11. ASSUME NEW a \in Appliers, Install(a) PROVE Typed'
  <2>1. job' \in [Appliers -> JobRecords] /\ inner' \in Writers \cup {None}
    BY <1>11 DEF Install, Typed, JobRecords, NoJob
  <2>2. \A b \in Appliers : job'[b].pc = "adopt" => job'[b] = job[b]
    BY <1>11 DEF Install, Typed, JobRecords, NoJob
  <2>3. writer' \in [Writers -> WriterRecords]
    <3>1. \A w \in Writers : [writer[w] EXCEPT !.told = TRUE] \in WriterRecords
      BY Zenon DEF Typed, WriterRecords
    <3> QED BY <1>11, <3>1, Zenon DEF Install, Typed
  <2> QED BY <1>11, <2>1, <2>2, <2>3 DEF Install, Typed
<1>12. ASSUME NEW a \in Appliers, NEW w \in Writers, Spawn(a, w) PROVE Typed'
  <2>1. job' \in [Appliers -> JobRecords]
    BY <1>12 DEF Spawn, Typed, JobRecords
  <2>2. \A b \in Appliers : job'[b].pc = "adopt" => job'[b] = job[b]
    BY <1>12 DEF Spawn, Typed, JobRecords
  <2>3. [NoWriter EXCEPT !.pc = "wait"] \in WriterRecords
    BY Zenon DEF NoWriter, WriterRecords
  <2>4. writer' \in [Writers -> WriterRecords]
    BY <1>12, <2>3, Zenon DEF Spawn, Typed
  <2> QED BY <1>12, <2>1, <2>2, <2>4 DEF Spawn, Typed
<1> QED BY <1>1, <1>2, <1>3, <1>4, <1>5, <1>6, <1>7, <1>8, <1>9, <1>10, <1>11, <1>12
       DEF Next, WriterStep, ApplierStep

-----------------------------------------------------------------------------
(* Who holds a writer.                                                       *)

\* A step of an applier that holds no writer to tell or to install, before or after.
LEMMA Aside ==
    ASSUME Served, Guided, NEW a \in Appliers, UNCHANGED <<inner, writer>>,
           job[a].pc \notin {"tell", "install"}, job'[a].pc \notin {"tell", "install"},
           \A b \in Appliers : b # a => job'[b] = job[b]
    PROVE  Served' /\ Guided'
<1>1. Guided'
  BY DEF Guided, Alive
<1>2. \A b \in Appliers : job'[b].pc \in {"tell", "install"} => job'[b] = job[b]
  OBVIOUS
<1>3. Served'
  BY <1>2 DEF Served, Working, Alive
<1> QED BY <1>1, <1>3

\* stop_internal takes a writer out of `inner` before it tells it, start_internal puts the
\* one it starts there, and a writer pushed out of there loses its sender.
LEMMA HeldStep ==
    ASSUME StatsConstants, Typed, Served, Guided, [Next]_vars
    PROVE  Served' /\ Guided'
<1>1. CASE UNCHANGED vars
  BY <1>1 DEF vars, Served, Guided, Working, Alive
<1>2. ASSUME NEW w \in Writers, Wake(w) PROVE Served' /\ Guided'
  <2>1. UNCHANGED <<inner, job>> /\ \A v \in Writers : v # w => writer'[v] = writer[v]
    BY <1>2 DEF Wake, Goto, Typed
  <2>2. CASE writer[w].told
    <3>1. ~Alive(w)' /\ ~Working(w)
      BY <1>2, <2>2 DEF Wake, Typed, NoWriter, Alive, Working
    <3> QED BY <2>1, <3>1 DEF Served, Guided, Working, Alive, Typed
  <2>3. CASE ~writer[w].told
    <3>1. Alive(w) /\ Alive(w)' /\ ~writer'[w].told
      BY <1>2, <2>3 DEF Wake, Goto, Typed, WriterRecords, Alive
    <3> QED BY <2>1, <2>3, <3>1 DEF Served, Guided, Working, Alive, Typed
  <2> QED BY <2>2, <2>3
<1>3. ASSUME NEW w \in Writers, Log(w) PROVE Served' /\ Guided'
  <2>1. UNCHANGED <<inner, job>> /\ \A v \in Writers : v # w => writer'[v] = writer[v]
    BY <1>3 DEF Log, Goto, Typed
  <2>2. Alive(w) /\ Alive(w)' /\ writer'[w].told = writer[w].told
    BY <1>3 DEF Log, Goto, Typed, WriterRecords, Alive
  <2> QED BY <2>1, <2>2 DEF Served, Guided, Working, Alive, Typed
<1>4. ASSUME NEW a \in Appliers, NEW c \in Configs \cup {Off}, Apply(a, c) PROVE Served' /\ Guided'
  <2>1. UNCHANGED <<inner, writer>> /\ \A b \in Appliers : b # a => job'[b] = job[b]
    BY <1>4 DEF Apply, Typed
  <2>2. job[a].pc \notin {"tell", "install"} /\ job'[a].pc \notin {"tell", "install"}
    BY <1>4 DEF Apply, Typed, JobRecords, NoJob
  <2> QED BY <2>1, <2>2, Aside
<1>5. ASSUME NEW a \in Appliers, Shutdown(a) PROVE Served' /\ Guided'
  <2>1. UNCHANGED <<inner, writer>> /\ \A b \in Appliers : b # a => job'[b] = job[b]
    BY <1>5 DEF Shutdown, Typed
  <2>2. job[a].pc \notin {"tell", "install"} /\ job'[a].pc \notin {"tell", "install"}
    BY <1>5 DEF Shutdown, Typed, JobRecords, NoJob
  <2> QED BY <2>1, <2>2, Aside
<1>6. ASSUME NEW a \in Appliers, Take(a) PROVE Served' /\ Guided'
  <2>1. UNCHANGED writer /\ inner' = None /\ \A b \in Appliers : b # a => job'[b] = job[b]
    BY <1>6 DEF Take, Typed
  <2>2. job[a].pc = "take" /\ job'[a].pc = "tell" /\ job'[a].old = inner
    BY <1>6 DEF Take, Typed, JobRecords
  <2>3. Guided'
    BY <2>1, <2>2 DEF Guided, Alive
  <2>4. None \notin Writers
    BY DEF StatsConstants
  <2>5. Served'
    BY <2>1, <2>2, <2>4 DEF Served, Working, Alive
  <2> QED BY <2>3, <2>5
<1>7. ASSUME NEW a \in Appliers, Tell(a) PROVE Served' /\ Guided'
  <2>1. inner' = inner /\ \A b \in Appliers : b # a => job'[b] = job[b]
    BY <1>7 DEF Tell, Typed
  <2>2. /\ job[a].pc = "tell" /\ job'[a].pc = "join"
        /\ \A v \in Writers : v # job[a].old => writer'[v] = writer[v]
    BY <1>7 DEF Tell, Typed, JobRecords
  <2>3. job[a].old \in Writers => writer'[job[a].old].told
    BY <1>7 DEF Tell, Typed, WriterRecords, StatsConstants
  <2>4. Guided'
    BY <2>1, <2>2, <2>3 DEF Guided, Alive
  <2>5. None \notin Writers /\ inner \in Writers \cup {None}
    BY DEF StatsConstants, Typed
  <2>6. inner # None => Working(inner)'
    BY <2>1, <2>2, <2>5 DEF Served, Working, Alive
  <2>7. ASSUME NEW b \in Appliers, job'[b].pc = "install" PROVE Working(job[b].new)'
    <3>1. b # a /\ job'[b] = job[b] /\ job[b].pc = "install"
      BY <2>1, <2>2, <2>7
    <3>2. job[b].new \in Writers /\ Working(job[b].new) /\ job[b].new # job[a].old
      BY <3>1, <2>2, <2>5 DEF Served
    <3> QED BY <3>1, <3>2, <2>2 DEF Working, Alive
  <2>8. \A b \in Appliers : job'[b].pc \in {"tell", "install"} => b # a /\ job'[b] = job[b]
    BY <2>1, <2>2
  <2>9. Served'
    BY <2>1, <2>6, <2>7, <2>8 DEF Served
  <2> QED BY <2>4, <2>9
<1>8. ASSUME NEW a \in Appliers, Join(a) PROVE Served' /\ Guided'
  <2>1. UNCHANGED <<inner, writer>> /\ \A b \in Appliers : b # a => job'[b] = job[b]
    BY <1>8 DEF Join, Typed
  <2>2. job[a].pc \notin {"tell", "install"} /\ job'[a].pc \notin {"tell", "install"}
    BY <1>8 DEF Join, Typed, JobRecords, NoJob
  <2> QED BY <2>1, <2>2, Aside
<1>9. ASSUME NEW a \in Appliers, Adopt(a) PROVE Served' /\ Guided'
  <2>1. UNCHANGED <<inner, writer>> /\ \A b \in Appliers : b # a => job'[b] = job[b]
    BY <1>9 DEF Adopt, Typed
  <2>2. job[a].pc \notin {"tell", "install"} /\ job'[a].pc \notin {"tell", "install"}
    BY <1>9 DEF Adopt, Typed, JobRecords, NoJob
  <2> QED BY <2>1, <2>2, Aside
<1>10. ASSUME NEW a \in Appliers, OpenFails(a) PROVE Served' /\ Guided'
  <2>1. UNCHANGED <<inner, writer>> /\ \A b \in Appliers : b # a => job'[b] = job[b]
    BY <1>10 DEF OpenFails, Typed
  <2>2. job[a].pc \notin {"tell", "install"} /\ job'[a].pc \notin {"tell", "install"}
    BY <1>10 DEF OpenFails, Typed, JobRecords, NoJob
  <2> QED BY <2>1, <2>2, Aside
<1>11. ASSUME NEW a \in Appliers, Install(a) PROVE Served' /\ Guided'
  <2>1. /\ job[a].pc = "install" /\ job'[a].pc = "idle" /\ inner' = job[a].new
        /\ \A b \in Appliers : b # a => job'[b] = job[b]
    BY <1>11 DEF Install, Typed, NoJob
  <2>2. \A v \in Writers : v # inner => writer'[v] = writer[v]
    BY <1>11 DEF Install, Typed
  <2>3. inner \in Writers => writer'[inner].told
    BY <1>11 DEF Install, Typed, WriterRecords, StatsConstants
  <2>4. Guided'
    BY <2>1, <2>2, <2>3 DEF Guided, Alive
  <2>5. job[a].new \in Writers /\ job[a].new # inner /\ Working(job[a].new)
    BY <2>1 DEF Served
  <2>6. Working(inner)'
    BY <2>1, <2>2, <2>5 DEF Working, Alive
  <2>7. ASSUME NEW b \in Appliers, job'[b].pc = "install"
        PROVE  job'[b].new \in Writers /\ job'[b].new # inner' /\ Working(job[b].new)'
    <3>1. b # a /\ job'[b] = job[b] /\ job[b].pc = "install"
      BY <2>1, <2>7
    <3>2. /\ job[b].new \in Writers /\ Working(job[b].new)
          /\ job[b].new # inner /\ job[b].new # job[a].new
      BY <3>1, <2>1 DEF Served
    <3> QED BY <3>1, <3>2, <2>1, <2>2 DEF Working, Alive
  <2>8. \A b \in Appliers : job'[b].pc \in {"tell", "install"} => b # a /\ job'[b] = job[b]
    BY <2>1
  <2>9. ASSUME NEW b \in Appliers, job'[b].pc = "tell", job'[b].old # None
        PROVE  job'[b].old # inner'
    BY <2>1, <2>8, <2>9 DEF Served
  <2>10. Served'
    BY <2>6, <2>7, <2>8, <2>9 DEF Served
  <2> QED BY <2>4, <2>10
<1>12. ASSUME NEW a \in Appliers, NEW w \in Writers, Spawn(a, w) PROVE Served' /\ Guided'
  <2>1. inner' = inner /\ \A b \in Appliers : b # a => job'[b] = job[b]
    BY <1>12 DEF Spawn, Typed
  <2>2. job[a].pc = "open" /\ job'[a].pc = "install" /\ job'[a].new = w
    BY <1>12 DEF Spawn, Typed, JobRecords
  <2>3. \A v \in Writers : v # w => writer'[v] = writer[v]
    BY <1>12 DEF Spawn, Typed
  <2>4. Guided'
    BY <2>1, <2>2, <2>3 DEF Guided, Alive
  <2>5. Alive(w)' /\ ~writer'[w].told
    BY <1>12 DEF Spawn, Typed, NoWriter, Alive
  <2>6. inner # w /\ \A b \in Appliers : job[b].old # w /\ job[b].new # w
    BY <1>12 DEF Spawn, InUse
  <2>7. inner # None => Working(inner)'
    BY <2>1, <2>3, <2>6 DEF Served, Working, Alive, Typed
  <2>8. ASSUME NEW b \in Appliers, job'[b].pc = "install"
        PROVE  job'[b].new \in Writers /\ job'[b].new # inner' /\ Working(job[b].new)'
    <3>1. CASE b = a
      BY <3>1, <2>1, <2>2, <2>5, <2>6 DEF Working, Alive
    <3>2. CASE b # a
      BY <3>2, <2>8, <2>1, <2>3, <2>6 DEF Served, Working, Alive
    <3> QED BY <3>1, <3>2
  <2>9. ASSUME NEW b \in Appliers, job'[b].pc = "tell", job'[b].old # None
        PROVE  job'[b].old # inner'
    BY <2>9, <2>1, <2>2 DEF Served
  <2>10. ASSUME NEW b \in Appliers, NEW d \in Appliers, job'[d].pc = "install"
         PROVE  /\ job'[b].pc = "tell" /\ job'[b].old # None => job'[b].old # job'[d].new
                /\ job'[b].pc = "install" /\ b # d => job'[b].new # job'[d].new
    <3>1. CASE d = a
      BY <3>1, <2>1, <2>2, <2>6
    <3>2. CASE d # a /\ b = a
      BY <3>2, <2>1, <2>2, <2>6
    <3>3. CASE d # a /\ b # a
      BY <3>3, <2>10, <2>1 DEF Served
    <3> QED BY <3>1, <3>2, <3>3
  <2>11. Served'
    BY <2>1, <2>7, <2>8, <2>9, <2>10 DEF Served
  <2> QED BY <2>4, <2>11
<1> QED BY <1>1, <1>2, <1>3, <1>4, <1>5, <1>6, <1>7, <1>8, <1>9, <1>10, <1>11, <1>12
       DEF Next, WriterStep, ApplierStep

-----------------------------------------------------------------------------
(* The theorems.                                                             *)

\* A log that was never configured has no writers.
LEMMA InitIInv == StatsConstants /\ Init => IInv
<1> SUFFICES ASSUME StatsConstants, Init PROVE IInv
  OBVIOUS
<1>1. Typed
  <2>1. NoWriter \in WriterRecords /\ NoJob \in JobRecords
    BY DEF NoWriter, WriterRecords, NoJob, JobRecords
  <2> QED BY <2>1 DEF Init, Typed, NoJob
<1>2. Served /\ Guided
  BY DEF Init, NoJob, NoWriter, Served, Guided, Alive
<1> QED BY <1>1, <1>2 DEF IInv

\* Writers, jobs and the current configuration keep their types: none of the threads that
\* apply configurations adopts, or spawns a writer for, a configuration it was not given.
THEOREM StatsTyped ==
    ASSUME StatsConstants
    PROVE  Spec => []TypeOK
<1>1. IInv /\ [Next]_vars => IInv'
  BY TypedStep, HeldStep DEF IInv
<1>2. IInv => TypeOK
  BY DEF IInv, Typed, WriterRecords, JobRecords, TypeOK
<1> QED BY <1>1, <1>2, InitIInv, PTL DEF Spec

\* However many configurations are applied at once, no writer logs on for ever beside the
\* one in `inner`, and the one in `inner` runs and has no stop signal (apply_config,
\* stop_internal, start_internal).
THEOREM StatsGuided ==
    ASSUME StatsConstants
    PROVE  Spec => []NoneAdrift
<1>1. IInv /\ [Next]_vars => IInv'
  BY TypedStep, HeldStep DEF IInv
<1>2. IInv => NoneAdrift
  BY DEF IInv, Served, Guided, Working, NoneAdrift
<1> QED BY <1>1, <1>2, InitIInv, PTL DEF Spec
=============================================================================
