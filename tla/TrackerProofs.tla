---------------------------- MODULE TrackerProofs ----------------------------
(***************************************************************************)
(* Proofs about ConnectionTracker, for any records, writers, queue and     *)
(* batch sizes, and any number of threads that apply configurations at the *)
(* same time.                                                              *)
(***************************************************************************)
EXTENDS ConnectionTracker, TLAPS

WriterRecords ==
    [pc : {"off", "loop", "write", "drain"},
     queue : Seq(Records), batch : Seq(Records), told : BOOLEAN, open : BOOLEAN]
JobRecords ==
    [pc : {"idle", "take", "tell", "join", "adopt", "open", "install"},
     conf : Configs \cup {Off, None}, old : Writers \cup {None}, new : Writers \cup {None}]

Typed ==
    /\ inner \in Writers \cup {None}
    /\ writer \in [Writers -> WriterRecords]
    /\ job \in [Appliers -> JobRecords]

\* A writer that will look at its channel again before it ends.
Working(w) ==
    writer[w].pc \in {"loop", "write"} /\ ~writer[w].told /\ writer[w].open

\* Whoever sends finds a working writer: a writer is told to stop, or loses its sender,
\* only when it is neither in `inner` nor on its way there.
SendersServed ==
    /\ inner # None => Working(inner)
    /\ \A a \in Appliers :
         /\ job[a].pc = "install" =>
              job[a].new \in Writers /\ job[a].new # inner /\ Working(job[a].new)
         /\ job[a].pc = "tell" /\ job[a].old # None => job[a].old # inner
    /\ \A a, b \in Appliers : job[b].pc = "install" =>
         /\ job[a].pc = "tell" /\ job[a].old # None => job[a].old # job[b].new
         /\ job[a].pc = "install" /\ a # b => job[a].new # job[b].new

\* A batch is in the hands of write_batch or there is none.
BatchesSettled == \A w \in Writers : writer[w].pc # "write" => writer[w].batch = <<>>

\* A writer that runs is the one in `inner`, has its stop signal, or is in the hands of
\* an applier that will send it or put the writer in `inner`.
Guided ==
    \A w \in Writers : Alive(w) =>
      \/ w = inner
      \/ writer[w].told
      \/ \E a \in Appliers : \/ job[a].pc = "tell" /\ w = job[a].old
                             \/ job[a].pc = "install" /\ w = job[a].new


(* Sequences as sets.                                                        *)

\* The elements of a concatenation (record and write_batch only append).
LEMMA ConcatSet ==
    ASSUME NEW S, NEW s \in Seq(S), NEW t \in Seq(S)
    PROVE  Range(s \o t) = Range(s) \cup Range(t)
<1>1. Range(s \o t) \subseteq Range(s) \cup Range(t)
  BY DEF Range
<1>2. Range(s) \subseteq Range(s \o t)
  BY DEF Range
<1>3. Range(t) \subseteq Range(s \o t)
  <2> SUFFICES ASSUME NEW i \in DOMAIN t PROVE t[i] \in Range(s \o t)
    BY DEF Range
  <2>1. Len(s) + i \in DOMAIN (s \o t) /\ (s \o t)[Len(s) + i] = t[i]
    OBVIOUS
  <2> QED BY <2>1 DEF Range
<1> QED BY <1>1, <1>2, <1>3

\* try_send adds one element.
LEMMA AppendSet ==
    ASSUME NEW S, NEW s \in Seq(S), NEW e \in S
    PROVE  /\ Append(s, e) \in Seq(S)
           /\ Len(Append(s, e)) = Len(s) + 1
           /\ Range(Append(s, e)) = Range(s) \cup {e}
<1>1. Append(s, e) \in Seq(S) /\ Len(Append(s, e)) = Len(s) + 1
  OBVIOUS
<1>2. Append(s, e)[Len(s) + 1] = e /\ \A i \in 1..Len(s) : Append(s, e)[i] = s[i]
  OBVIOUS
<1>3. DOMAIN Append(s, e) = 1..Len(s) + 1 /\ DOMAIN s = 1..Len(s)
  OBVIOUS
<1>4. Range(Append(s, e)) \subseteq Range(s) \cup {e}
  BY <1>2, <1>3 DEF Range
<1>5. Range(s) \subseteq Range(Append(s, e))
  BY <1>2, <1>3 DEF Range
<1>6. e \in Range(Append(s, e))
  <2>1. Len(s) + 1 \in DOMAIN Append(s, e)
    BY <1>3
  <2> QED BY <2>1, <1>2 DEF Range
<1> QED BY <1>1, <1>4, <1>5, <1>6

\* Taking a batch off a channel splits what was in it.
LEMMA SplitSet ==
    ASSUME NEW S, NEW s \in Seq(S), NEW n \in 0..Len(s)
    PROVE  /\ SubSeq(s, 1, n) \in Seq(S) /\ SubSeq(s, n + 1, Len(s)) \in Seq(S)
           /\ Len(SubSeq(s, 1, n)) + Len(SubSeq(s, n + 1, Len(s))) = Len(s)
           /\ Range(s) = Range(SubSeq(s, 1, n)) \cup Range(SubSeq(s, n + 1, Len(s)))
<1> DEFINE u == SubSeq(s, 1, n)
           v == SubSeq(s, n + 1, Len(s))
<1>1. u \in Seq(S) /\ Len(u) = n /\ \A i \in 1..n : u[i] = s[i]
  OBVIOUS
<1>2. v \in Seq(S) /\ Len(v) = Len(s) - n /\ \A i \in 1..Len(s) - n : v[i] = s[n + i]
  OBVIOUS
<1>3. DOMAIN u = 1..n /\ DOMAIN v = 1..Len(s) - n /\ DOMAIN s = 1..Len(s)
  BY <1>1, <1>2
<1> HIDE DEF u, v
<1>4. Range(u) \cup Range(v) \subseteq Range(s)
  <2>1. Range(u) \subseteq Range(s)
    BY <1>1, <1>3 DEF Range
  <2>2. Range(v) \subseteq Range(s)
    <3> SUFFICES ASSUME NEW i \in DOMAIN v PROVE v[i] \in Range(s)
      BY DEF Range
    <3>1. v[i] = s[n + i] /\ n + i \in DOMAIN s
      BY <1>2, <1>3
    <3> QED BY <3>1 DEF Range
  <2> QED BY <2>1, <2>2
<1>5. ASSUME NEW i \in 1..Len(s) PROVE s[i] \in Range(u) \cup Range(v)
  <2>1. CASE i \in 1..n
    BY <2>1, <1>1, <1>3 DEF Range
  <2>2. CASE i \notin 1..n
    <3>1. i - n \in 1..Len(s) - n /\ s[n + (i - n)] = s[i]
      BY <2>2
    <3>2. v[i - n] = s[i] /\ i - n \in DOMAIN v
      BY <3>1, <1>2, <1>3
    <3> QED BY <3>2 DEF Range
  <2> QED BY <2>1, <2>2
<1>6. Range(s) = Range(u) \cup Range(v)
  BY <1>3, <1>4, <1>5, Zenon DEF Range
<1>7. Len(u) + Len(v) = Len(s)
  BY <1>1, <1>2
<1> QED BY <1>1, <1>2, <1>6, <1>7, Zenon DEF u, v

\* A batch that is taken off is as long as the channel or the batch size.
LEMMA BatchLength ==
    ASSUME NEW S, NEW s \in Seq(S)
    PROVE  (IF Len(s) < BatchSize THEN Len(s) ELSE BatchSize) \in 0..Len(s)
BY TrackerAssumption

-----------------------------------------------------------------------------
(* What every step keeps.                                                    *)

\* A job stays one when a field is set to a value of that field's set.
LEMMA JobFields ==
    ASSUME NEW j \in JobRecords
    PROVE  /\ \A p \in {"idle", "take", "tell", "join", "adopt", "open", "install"} :
                [j EXCEPT !.pc = p] \in JobRecords
           /\ \A o \in Writers \cup {None} : [j EXCEPT !.old = o] \in JobRecords
           /\ \A n \in Writers \cup {None} : [j EXCEPT !.new = n] \in JobRecords
BY DEF JobRecords

\* The same of a writer.
LEMMA WriterFields ==
    ASSUME NEW r \in WriterRecords
    PROVE  /\ \A p \in {"off", "loop", "write", "drain"} :
                [r EXCEPT !.pc = p] \in WriterRecords
           /\ \A q \in Seq(Records) : [r EXCEPT !.queue = q] \in WriterRecords
           /\ \A b \in Seq(Records) : [r EXCEPT !.batch = b] \in WriterRecords
           /\ [r EXCEPT !.told = TRUE] \in WriterRecords
           /\ [r EXCEPT !.open = FALSE] \in WriterRecords
<1> DEFINE Qs == Seq(Records)
<1> HIDE DEF Qs
<1>1. WriterRecords = [pc : {"off", "loop", "write", "drain"},
                       queue : Qs, batch : Qs, told : BOOLEAN, open : BOOLEAN]
  BY DEF WriterRecords, Qs
<1>2. \A p \in {"off", "loop", "write", "drain"} :
        [r EXCEPT !.pc = p] \in WriterRecords
  BY <1>1
<1>3. \A q \in Qs : [r EXCEPT !.queue = q] \in WriterRecords
  BY <1>1
<1>4. \A b \in Qs : [r EXCEPT !.batch = b] \in WriterRecords
  BY <1>1
<1>5. [r EXCEPT !.told = TRUE] \in WriterRecords
  BY <1>1, Zenon
<1>6. [r EXCEPT !.open = FALSE] \in WriterRecords
  BY <1>1, Zenon
<1> QED BY <1>2, <1>3, <1>4, <1>5, <1>6, Zenon DEF Qs

\* The jobs keep their type when one of them becomes another job.
LEMMA JobEntry ==
    ASSUME Typed, NEW a \in Appliers, NEW j \in JobRecords, job' = [job EXCEPT ![a] = j]
    PROVE  job' \in [Appliers -> JobRecords]
BY Zenon DEF Typed

\* The same of the writers.
LEMMA WriterEntry ==
    ASSUME Typed, NEW w \in Writers, NEW r \in WriterRecords, writer' = [writer EXCEPT ![w] = r]
    PROVE  writer' \in [Writers -> WriterRecords]
BY Zenon DEF Typed

\* A writer that has not started, or has ended.
LEMMA NoneRunning == NoWriter \in WriterRecords
<1>1. <<>> \in Seq(Records)
  OBVIOUS
<1> QED BY <1>1, Zenon DEF NoWriter, WriterRecords

\* Channels hold records, and a job names writers or none.
LEMMA TypedStep ==
    ASSUME Typed, [Next]_vars
    PROVE  Typed'
<1>0. /\ \A a \in Appliers : job[a] \in JobRecords
      /\ \A w \in Writers : writer[w] \in WriterRecords
  BY Zenon DEF Typed
<1>1. CASE UNCHANGED vars
  BY <1>1 DEF vars, Typed
<1>2. ASSUME NEW rec \in Records, Record(rec) PROVE Typed'
  <2>1. CASE writer' = [writer EXCEPT ![inner].queue = Append(@, rec)] /\ inner # None
    <3>1. Append(writer[inner].queue, rec) \in Seq(Records)
      BY <2>1 DEF Typed, WriterRecords
    <3>2. [writer[inner] EXCEPT !.queue = Append(writer[inner].queue, rec)] \in WriterRecords
      BY <1>0, <2>1, <3>1, WriterFields, Zenon DEF Typed
    <3>3. writer' = [writer EXCEPT ![inner] = [writer[inner] EXCEPT
                                                 !.queue = Append(writer[inner].queue, rec)]]
      BY <2>1
    <3>4. inner \in Writers
      BY <2>1 DEF Typed
    <3>5. writer' \in [Writers -> WriterRecords]
      BY <3>2, <3>3, <3>4, WriterEntry, Zenon
    <3> QED BY <1>2, <3>5 DEF Record, Typed
  <2>2. CASE UNCHANGED writer
    BY <1>2, <2>2 DEF Record, Typed
  <2> QED BY <1>2, <2>1, <2>2 DEF Record
<1>3. ASSUME NEW w \in Writers, Receive(w) PROVE Typed'
  <2> DEFINE n == IF Len(writer[w].queue) < BatchSize THEN Len(writer[w].queue) ELSE BatchSize
  <2>1. writer[w].queue \in Seq(Records)
    BY DEF Typed, WriterRecords
  <2>2. n \in 0..Len(writer[w].queue)
    BY <2>1, BatchLength
  <2> HIDE DEF n
  <2>3. /\ SubSeq(writer[w].queue, 1, n) \in Seq(Records)
        /\ SubSeq(writer[w].queue, n + 1, Len(writer[w].queue)) \in Seq(Records)
    BY <2>1, <2>2, SplitSet
  <2>4. writer' = [writer EXCEPT ![w].pc = "write",
                                 ![w].batch = SubSeq(writer[w].queue, 1, n),
                                 ![w].queue = SubSeq(@, n + 1, Len(@))]
    BY <1>3 DEF Receive, n
  <2> DEFINE b == SubSeq(writer[w].queue, 1, n)
             q == SubSeq(writer[w].queue, n + 1, Len(writer[w].queue))
  <2> DEFINE r1 == [writer[w] EXCEPT !.pc = "write"]
             r2 == [r1 EXCEPT !.batch = b]
             r3 == [r2 EXCEPT !.queue = q]
  <2>5. writer' = [writer EXCEPT ![w] = r3]
    BY <2>4, Zenon
  <2>6. b \in Seq(Records) /\ q \in Seq(Records)
    BY <2>3
  <2> HIDE DEF b, q
  <2>8. r1 \in WriterRecords
    BY <1>0, WriterFields, Zenon
  <2> HIDE DEF r1
  <2>9. r2 \in WriterRecords
    BY <2>6, <2>8, WriterFields, Zenon
  <2> HIDE DEF r2
  <2>10. r3 \in WriterRecords
    BY <2>6, <2>9, WriterFields, Zenon
  <2> HIDE DEF r3
  <2>7. writer' \in [Writers -> WriterRecords]
    BY <2>5, <2>10, WriterEntry, Zenon
  <2> QED BY <1>3, <2>7 DEF Receive, Typed
<1>4. ASSUME NEW w \in Writers, WriteBatch(w) PROVE Typed'
  <2>1. <<>> \in Seq(Records)
    OBVIOUS
  <2> DEFINE r1 == [writer[w] EXCEPT !.pc = "loop"]
             r2 == [r1 EXCEPT !.batch = <<>>]
  <2>2. writer' = [writer EXCEPT ![w] = r2]
    BY <1>4, Zenon DEF WriteBatch
  <2>3. r1 \in WriterRecords
    BY <1>0, WriterFields, Zenon
  <2> HIDE DEF r1
  <2>4. r2 \in WriterRecords
    BY <2>1, <2>3, WriterFields, Zenon
  <2> HIDE DEF r2
  <2>5. writer' \in [Writers -> WriterRecords]
    BY <2>2, <2>4, WriterEntry, Zenon
  <2> QED BY <1>4, <2>5 DEF WriteBatch, Typed
<1>5. ASSUME NEW w \in Writers, LeaveLoop(w) PROVE Typed'
  <2>1. writer' = [writer EXCEPT ![w] = [writer[w] EXCEPT !.pc = "drain"]]
    BY <1>5 DEF LeaveLoop
  <2>2. writer' \in [Writers -> WriterRecords]
    BY <1>0, <2>1, WriterFields, WriterEntry, Zenon
  <2> QED BY <1>5, <2>2, Zenon DEF LeaveLoop, Typed
<1>6. ASSUME NEW w \in Writers, Drain(w) PROVE Typed'
  <2>1. writer' \in [Writers -> WriterRecords]
    BY <1>6, NoneRunning, WriterEntry, Zenon DEF Drain
  <2> QED BY <1>6, <2>1 DEF Drain, Typed
<1>7. ASSUME NEW a \in Appliers, NEW c \in Configs \cup {Off}, Apply(a, c) PROVE Typed'
  <2>1. [NoJob EXCEPT !.pc = "take", !.conf = c] \in JobRecords
    BY Zenon DEF JobRecords, NoJob
  <2>2. job' \in [Appliers -> JobRecords]
    BY <1>7, <2>1, JobEntry, Zenon DEF Apply
  <2> QED BY <1>7, <2>2, Zenon DEF Apply, Typed
<1>8. ASSUME NEW a \in Appliers, Shutdown(a) PROVE Typed'
  BY <1>8 DEF Shutdown, Typed, JobRecords, NoJob
<1>9. ASSUME NEW a \in Appliers, Take(a) PROVE Typed'
  <2> DEFINE j1 == [job[a] EXCEPT !.pc = "tell"]
             j2 == [j1 EXCEPT !.old = inner]
  <2>1. job' = [job EXCEPT ![a] = j2]
    BY <1>9, Zenon DEF Take
  <2>2. j1 \in JobRecords
    BY <1>0, JobFields, Zenon
  <2> HIDE DEF j1
  <2>3. j2 \in JobRecords
    BY <2>2, JobFields, Zenon DEF Typed
  <2> HIDE DEF j2
  <2>4. job' \in [Appliers -> JobRecords]
    BY <2>1, <2>3, JobEntry, Zenon
  <2>5. inner' = None /\ UNCHANGED writer
    BY <1>9 DEF Take
  <2> QED BY <2>4, <2>5 DEF Typed
<1>10. ASSUME NEW a \in Appliers, Tell(a) PROVE Typed'
  <2>1. job' \in [Appliers -> JobRecords]
    BY <1>10 DEF Tell, Typed, JobRecords
  <2>2. writer' \in [Writers -> WriterRecords]
    <3>1. CASE job[a].old = None
      BY <1>10, <3>1 DEF Tell, Typed
    <3>2. CASE job[a].old # None
      <4>1. job[a].old \in Writers
        BY <3>2 DEF Typed, JobRecords
      <4> DEFINE r1 == [writer[job[a].old] EXCEPT !.told = TRUE]
                 r2 == [r1 EXCEPT !.open = FALSE]
      <4>2. writer' = [writer EXCEPT ![job[a].old] = r2]
        BY <1>10, <3>2, Zenon DEF Tell
      <4>3. r1 \in WriterRecords
        BY <1>0, <4>1, WriterFields, Zenon
      <4> HIDE DEF r1
      <4>4. r2 \in WriterRecords
        BY <4>3, WriterFields, Zenon
      <4> HIDE DEF r2
      <4> QED BY <4>1, <4>2, <4>4, WriterEntry, Zenon
    <3> QED BY <3>1, <3>2
  <2> QED BY <1>10, <2>1, <2>2 DEF Tell, Typed
<1>11. ASSUME NEW a \in Appliers, Join(a) PROVE Typed'
  <2> DEFINE j1 == [job[a] EXCEPT !.pc = "adopt"]
             j2 == [j1 EXCEPT !.old = None]
             j3 == IF job[a].conf = None THEN NoJob ELSE j2
  <2>1. job' = [job EXCEPT ![a] = j3]
    BY <1>11 DEF Join
  <2>2. j1 \in JobRecords
    BY <1>0, JobFields, Zenon
  <2> HIDE DEF j1
  <2>3. j2 \in JobRecords
    BY <2>2, JobFields, Zenon
  <2> HIDE DEF j2
  <2>4. NoJob \in JobRecords
    BY DEF JobRecords, NoJob
  <2>5. j3 \in JobRecords
    BY <2>3, <2>4, Zenon
  <2> HIDE DEF j3
  <2>6. job' \in [Appliers -> JobRecords]
    BY <2>1, <2>5, JobEntry, Zenon
  <2> QED BY <1>11, <2>6, Zenon DEF Join, Typed
<1>12. ASSUME NEW a \in Appliers, Adopt(a) PROVE Typed'
  BY <1>12 DEF Adopt, Typed, JobRecords, NoJob
<1>13. ASSUME NEW a \in Appliers, OpenFails(a) PROVE Typed'
  BY <1>13 DEF OpenFails, Typed, JobRecords, NoJob
<1>14. ASSUME NEW a \in Appliers, Install(a) PROVE Typed'
  <2>1. job' \in [Appliers -> JobRecords]
    BY <1>14 DEF Install, Typed, JobRecords, NoJob
  <2>2. writer' \in [Writers -> WriterRecords]
    <3>1. CASE inner = None
      BY <1>14, <3>1 DEF Install, Typed
    <3>2. CASE inner # None
      <4>1. inner \in Writers
        BY <3>2 DEF Typed
      <4> DEFINE r1 == [writer[inner] EXCEPT !.told = TRUE]
                 r2 == [r1 EXCEPT !.open = FALSE]
      <4>2. writer' = [writer EXCEPT ![inner] = r2]
        BY <1>14, <3>2, Zenon DEF Install
      <4>3. r1 \in WriterRecords
        BY <1>0, <4>1, WriterFields, Zenon
      <4> HIDE DEF r1
      <4>4. r2 \in WriterRecords
        BY <4>3, WriterFields, Zenon
      <4> HIDE DEF r2
      <4> QED BY <4>1, <4>2, <4>4, WriterEntry, Zenon
    <3> QED BY <3>1, <3>2
  <2>3. inner' \in Writers \cup {None}
    BY <1>14 DEF Install, Typed, JobRecords
  <2> QED BY <1>14, <2>1, <2>2, <2>3 DEF Install, Typed
<1>15. ASSUME NEW a \in Appliers, NEW w \in Writers, Spawn(a, w) PROVE Typed'
  <2>1. job' \in [Appliers -> JobRecords]
    <3> DEFINE j1 == [job[a] EXCEPT !.pc = "install"]
               j2 == [j1 EXCEPT !.new = w]
    <3>1. job' = [job EXCEPT ![a] = j2]
      BY <1>15, Zenon DEF Spawn
    <3>2. j1 \in JobRecords
      BY <1>0, JobFields, Zenon
    <3> HIDE DEF j1
    <3>3. j2 \in JobRecords
      BY <3>2, JobFields, Zenon
    <3> HIDE DEF j2
    <3> QED BY <3>1, <3>3, JobEntry, Zenon
  <2>2. [NoWriter EXCEPT !.pc = "loop", !.open = TRUE] \in WriterRecords
    <3>1. <<>> \in Seq(Records)
      OBVIOUS
    <3> QED BY <3>1, Zenon DEF WriterRecords, NoWriter
  <2>3. writer' \in [Writers -> WriterRecords]
    BY <1>15, <2>2 DEF Spawn, Typed
  <2> QED BY <1>15, <2>1, <2>3 DEF Spawn, Typed
<1> QED BY <1>1, <1>2, <1>3, <1>4, <1>5, <1>6, <1>7, <1>8, <1>9,
         <1>10, <1>11, <1>12, <1>13, <1>14, <1>15
       DEF Next, WriterStep, ApplierStep

\* stop_internal takes a writer out of `inner` before it tells it, so no step stops a
\* writer that a sender may still find.
LEMMA ServedStep ==
    ASSUME Typed, SendersServed, [Next]_vars
    PROVE  SendersServed'
<1>1. CASE UNCHANGED vars
  BY <1>1 DEF vars, SendersServed, Working
<1>2. ASSUME NEW rec \in Records, Record(rec) PROVE SendersServed'
  <2>1. \A v \in Writers : Working(v) => Working(v)'
    <3>1. CASE UNCHANGED writer
      BY <3>1 DEF Working
    <3>2. CASE writer' = [writer EXCEPT ![inner].queue = Append(@, rec)] /\ inner # None
      BY <3>2 DEF Typed, WriterRecords, Working
    <3> QED BY <1>2, <3>1, <3>2 DEF Record
  <2>2. UNCHANGED <<inner, job>>
    BY <1>2 DEF Record
  <2> QED BY <2>1, <2>2 DEF SendersServed, Typed
<1>3. ASSUME NEW w \in Writers, Receive(w) PROVE SendersServed'
  <2>1. \A v \in Writers : Working(v) => Working(v)'
    BY <1>3 DEF Receive, Typed, WriterRecords, Working
  <2>2. UNCHANGED <<inner, job>>
    BY <1>3 DEF Receive
  <2> QED BY <2>1, <2>2 DEF SendersServed, Typed
<1>4. ASSUME NEW w \in Writers, WriteBatch(w) PROVE SendersServed'
  <2>1. \A v \in Writers : Working(v) => Working(v)'
    BY <1>4 DEF WriteBatch, Typed, WriterRecords, Working
  <2>2. UNCHANGED <<inner, job>>
    BY <1>4 DEF WriteBatch
  <2> QED BY <2>1, <2>2 DEF SendersServed, Typed
<1>5. ASSUME NEW w \in Writers, LeaveLoop(w) PROVE SendersServed'
  <2>1. \A v \in Writers : Working(v) => Working(v)'
    BY <1>5 DEF LeaveLoop, Typed, WriterRecords, Working
  <2>2. UNCHANGED <<inner, job>>
    BY <1>5 DEF LeaveLoop
  <2> QED BY <2>1, <2>2 DEF SendersServed, Typed
<1>6. ASSUME NEW w \in Writers, Drain(w) PROVE SendersServed'
  <2>1. \A v \in Writers : Working(v) => Working(v)'
    BY <1>6 DEF Drain, Typed, WriterRecords, Working
  <2>2. UNCHANGED <<inner, job>>
    BY <1>6 DEF Drain
  <2> QED BY <2>1, <2>2 DEF SendersServed, Typed
<1>7. ASSUME NEW a \in Appliers, NEW c \in Configs \cup {Off}, Apply(a, c) PROVE SendersServed'
  <2>1. UNCHANGED <<inner, writer>>
    BY <1>7 DEF Apply
  <2>2. \A b \in Appliers : b # a => job'[b] = job[b]
    BY <1>7 DEF Apply, Typed
  <2>3. job'[a].pc \notin {"tell", "install"}
    BY <1>7 DEF Apply, Typed, JobRecords, NoJob
  <2> QED BY <2>1, <2>2, <2>3 DEF SendersServed, Working
<1>8. ASSUME NEW a \in Appliers, Shutdown(a) PROVE SendersServed'
  <2>1. UNCHANGED <<inner, writer>>
    BY <1>8 DEF Shutdown
  <2>2. \A b \in Appliers : b # a => job'[b] = job[b]
    BY <1>8 DEF Shutdown, Typed
  <2>3. job'[a].pc \notin {"tell", "install"}
    BY <1>8 DEF Shutdown, Typed, JobRecords, NoJob
  <2> QED BY <2>1, <2>2, <2>3 DEF SendersServed, Working
<1>9. ASSUME NEW a \in Appliers, Take(a) PROVE SendersServed'
  <2>1. UNCHANGED writer /\ inner' = None
    BY <1>9 DEF Take
  <2>2. \A b \in Appliers : b # a => job'[b] = job[b]
    BY <1>9 DEF Take, Typed
  <2>3. job'[a].pc = "tell" /\ job'[a].old = inner
    BY <1>9 DEF Take, Typed, JobRecords
  <2>4. None \notin Writers
    BY TrackerAssumption
  <2> QED BY <2>1, <2>2, <2>3, <2>4 DEF SendersServed, Working
<1>10. ASSUME NEW a \in Appliers, Tell(a) PROVE SendersServed'
  <2>1. inner' = inner
    BY <1>10 DEF Tell
  <2>2. \A b \in Appliers : b # a => job'[b] = job[b]
    BY <1>10 DEF Tell, Typed
  <2>3. job'[a].pc = "join" /\ job[a].pc = "tell"
    BY <1>10 DEF Tell, Typed, JobRecords
  <2>4. \A v \in Writers : v # job[a].old => writer'[v] = writer[v]
    BY <1>10 DEF Tell, Typed
  <2>5. None \notin Writers /\ inner \in Writers \cup {None}
    BY TrackerAssumption DEF Typed
  <2>6. inner # None => Working(inner)'
    BY <2>1, <2>3, <2>4, <2>5 DEF SendersServed, Working
  <2>7. ASSUME NEW b \in Appliers, job'[b].pc = "install" PROVE Working(job[b].new)'
    <3>1. b # a /\ job'[b] = job[b] /\ job[b].pc = "install"
      BY <2>2, <2>3, <2>7
    <3>2. job[b].new \in Writers /\ Working(job[b].new) /\ job[b].new # job[a].old
      BY <3>1, <2>3, <2>5 DEF SendersServed
    <3> QED BY <3>1, <3>2, <2>4 DEF Working
  <2>8. \A b \in Appliers : job'[b].pc \in {"tell", "install"} => b # a /\ job'[b] = job[b]
    BY <2>2, <2>3
  <2> QED BY <2>1, <2>6, <2>7, <2>8 DEF SendersServed
<1>11. ASSUME NEW a \in Appliers, Join(a) PROVE SendersServed'
  <2>1. UNCHANGED <<inner, writer>>
    BY <1>11 DEF Join
  <2>2. \A b \in Appliers : b # a => job'[b] = job[b]
    BY <1>11 DEF Join, Typed
  <2>3. job'[a].pc \notin {"tell", "install"}
    BY <1>11 DEF Join, Typed, JobRecords, NoJob
  <2> QED BY <2>1, <2>2, <2>3 DEF SendersServed, Working
<1>12. ASSUME NEW a \in Appliers, Adopt(a) PROVE SendersServed'
  <2>1. UNCHANGED <<inner, writer>>
    BY <1>12 DEF Adopt
  <2>2. \A b \in Appliers : b # a => job'[b] = job[b]
    BY <1>12 DEF Adopt, Typed
  <2>3. job'[a].pc \notin {"tell", "install"}
    BY <1>12 DEF Adopt, Typed, JobRecords, NoJob
  <2> QED BY <2>1, <2>2, <2>3 DEF SendersServed, Working
<1>13. ASSUME NEW a \in Appliers, OpenFails(a) PROVE SendersServed'
  <2>1. UNCHANGED <<inner, writer>>
    BY <1>13 DEF OpenFails
  <2>2. \A b \in Appliers : b # a => job'[b] = job[b]
    BY <1>13 DEF OpenFails, Typed
  <2>3. job'[a].pc \notin {"tell", "install"}
    BY <1>13 DEF OpenFails, Typed, JobRecords, NoJob
  <2> QED BY <2>1, <2>2, <2>3 DEF SendersServed, Working
<1>14. ASSUME NEW a \in Appliers, Install(a) PROVE SendersServed'
  <2>1. job[a].pc = "install" /\ inner' = job[a].new
    BY <1>14 DEF Install
  <2>2. \A b \in Appliers : b # a => job'[b] = job[b]
    BY <1>14 DEF Install, Typed
  <2>3. job'[a].pc = "idle"
    BY <1>14 DEF Install, Typed, NoJob
  <2>4. \A v \in Writers : v # inner => writer'[v] = writer[v]
    BY <1>14 DEF Install, Typed
  <2>5. job[a].new \in Writers /\ job[a].new # inner /\ Working(job[a].new)
    BY <2>1 DEF SendersServed
  <2>6. Working(inner)'
    BY <2>1, <2>4, <2>5 DEF Working
  <2>7. ASSUME NEW b \in Appliers, job'[b].pc = "install"
        PROVE  job'[b].new \in Writers /\ job'[b].new # inner' /\ Working(job[b].new)'
    <3>1. b # a /\ job'[b] = job[b] /\ job[b].pc = "install"
      BY <2>2, <2>3, <2>7
    <3>2. /\ job[b].new \in Writers /\ Working(job[b].new)
          /\ job[b].new # inner /\ job[b].new # job[a].new
      BY <3>1, <2>1 DEF SendersServed
    <3> QED BY <3>1, <3>2, <2>1, <2>4 DEF Working
  <2>8. \A b \in Appliers : job'[b].pc \in {"tell", "install"} => b # a /\ job'[b] = job[b]
    BY <2>2, <2>3
  <2>9. ASSUME NEW b \in Appliers, job'[b].pc = "tell", job'[b].old # None
        PROVE  job'[b].old # inner'
    BY <2>1, <2>8, <2>9 DEF SendersServed
  <2> QED BY <2>6, <2>7, <2>8, <2>9 DEF SendersServed
<1>15. ASSUME NEW a \in Appliers, NEW w \in Writers, Spawn(a, w) PROVE SendersServed'
  <2>1. inner' = inner /\ job[a].pc = "open"
    BY <1>15 DEF Spawn
  <2>2. \A b \in Appliers : b # a => job'[b] = job[b]
    BY <1>15 DEF Spawn, Typed
  <2>3. job'[a].pc = "install" /\ job'[a].new = w
    BY <1>15 DEF Spawn, Typed, JobRecords
  <2>4. \A v \in Writers : v # w => writer'[v] = writer[v]
    BY <1>15 DEF Spawn, Typed
  <2>5. writer'[w].pc = "loop" /\ writer'[w].told = FALSE /\ writer'[w].open = TRUE
    BY <1>15 DEF Spawn, Typed, NoWriter
  <2>6. inner # w /\ \A b \in Appliers : job[b].old # w /\ job[b].new # w
    BY <1>15 DEF Spawn, InUse
  <2>7. inner # None => Working(inner)'
    BY <2>1, <2>4, <2>6 DEF SendersServed, Working, Typed
  <2>8. ASSUME NEW b \in Appliers, job'[b].pc = "install"
        PROVE  job'[b].new \in Writers /\ job'[b].new # inner' /\ Working(job[b].new)'
    <3>1. CASE b = a
      BY <3>1, <2>1, <2>3, <2>5, <2>6 DEF Working
    <3>2. CASE b # a
      BY <3>2, <2>8, <2>1, <2>2, <2>4, <2>6 DEF SendersServed, Working
    <3> QED BY <3>1, <3>2
  <2>9. ASSUME NEW b \in Appliers, job'[b].pc = "tell", job'[b].old # None
        PROVE  job'[b].old # inner'
    BY <2>9, <2>1, <2>2, <2>3 DEF SendersServed
  <2>10. ASSUME NEW b \in Appliers, NEW d \in Appliers, job'[d].pc = "install"
         PROVE  /\ job'[b].pc = "tell" /\ job'[b].old # None => job'[b].old # job'[d].new
                /\ job'[b].pc = "install" /\ b # d => job'[b].new # job'[d].new
    <3>1. CASE d = a
      BY <3>1, <2>2, <2>3, <2>6
    <3>2. CASE d # a /\ b = a
      BY <3>2, <2>2, <2>3, <2>6
    <3>3. CASE d # a /\ b # a
      BY <3>3, <2>10, <2>2 DEF SendersServed
    <3> QED BY <3>1, <3>2, <3>3
  <2> QED BY <2>1, <2>7, <2>8, <2>9, <2>10 DEF SendersServed
<1> QED BY <1>1, <1>2, <1>3, <1>4, <1>5, <1>6, <1>7, <1>8, <1>9,
         <1>10, <1>11, <1>12, <1>13, <1>14, <1>15
       DEF Next, WriterStep, ApplierStep

\* A record is held by a writer that runs.
Held(rec) ==
    \E w \in Writers :
      Alive(w) /\ rec \in Range(writer[w].queue) \cup Range(writer[w].batch)
Accounted == \A rec \in accepted \ settled : Held(rec)

\* write_batch answers for the whole batch, and nothing is taken back.
LEMMA CommitSettles ==
    ASSUME NEW b, Commit(b)
    PROVE  /\ Range(b) \subseteq settled'
           /\ settled \subseteq settled'
BY DEF Commit

\* Nothing is in the empty channel.
LEMMA EmptySet == Range(<<>>) = {}
BY DEF Range

\* writer_loop forgets a batch only once write_batch has answered for it.
LEMMA SettledStep ==
    ASSUME Typed, BatchesSettled, [Next]_vars
    PROVE  BatchesSettled'
<1>1. CASE UNCHANGED vars
  BY <1>1 DEF vars, BatchesSettled
<1>2. ASSUME NEW rec \in Records, Record(rec) PROVE BatchesSettled'
  <2>1. \A v \in Writers : writer'[v].pc = writer[v].pc /\ writer'[v].batch = writer[v].batch
    <3>1. CASE UNCHANGED writer
      BY <3>1
    <3>2. CASE writer' = [writer EXCEPT ![inner].queue = Append(@, rec)] /\ inner # None
      BY <3>2 DEF Typed, WriterRecords
    <3> QED BY <1>2, <3>1, <3>2 DEF Record
  <2> QED BY <2>1 DEF BatchesSettled
<1>3. ASSUME NEW w \in Writers, Receive(w) PROVE BatchesSettled'
  <2>1. \A v \in Writers : v # w => writer'[v] = writer[v]
    BY <1>3 DEF Receive, Typed
  <2>2. writer'[w].pc = "write"
    BY <1>3 DEF Receive, Typed, WriterRecords
  <2> QED BY <2>1, <2>2 DEF BatchesSettled
<1>4. ASSUME NEW w \in Writers, WriteBatch(w) PROVE BatchesSettled'
  <2>1. \A v \in Writers : v # w => writer'[v] = writer[v]
    BY <1>4 DEF WriteBatch, Typed
  <2>2. writer'[w].batch = <<>>
    BY <1>4 DEF WriteBatch, Typed, WriterRecords
  <2> QED BY <2>1, <2>2 DEF BatchesSettled
<1>5. ASSUME NEW w \in Writers, LeaveLoop(w) PROVE BatchesSettled'
  <2>1. \A v \in Writers : v # w => writer'[v] = writer[v]
    BY <1>5 DEF LeaveLoop, Typed
  <2>2. writer[w].pc = "loop" /\ writer'[w].pc = "drain" /\ writer'[w].batch = writer[w].batch
    BY <1>5 DEF LeaveLoop, Typed, WriterRecords
  <2> QED BY <2>1, <2>2 DEF BatchesSettled
<1>6. ASSUME NEW w \in Writers, Drain(w) PROVE BatchesSettled'
  <2>1. \A v \in Writers : v # w => writer'[v] = writer[v]
    BY <1>6 DEF Drain, Typed
  <2>2. writer'[w].batch = <<>>
    BY <1>6 DEF Drain, Typed, NoWriter
  <2> QED BY <2>1, <2>2 DEF BatchesSettled
<1>7. ASSUME NEW a \in Appliers, NEW c \in Configs \cup {Off}, Apply(a, c) PROVE BatchesSettled'
  BY <1>7 DEF Apply, BatchesSettled
<1>8. ASSUME NEW a \in Appliers, Shutdown(a) PROVE BatchesSettled'
  BY <1>8 DEF Shutdown, BatchesSettled
<1>9. ASSUME NEW a \in Appliers, Take(a) PROVE BatchesSettled'
  BY <1>9 DEF Take, BatchesSettled
<1>10. ASSUME NEW a \in Appliers, Tell(a) PROVE BatchesSettled'
  <2>1. \A v \in Writers : writer'[v].pc = writer[v].pc /\ writer'[v].batch = writer[v].batch
    BY <1>10 DEF Tell, Typed, WriterRecords, JobRecords
  <2> QED BY <2>1 DEF BatchesSettled
<1>11. ASSUME NEW a \in Appliers, Join(a) PROVE BatchesSettled'
  BY <1>11 DEF Join, BatchesSettled
<1>12. ASSUME NEW a \in Appliers, Adopt(a) PROVE BatchesSettled'
  BY <1>12 DEF Adopt, BatchesSettled
<1>13. ASSUME NEW a \in Appliers, OpenFails(a) PROVE BatchesSettled'
  BY <1>13 DEF OpenFails, BatchesSettled
<1>14. ASSUME NEW a \in Appliers, Install(a) PROVE BatchesSettled'
  <2>1. \A v \in Writers : writer'[v].pc = writer[v].pc /\ writer'[v].batch = writer[v].batch
    BY <1>14 DEF Install, Typed, WriterRecords
  <2> QED BY <2>1 DEF BatchesSettled
<1>15. ASSUME NEW a \in Appliers, NEW w \in Writers, Spawn(a, w) PROVE BatchesSettled'
  <2>1. \A v \in Writers : v # w => writer'[v] = writer[v]
    BY <1>15 DEF Spawn, Typed
  <2>2. writer'[w].pc = "loop" /\ writer'[w].batch = <<>>
    BY <1>15 DEF Spawn, Typed, NoWriter
  <2> QED BY <2>1, <2>2 DEF BatchesSettled
<1> QED BY <1>1, <1>2, <1>3, <1>4, <1>5, <1>6, <1>7, <1>8, <1>9,
         <1>10, <1>11, <1>12, <1>13, <1>14, <1>15
       DEF Next, WriterStep, ApplierStep

\* Whatever a writer, a sender or a restart does, a record the channel took stays with a
\* writer that runs until it is settled.
LEMMA AccountedStep ==
    ASSUME Typed, SendersServed, BatchesSettled, Accounted, [Next]_vars
    PROVE  Accounted'
<1>1. CASE UNCHANGED vars
  BY <1>1 DEF vars, log, Accounted, Held, Alive
<1>2. ASSUME NEW rec \in Records, Record(rec) PROVE Accounted'
  <2>1. CASE UNCHANGED <<writer, accepted>>
    BY <1>2, <2>1 DEF Record, Accounted, Held, Alive
  <2>2. CASE /\ inner # None
             /\ writer' = [writer EXCEPT ![inner].queue = Append(@, rec)]
             /\ accepted' = accepted \cup {rec}
    <3>1. inner \in Writers /\ Alive(inner)
      BY <2>2 DEF SendersServed, Working, Alive, Typed
    <3>2. Range(writer'[inner].queue) = Range(writer[inner].queue) \cup {rec}
      <4>1. writer'[inner].queue = Append(writer[inner].queue, rec)
        BY <2>2, <3>1 DEF Typed, WriterRecords
      <4>2. writer[inner].queue \in Seq(Records)
        BY <3>1 DEF Typed, WriterRecords
      <4> QED BY <4>1, <4>2, AppendSet
    <3>3. writer'[inner].pc = writer[inner].pc /\ writer'[inner].batch = writer[inner].batch
      BY <2>2, <3>1 DEF Typed, WriterRecords
    <3>4. \A v \in Writers : v # inner => writer'[v] = writer[v]
      BY <2>2, <3>1 DEF Typed
    <3>5. UNCHANGED settled
      BY <1>2 DEF Record
    <3>6. \A r : Held(r) => Held(r)'
      BY <3>1, <3>2, <3>3, <3>4 DEF Held, Alive
    <3>7. Held(rec)'
      BY <3>1, <3>2, <3>3 DEF Held, Alive
    <3> QED BY <2>2, <3>5, <3>6, <3>7 DEF Accounted
  <2> QED BY <1>2, <2>1, <2>2 DEF Record
<1>3. ASSUME NEW w \in Writers, Receive(w) PROVE Accounted'
  <2>1. /\ UNCHANGED <<accepted, settled>>
        /\ \A v \in Writers : v # w => writer'[v] = writer[v]
    BY <1>3 DEF Receive, Typed, log
  <2> DEFINE n == IF Len(writer[w].queue) < BatchSize THEN Len(writer[w].queue) ELSE BatchSize
  <2>2. writer[w].queue \in Seq(Records)
    BY DEF Typed, WriterRecords
  <2>3. n \in 0..Len(writer[w].queue)
    BY <2>2, BatchLength
  <2>4. /\ writer[w].pc = "loop" /\ writer'[w].pc = "write"
        /\ writer'[w].batch = SubSeq(writer[w].queue, 1, n)
        /\ writer'[w].queue = SubSeq(writer[w].queue, n + 1, Len(writer[w].queue))
    BY <1>3, Zenon DEF Receive, Typed, WriterRecords
  <2> HIDE DEF n
  <2>5. Range(writer[w].queue) = Range(writer'[w].batch) \cup Range(writer'[w].queue)
    <3>1. Range(writer[w].queue) =
            Range(SubSeq(writer[w].queue, 1, n))
              \cup Range(SubSeq(writer[w].queue, n + 1, Len(writer[w].queue)))
      BY <2>2, <2>3, SplitSet, Zenon
    <3> QED BY <2>4, <3>1, Zenon
  <2>6. Range(writer[w].batch) = {}
    BY <2>4, EmptySet DEF BatchesSettled
  <2>7. \A r : Held(r) => Held(r)'
    BY <2>1, <2>4, <2>5, <2>6, Zenon DEF Held, Alive
  <2> QED BY <2>1, <2>7 DEF Accounted
<1>4. ASSUME NEW w \in Writers, WriteBatch(w) PROVE Accounted'
  <2>1. writer'[w].pc = "loop" /\ writer'[w].queue = writer[w].queue
    BY <1>4 DEF WriteBatch, Typed, WriterRecords
  <2>2. \A v \in Writers : v # w => writer'[v] = writer[v]
    BY <1>4 DEF WriteBatch, Typed
  <2>3. /\ accepted' = accepted /\ settled \subseteq settled'
        /\ Range(writer[w].batch) \subseteq settled'
    BY <1>4, CommitSettles DEF WriteBatch
  <2>4. \A r : Held(r) /\ r \notin settled' => Held(r)'
    BY <2>1, <2>2, <2>3 DEF Held, Alive
  <2> QED BY <2>3, <2>4 DEF Accounted
<1>5. ASSUME NEW w \in Writers, LeaveLoop(w) PROVE Accounted'
  <2>1. /\ UNCHANGED <<accepted, settled>>
        /\ \A v \in Writers : v # w => writer'[v] = writer[v]
    BY <1>5 DEF LeaveLoop, Typed, log
  <2>2. /\ writer[w].pc = "loop" /\ writer'[w].pc = "drain"
        /\ writer'[w].queue = writer[w].queue /\ writer'[w].batch = writer[w].batch
    BY <1>5 DEF LeaveLoop, Typed, WriterRecords
  <2>3. \A r : Held(r) => Held(r)'
    BY <2>1, <2>2 DEF Held, Alive
  <2> QED BY <2>1, <2>3 DEF Accounted
<1>6. ASSUME NEW w \in Writers, Drain(w) PROVE Accounted'
  <2>1. \A v \in Writers : v # w => writer'[v] = writer[v]
    BY <1>6 DEF Drain, Typed
  <2>2. Range(writer[w].batch) = {}
    BY <1>6, EmptySet DEF Drain, BatchesSettled
  <2>3. /\ Range(writer[w].queue) \subseteq settled'
        /\ settled \subseteq settled'
    BY <1>6, CommitSettles DEF Drain
  <2>4. accepted' = accepted
    BY <1>6 DEF Drain
  <2>5. \A r : Held(r) /\ r \notin settled' => Held(r)'
    BY <2>1, <2>2, <2>3 DEF Held, Alive
  <2> QED BY <2>3, <2>4, <2>5 DEF Accounted
<1>7. ASSUME NEW a \in Appliers, NEW c \in Configs \cup {Off}, Apply(a, c) PROVE Accounted'
  BY <1>7 DEF Apply, log, Accounted, Held, Alive
<1>8. ASSUME NEW a \in Appliers, Shutdown(a) PROVE Accounted'
  BY <1>8 DEF Shutdown, log, Accounted, Held, Alive
<1>9. ASSUME NEW a \in Appliers, Take(a) PROVE Accounted'
  BY <1>9 DEF Take, log, Accounted, Held, Alive
<1>10. ASSUME NEW a \in Appliers, Tell(a) PROVE Accounted'
  <2>1. \A v \in Writers : /\ writer'[v].pc = writer[v].pc
                            /\ writer'[v].queue = writer[v].queue
                            /\ writer'[v].batch = writer[v].batch
    BY <1>10 DEF Tell, Typed, WriterRecords, JobRecords
  <2>2. UNCHANGED <<accepted, settled>>
    BY <1>10 DEF Tell, log
  <2> QED BY <2>1, <2>2 DEF Accounted, Held, Alive
<1>11. ASSUME NEW a \in Appliers, Join(a) PROVE Accounted'
  BY <1>11 DEF Join, log, Accounted, Held, Alive
<1>12. ASSUME NEW a \in Appliers, Adopt(a) PROVE Accounted'
  BY <1>12 DEF Adopt, log, Accounted, Held, Alive
<1>13. ASSUME NEW a \in Appliers, OpenFails(a) PROVE Accounted'
  BY <1>13 DEF OpenFails, log, Accounted, Held, Alive
<1>14. ASSUME NEW a \in Appliers, Install(a) PROVE Accounted'
  <2>1. \A v \in Writers : /\ writer'[v].pc = writer[v].pc
                            /\ writer'[v].queue = writer[v].queue
                            /\ writer'[v].batch = writer[v].batch
    BY <1>14 DEF Install, Typed, WriterRecords
  <2>2. UNCHANGED <<accepted, settled>>
    BY <1>14 DEF Install, log
  <2> QED BY <2>1, <2>2 DEF Accounted, Held, Alive
<1>15. ASSUME NEW a \in Appliers, NEW w \in Writers, Spawn(a, w) PROVE Accounted'
  <2>1. /\ UNCHANGED <<accepted, settled>>
        /\ \A v \in Writers : v # w => writer'[v] = writer[v]
    BY <1>15 DEF Spawn, Typed, log
  <2>2. ~Alive(w)
    BY <1>15 DEF Spawn, InUse
  <2>3. \A r : Held(r) => Held(r)'
    BY <2>1, <2>2 DEF Held, Alive
  <2> QED BY <2>1, <2>3 DEF Accounted
<1> QED BY <1>1, <1>2, <1>3, <1>4, <1>5, <1>6, <1>7, <1>8, <1>9,
         <1>10, <1>11, <1>12, <1>13, <1>14, <1>15
       DEF Next, WriterStep, ApplierStep
\* A step of a writer or a sender, which starts no writer and takes no signal back.
LEMMA SameGuides ==
    ASSUME Guided, UNCHANGED <<inner, job>>,
           \A v \in Writers : (Alive(v)' => Alive(v)) /\ writer'[v].told = writer[v].told
    PROVE  Guided'
BY DEF Guided

\* A step of an applier that holds no writer to tell or to install.
LEMMA OthersGuide ==
    ASSUME Guided, NEW a \in Appliers, UNCHANGED <<inner, writer>>,
           job[a].pc \notin {"tell", "install"},
           \A b \in Appliers : b # a => job'[b] = job[b]
    PROVE  Guided'
BY DEF Guided, Alive

\* Whoever takes a writer out of `inner` tells it, whoever starts one puts it there, and
\* a writer that is pushed out of there loses its senders.
LEMMA GuidedStep ==
    ASSUME Typed, Guided, [Next]_vars
    PROVE  Guided'
<1>1. CASE UNCHANGED vars
  BY <1>1 DEF vars, Guided, Alive
<1>2. ASSUME NEW rec \in Records, Record(rec) PROVE Guided'
  <2>1. \A v \in Writers : (Alive(v)' => Alive(v)) /\ writer'[v].told = writer[v].told
    <3>1. CASE UNCHANGED writer
      BY <3>1 DEF Alive
    <3>2. CASE writer' = [writer EXCEPT ![inner].queue = Append(@, rec)] /\ inner # None
      BY <3>2 DEF Typed, WriterRecords, Alive
    <3> QED BY <1>2, <3>1, <3>2 DEF Record
  <2> QED BY <1>2, <2>1, SameGuides DEF Record
<1>3. ASSUME NEW w \in Writers, Receive(w) PROVE Guided'
  <2>1. \A v \in Writers : (Alive(v)' => Alive(v)) /\ writer'[v].told = writer[v].told
    BY <1>3 DEF Receive, Typed, WriterRecords, Alive
  <2> QED BY <1>3, <2>1, SameGuides DEF Receive
<1>4. ASSUME NEW w \in Writers, WriteBatch(w) PROVE Guided'
  <2>1. \A v \in Writers : (Alive(v)' => Alive(v)) /\ writer'[v].told = writer[v].told
    BY <1>4 DEF WriteBatch, Typed, WriterRecords, Alive
  <2> QED BY <1>4, <2>1, SameGuides DEF WriteBatch
<1>5. ASSUME NEW w \in Writers, LeaveLoop(w) PROVE Guided'
  <2>1. \A v \in Writers : (Alive(v)' => Alive(v)) /\ writer'[v].told = writer[v].told
    BY <1>5 DEF LeaveLoop, Typed, WriterRecords, Alive
  <2> QED BY <1>5, <2>1, SameGuides DEF LeaveLoop
<1>6. ASSUME NEW w \in Writers, Drain(w) PROVE Guided'
  <2>1. ~Alive(w)' /\ \A v \in Writers : v # w => writer'[v] = writer[v]
    BY <1>6 DEF Drain, Typed, NoWriter, Alive
  <2>2. UNCHANGED <<inner, job>>
    BY <1>6 DEF Drain
  <2> QED BY <2>1, <2>2 DEF Guided, Alive
<1>7. ASSUME NEW a \in Appliers, NEW c \in Configs \cup {Off}, Apply(a, c) PROVE Guided'
  <2>1. UNCHANGED <<inner, writer>> /\ \A b \in Appliers : b # a => job'[b] = job[b]
    BY <1>7 DEF Apply, Typed
  <2>2. job[a].pc \notin {"tell", "install"}
    BY <1>7 DEF Apply
  <2> QED BY <2>1, <2>2, OthersGuide
<1>8. ASSUME NEW a \in Appliers, Shutdown(a) PROVE Guided'
  <2>1. UNCHANGED <<inner, writer>> /\ \A b \in Appliers : b # a => job'[b] = job[b]
    BY <1>8 DEF Shutdown, Typed
  <2>2. job[a].pc \notin {"tell", "install"}
    BY <1>8 DEF Shutdown
  <2> QED BY <2>1, <2>2, OthersGuide
<1>9. ASSUME NEW a \in Appliers, Take(a) PROVE Guided'
  <2>1. UNCHANGED writer /\ \A b \in Appliers : b # a => job'[b] = job[b]
    BY <1>9 DEF Take, Typed
  <2>2. job[a].pc = "take" /\ job'[a].pc = "tell" /\ job'[a].old = inner
    BY <1>9 DEF Take, Typed, JobRecords
  <2> QED BY <2>1, <2>2 DEF Guided, Alive
<1>10. ASSUME NEW a \in Appliers, Tell(a) PROVE Guided'
  <2>1. inner' = inner /\ \A b \in Appliers : b # a => job'[b] = job[b]
    BY <1>10 DEF Tell, Typed
  <2>2. job[a].pc = "tell" /\ \A v \in Writers : v # job[a].old => writer'[v] = writer[v]
    BY <1>10 DEF Tell, Typed
  <2>3. job[a].old \in Writers => writer'[job[a].old].told
    BY <1>10, TrackerAssumption DEF Tell, Typed, WriterRecords
  <2> QED BY <2>1, <2>2, <2>3 DEF Guided, Alive
<1>11. ASSUME NEW a \in Appliers, Join(a) PROVE Guided'
  <2>1. UNCHANGED <<inner, writer>> /\ \A b \in Appliers : b # a => job'[b] = job[b]
    BY <1>11 DEF Join, Typed
  <2>2. job[a].pc \notin {"tell", "install"}
    BY <1>11 DEF Join
  <2> QED BY <2>1, <2>2, OthersGuide
<1>12. ASSUME NEW a \in Appliers, Adopt(a) PROVE Guided'
  <2>1. UNCHANGED <<inner, writer>> /\ \A b \in Appliers : b # a => job'[b] = job[b]
    BY <1>12 DEF Adopt, Typed
  <2>2. job[a].pc \notin {"tell", "install"}
    BY <1>12 DEF Adopt
  <2> QED BY <2>1, <2>2, OthersGuide
<1>13. ASSUME NEW a \in Appliers, OpenFails(a) PROVE Guided'
  <2>1. UNCHANGED <<inner, writer>> /\ \A b \in Appliers : b # a => job'[b] = job[b]
    BY <1>13 DEF OpenFails, Typed
  <2>2. job[a].pc \notin {"tell", "install"}
    BY <1>13 DEF OpenFails
  <2> QED BY <2>1, <2>2, OthersGuide
<1>14. ASSUME NEW a \in Appliers, Install(a) PROVE Guided'
  <2>1. inner' = job[a].new /\ \A b \in Appliers : b # a => job'[b] = job[b]
    BY <1>14 DEF Install, Typed
  <2>2. job[a].pc = "install" /\ \A v \in Writers : v # inner => writer'[v] = writer[v]
    BY <1>14 DEF Install, Typed
  <2>3. inner \in Writers => writer'[inner].told
    BY <1>14, TrackerAssumption DEF Install, Typed, WriterRecords
  <2> QED BY <2>1, <2>2, <2>3 DEF Guided, Alive
<1>15. ASSUME NEW a \in Appliers, NEW w \in Writers, Spawn(a, w) PROVE Guided'
  <2>1. inner' = inner /\ \A b \in Appliers : b # a => job'[b] = job[b]
    BY <1>15 DEF Spawn, Typed
  <2>2. job[a].pc = "open" /\ job'[a].pc = "install" /\ job'[a].new = w
    BY <1>15 DEF Spawn, Typed, JobRecords
  <2>3. \A v \in Writers : v # w => writer'[v] = writer[v]
    BY <1>15 DEF Spawn, Typed
  <2> QED BY <2>1, <2>2, <2>3 DEF Guided, Alive
<1> QED BY <1>1, <1>2, <1>3, <1>4, <1>5, <1>6, <1>7, <1>8, <1>9,
         <1>10, <1>11, <1>12, <1>13, <1>14, <1>15
       DEF Next, WriterStep, ApplierStep
-----------------------------------------------------------------------------
(* The theorems.                                                             *)

\* The inductive invariant.
Safe == Typed /\ SendersServed /\ BatchesSettled /\ Accounted /\ Guided

\* A tracker that was never configured has no writers.
LEMMA SafeInit == Init => Safe
<1> SUFFICES ASSUME Init PROVE Safe
  OBVIOUS
<1>1. <<>> \in Seq(Records)
  OBVIOUS
<1>2. NoWriter \in WriterRecords /\ NoJob \in JobRecords
  BY <1>1 DEF NoWriter, WriterRecords, NoJob, JobRecords
<1>3. Typed
  BY <1>2 DEF Init, Typed
<1>4. \A w \in Writers : writer[w].batch = <<>> /\ ~Alive(w)
  BY DEF Init, NoWriter, Alive
<1>5. \A a \in Appliers : job[a].pc = "idle"
  BY DEF Init, NoJob
<1>6. SendersServed
  BY <1>5 DEF Init, SendersServed
<1>7. BatchesSettled
  BY <1>4 DEF BatchesSettled
<1>8. Accounted
  BY DEF Init, Accounted
<1>9. Guided
  BY <1>4 DEF Guided
<1> QED BY <1>3, <1>6, <1>7, <1>8, <1>9 DEF Safe

\* Every step of a sender, a writer or an applier keeps it.
LEMMA SafeAlways == Spec => []Safe
<1>1. Safe /\ [Next]_vars => Safe'
  BY TypedStep, ServedStep, SettledStep, AccountedStep, GuidedStep DEF Safe
<1> QED BY <1>1, SafeInit, PTL DEF Spec

\* A record the channel took is never lost without a word: it is queued at a writer that
\* runs, in its batch, written or reported, for any number of threads that apply
\* configurations at the same time (record, writer_loop, stop_internal).
THEOREM NothingForgotten == Spec => []NoneForgotten
<1>1. Safe => NoneForgotten
  <2> SUFFICES ASSUME Safe, NEW rec \in accepted \ settled
               PROVE  \E w \in Writers :
                        Alive(w) /\ rec \in Range(writer[w].queue \o writer[w].batch)
    BY DEF NoneForgotten
  <2>1. PICK w \in Writers :
          Alive(w) /\ rec \in Range(writer[w].queue) \cup Range(writer[w].batch)
    BY DEF Safe, Accounted, Held
  <2>2. writer[w].queue \in Seq(Records) /\ writer[w].batch \in Seq(Records)
    BY DEF Safe, Typed, WriterRecords
  <2> QED BY <2>1, <2>2, ConcatSet
<1> QED BY <1>1, SafeAlways, PTL

\* However many configurations are applied at once, no writer runs on for ever beside the
\* one in `inner`, and records are sent only to a writer that will look at its channel
\* again (apply_config, stop_internal, start_internal).
THEOREM WritersGuided == Spec => []NoneAdrift
<1>1. Safe => NoneAdrift
  BY DEF Safe, SendersServed, Working, Guided, NoneAdrift
<1> QED BY <1>1, SafeAlways, PTL
=============================================================================
